------------------------------ MODULE Plumber ------------------------------
(***************************************************************************)
(* How output gets where it belongs: what builtins write, what child       *)
(* processes write, and the pipes of substitutions (plumber.cc,            *)
(* substitution_stream.cc, Binary::execute and the builtins .fork, .exec   *)
(* and .store_output).                                                     *)
(*                                                                         *)
(* The shell is one process and runs one child at a time, for which it     *)
(* waits; the two run concurrently.  A piece of output is a number, in the *)
(* order of writing.  Statements and exceptions are left out: in between   *)
(* the script does whatever it likes.                                      *)
(***************************************************************************)
EXTENDS Integers, Sequences, SequencesExt

CONSTANTS
  None,
  MaxLevels,   \* bound on the substitutions inside each other
  MaxPieces,   \* bound on the pieces of output
  MaxTries,    \* bound on how often a process is made or replaced
  PipeSize     \* pieces that a pipe holds

ASSUME BoundsAssumption ==
  /\ MaxLevels \in Nat /\ MaxPieces \in Nat /\ MaxTries \in Nat
  /\ PipeSize \in Nat \ {0}

\* A child process: what it runs, where its descriptor 1 leads, its copy of the
\* buffer of cout, the pipes it can write to, and the pieces it has still to write.
Children == [kind : {"binary", "fork", "missing"}, fd1 : Int, buf : Seq(Nat),
             holds : SUBSET Int, left : Nat, pc : {"running", "done"}]

\* "None" stands for no child.
ASSUME NoneAssumption == None \notin Children

VARIABLES
  subs,      \* Substitution_stream: one for each substitution being evaluated
  outbuf,    \* the buffer of cout
  shown,     \* what has arrived on the standard output of the shell
  fd1,       \* where file descriptor 1 of the shell leads
  to_close,  \* Plumber::to_close_on_wait
  output_handlers,  \* Plumber::output_handlers
  child,     \* the child process
  pc,        \* what the shell does
  count,     \* pieces of output so far
  tries,     \* processes made or replaced, or not, so far
  meant,     \* pieces that belong on the standard output of the shell (0) and in
             \* the text of the substitution of each level
  pending    \* pieces that were in a buffer when a process was made or replaced

vars == <<subs, outbuf, shown, fd1, to_close, output_handlers, child, pc, count,
          tries, meant, pending>>

shellVars == <<subs, outbuf, fd1, to_close, output_handlers, pc, tries>>
ghostVars == <<meant, pending>>

Screen == 0   \* descriptors lead to the pipe of a substitution, which its level
Gone == -1    \* stands for, to the screen, or to the pipe of one that is over
Level == Len(subs)

-----------------------------------------------------------------------------
\* Streams, pipes and who may write to them.

NewStream == [buffer |-> << >>, data |-> << >>, writing |-> FALSE, reading |-> FALSE]

\* Somebody has the write end of the pipe of level k.
Writers(k) == subs[k].writing \/ fd1 = k \/ (child # None /\ k \in child.holds)

\* What is written at once arrives at the end of a descriptor, when it is not that
\* of a full pipe.
Deliver(place, pieces) ==
  /\ place \in DOMAIN subs => Len(subs[place].data) < PipeSize
  /\ shown' = IF place = Screen THEN shown \o pieces ELSE shown
  /\ subs' = IF place \in DOMAIN subs
             THEN [subs EXCEPT ![place] = [subs[place] EXCEPT !.data = @ \o pieces]]
             ELSE subs

\* The next piece belongs to a place.
Belongs(place) == meant' = [meant EXCEPT ![place] = @ \cup {count + 1}]

-----------------------------------------------------------------------------
\* The script.

StartSubstitution ==
  /\ pc = "script"
  /\ Level < MaxLevels
  /\ subs' = Append(subs, NewStream)
  /\ UNCHANGED <<outbuf, shown, fd1, to_close, output_handlers, child, pc, count,
                 tries, ghostVars>>

\* Its text is taken and its stream destroyed.
EndSubstitution ==
  LET without(k) == IF k = Level THEN Gone ELSE k
  IN  /\ pc = "script"
      /\ subs # << >>
      /\ subs' = Front(subs)
      /\ fd1' = without(fd1)
      /\ to_close' = [i \in DOMAIN to_close |-> without(to_close[i])]
      /\ output_handlers' = [i \in DOMAIN output_handlers |-> without(output_handlers[i])]
      /\ meant' = [meant EXCEPT ![Level] = {}]
      /\ UNCHANGED <<outbuf, shown, child, pc, count, tries, pending>>

Piece == count < MaxPieces /\ count' = count + 1

\* A builtin writes to cout, and most builtins flush it.  In a substitution these
\* are those of handlers of signals and of the scripts sourced there.
Write(flushes) ==
  /\ pc = "script"
  /\ Piece
  /\ Belongs(Screen)
  /\ LET written == Append(outbuf, count')
     IN  IF flushes THEN outbuf' = << >> /\ Deliver(fd1, written)
         ELSE outbuf' = written /\ UNCHANGED <<subs, shown>>
  /\ UNCHANGED <<fd1, to_close, output_handlers, child, pc, tries, pending>>

\* The script of the innermost substitution writes.
WriteText ==
  /\ pc = "script"
  /\ subs # << >>
  /\ Piece
  /\ Belongs(Level)
  /\ subs' = [subs EXCEPT ![Level] = [subs[Level] EXCEPT !.buffer = Append(@, count')]]
  /\ UNCHANGED <<outbuf, shown, fd1, to_close, output_handlers, child, pc, tries, pending>>

-----------------------------------------------------------------------------
\* Starting a child.

\* Substitution_stream::fd, Plumber::proxy_output: the innermost substitution gets a
\* pipe, unless it has one or pipe() fails.
OpenPipe ==
  \/ /\ subs # << >> /\ ~subs[Level].writing
     /\ subs' = [subs EXCEPT ![Level] = [subs[Level] EXCEPT !.writing = TRUE, !.reading = TRUE]]
     /\ to_close' = Append(to_close, Level)
     /\ output_handlers' = Append(output_handlers, Level)
  \/ UNCHANGED <<subs, to_close, output_handlers>>

\* Where descriptor 1 leads when output has been redirected to the innermost of the
\* streams: dup2 fails for one that has no pipe.
Redirected(streams) ==
  LET innermost == Len(streams)
  IN  IF innermost # Screen /\ streams[innermost].writing THEN innermost ELSE fd1

\* A child has a copy of the buffer and of every descriptor that is open, of which
\* it closes those it could read from (Plumber::after_fork).  It is going to write
\* n pieces, if the bound on output lets it.
Child(kind, output, streams, n) ==
  [kind |-> kind, fd1 |-> output, buf |-> IF kind = "binary" THEN << >> ELSE outbuf,
   holds |-> {k \in DOMAIN streams : streams[k].writing} \cup {output},
   left |-> n, pc |-> "running"]

Try == pc = "script" /\ tries < MaxTries /\ tries' = tries + 1

\* Faulty variant: the descriptor of the child is not redirected.
RunUnredirected(kind, n) ==
  /\ Try
  /\ OpenPipe
  /\ child' = Child(kind, fd1, subs', n)
  /\ pc' = "wait"
  /\ pending' = pending \cup Range(outbuf)
  /\ UNCHANGED <<outbuf, shown, fd1, count, meant>>

\* Binary::execute: a binary, or one that turns out not to be there, for which the
\* child runs the handlers of its exceptions.
RunBinary(kind, n) ==
  /\ Try
  /\ OpenPipe
  /\ child' = Child(kind, Redirected(subs'), subs', n)
  /\ pc' = "wait"
  /\ pending' = pending \cup Range(outbuf)
  /\ UNCHANGED <<outbuf, shown, fd1, count, meant>>

\* b_fork: the shell that is forked runs builtins.
RunFork(n) ==
  /\ Try
  /\ child' = Child("fork", fd1, subs, n)
  /\ pc' = "wait"
  /\ pending' = pending \cup Range(outbuf)
  /\ UNCHANGED <<subs, outbuf, shown, fd1, to_close, output_handlers, count, meant>>

\* No child is made; the shell waits all the same.
ForkFails ==
  /\ Try
  /\ OpenPipe
  /\ pc' = "wait"
  /\ UNCHANGED <<outbuf, shown, fd1, child, count, ghostVars>>

\* b_exec fails: its output has been redirected by then.
ExecFails ==
  /\ Try
  /\ OpenPipe
  /\ fd1' = Redirected(subs')
  /\ UNCHANGED <<outbuf, shown, child, pc, count, ghostVars>>

\* b_exec succeeds: what was in the buffer is gone with the shell.
ExecSucceeds ==
  /\ Try
  /\ pc' = "replaced"
  /\ pending' = pending \cup Range(outbuf)
  /\ UNCHANGED <<subs, outbuf, shown, fd1, to_close, output_handlers, child, count,
                 meant>>

-----------------------------------------------------------------------------
\* Plumber::wait

\* Faulty variant: the shell keeps them open.
CloseNothing ==
  /\ pc = "wait"
  /\ Gone \notin Range(to_close)
  /\ to_close' = << >>
  /\ pc' = "copy"
  /\ UNCHANGED <<subs, outbuf, shown, fd1, output_handlers, child, count, tries,
                 ghostVars>>

\* The write ends are closed, so that reading can come to an end.
CloseEnds ==
  /\ pc = "wait"
  /\ Gone \notin Range(to_close)
  /\ subs' = [k \in DOMAIN subs |->
                IF k \in Range(to_close) THEN [subs[k] EXCEPT !.writing = FALSE]
                ELSE subs[k]]
  /\ to_close' = << >>
  /\ pc' = "copy"
  /\ UNCHANGED <<outbuf, shown, fd1, output_handlers, child, count, tries, ghostVars>>

\* A stream among them has been destroyed.
CloseGone ==
  /\ pc = "wait"
  /\ Gone \in Range(to_close)
  /\ pc' = "undefined"
  /\ UNCHANGED <<subs, outbuf, shown, fd1, to_close, output_handlers, child, count,
                 tries, ghostVars>>

\* Faulty variant: copying ends with the first read that gets something.
CopyOnce ==
  LET k == Head(output_handlers)
  IN  /\ pc = "copy"
      /\ output_handlers # << >>
      /\ \/ subs[k].data # << >> \/ ~Writers(k)
      /\ subs' = [subs EXCEPT ![k].buffer = @ \o subs[k].data,
                              ![k].data = << >>, ![k].reading = FALSE]
      /\ output_handlers' = Tail(output_handlers)
      /\ UNCHANGED <<outbuf, shown, fd1, to_close, child, pc, count,
                 tries, ghostVars>>

\* Faulty variant: when the last writer has gone nothing is read any more.
CopyUntilClosed ==
  LET k == Head(output_handlers)
  IN  /\ pc = "copy"
      /\ output_handlers # << >>
      /\ IF Writers(k)
         THEN /\ subs[k].data # << >>
              /\ subs' = [subs EXCEPT ![k].buffer = @ \o subs[k].data, ![k].data = << >>]
              /\ output_handlers' = Append(Tail(output_handlers), k)
         ELSE /\ subs' = [subs EXCEPT ![k].reading = FALSE, ![k].data = << >>]
              /\ output_handlers' = Tail(output_handlers)
      /\ UNCHANGED <<outbuf, shown, fd1, to_close, child, pc, count,
                 tries, ghostVars>>

\* read_handler: a read of what the next pipe has, or of its end.  read() waits
\* for either.
Copy ==
  LET k == Head(output_handlers)
  IN  /\ pc = "copy"
      /\ output_handlers # << >>
      /\ IF subs[k].data # << >>
         THEN \E n \in 1 .. Len(subs[k].data) :
                /\ subs' = [subs EXCEPT ![k] =
                     [subs[k] EXCEPT !.buffer = @ \o SubSeq(subs[k].data, 1, n),
                                     !.data = SubSeq(@, n + 1, Len(@))]]
                /\ output_handlers' = Append(Tail(output_handlers), k)
         ELSE /\ ~Writers(k)
              /\ subs' = [subs EXCEPT ![k].reading = FALSE]
              /\ output_handlers' = Tail(output_handlers)
      /\ UNCHANGED <<outbuf, shown, fd1, to_close, child, pc, count,
                 tries, ghostVars>>

\* The child is waited for when all is read.
Reap ==
  /\ pc = "copy"
  /\ output_handlers = << >>
  /\ child # None => child.pc = "done"
  /\ child' = None
  /\ pc' = "script"
  /\ UNCHANGED <<subs, outbuf, shown, fd1, to_close, output_handlers, count, tries,
                 ghostVars>>

-----------------------------------------------------------------------------
\* The child.

Running(kinds) ==
  /\ pc \in {"wait", "copy"}
  /\ child # None /\ child.pc = "running" /\ child.kind \in kinds

\* What a child writes belongs to the innermost substitution, if it has a pipe.
Innermost == IF subs # << >> /\ subs[Level].reading THEN Level ELSE Screen

\* A binary writes to its descriptor.
BinaryWrites ==
  /\ Running({"binary"})
  /\ child.left > 0
  /\ Piece
  /\ Belongs(Innermost)
  /\ Deliver(child.fd1, <<count'>>)
  /\ child' = [child EXCEPT !.left = @ - 1]
  /\ UNCHANGED <<outbuf, fd1, to_close, output_handlers, pc, tries, pending>>

\* A builtin writes to its copy of cout: in the forked shell, or in a handler that is
\* run because a binary is missing.
ChildPrints(flushes) ==
  /\ Running({"fork", "missing"})
  /\ child.left > 0
  /\ Piece
  /\ Belongs(Innermost)
  /\ LET written == Append(child.buf, count')
     IN  /\ child' = [child EXCEPT !.left = @ - 1,
                                   !.buf = IF flushes THEN << >> ELSE written]
         /\ IF flushes THEN Deliver(child.fd1, written) ELSE UNCHANGED <<subs, shown>>
  /\ UNCHANGED <<outbuf, fd1, to_close, output_handlers, pc, tries, pending>>

\* A builtin writes in the forked shell to its copy of the innermost stream, which
\* nobody reads.
ForkWritesText ==
  /\ Running({"fork"})
  /\ subs # << >>
  /\ child.left > 0
  /\ Piece
  /\ child' = [child EXCEPT !.left = @ - 1]
  /\ UNCHANGED <<shown, shellVars, ghostVars>>

\* Its work is done, or the bound on output keeps it from more.
Finished == child.left = 0 \/ count = MaxPieces

\* exit() flushes what is in the buffer.
ChildFlushes ==
  /\ Running({"fork", "missing"})
  /\ Finished
  /\ child.buf # << >>
  /\ Deliver(child.fd1, child.buf)
  /\ child' = [child EXCEPT !.buf = << >>]
  /\ UNCHANGED <<outbuf, fd1, to_close, output_handlers, pc, count, tries, ghostVars>>

ChildExits ==
  /\ Running({"binary", "fork", "missing"})
  /\ Finished
  /\ child.buf = << >>
  /\ child' = [child EXCEPT !.pc = "done", !.holds = {}]
  /\ UNCHANGED <<shown, count, shellVars, ghostVars>>

\* A signal ends it.
ChildKilled ==
  /\ Running({"binary", "fork", "missing"})
  /\ child' = [child EXCEPT !.pc = "done", !.holds = {}, !.buf = << >>]
  /\ pending' = pending \cup Range(child.buf)
  /\ UNCHANGED <<shown, count, meant, shellVars>>

-----------------------------------------------------------------------------
Init ==
  /\ subs = << >>
  /\ outbuf = << >>
  /\ shown = << >>
  /\ fd1 = Screen
  /\ to_close = << >>
  /\ output_handlers = << >>
  /\ child = None
  /\ pc = "script"
  /\ count = 0
  /\ tries = 0
  /\ meant = [place \in 0 .. MaxLevels |-> {}]
  /\ pending = {}

Wait == CloseEnds \/ CloseGone \/ Copy \/ Reap
ChildStep ==
  \/ BinaryWrites \/ ForkWritesText \/ ChildFlushes \/ ChildExits
  \/ \E flushes \in BOOLEAN : ChildPrints(flushes)

Next ==
  \/ StartSubstitution \/ EndSubstitution
  \/ WriteText
  \/ \E flushes \in BOOLEAN : Write(flushes)
  \/ \E n \in 0 .. MaxPieces - count : RunBinary("binary", n)
  \/ \E n \in 0 .. MaxPieces - count : RunBinary("missing", n)
  \/ \E n \in 0 .. MaxPieces - count : RunFork(n)
  \/ ForkFails \/ ExecFails \/ ExecSucceeds
  \/ Wait \/ ChildStep \/ ChildKilled

\* The kernel runs both processes, and a child ends when its work is done.
Fairness == WF_vars(Wait) /\ WF_vars(ChildStep)

Spec == Init /\ [][Next]_vars
FairSpec == Spec /\ Fairness
=============================================================================
