----------------------------- MODULE StreamNode -----------------------------
(***************************************************************************)
(* Writing to a stream node.  write() copies what it is given: one value, a *)
(* container that others fill, or a stream, until it is exhausted.  Here    *)
(* the nodes written to are terminals, and a pump is a thread that writes   *)
(* one of                                                                  *)
(*   "read"       what the *-read-* of a terminal returns, again and again, *)
(*                as the tail calls of examples/xterm-bridge.scm do,        *)
(*   "string"     the StringStream of a terminal,                           *)
(*   "stream"     the ReadStream of a terminal; of v0, a TerminalStream,    *)
(*   "container"  a container,                                              *)
(*   "file"       of v0, a TextFileStream.                                  *)
(* job says what the program of a behaviour does: which generation it uses, *)
(* what each pump copies and where, who opens and closes terminals, and as  *)
(* bounds how many lines are typed and whether calls in open() fail.        *)
(*                                                                         *)
(* SensoryNode hands a *-open-* or *-close-* message to OpenBegin or        *)
(* CloseBegin, and a *-write-* to Start.  The items of a container and the  *)
(* lines of a file are those of session 0; line 0 of a file is its URL.     *)
(***************************************************************************)
EXTENDS TerminalNode

CONSTANT Jobs

VARIABLES
    job,
    val,         \* what the pump's stream holds, its _value
    next,        \* the place in it the pump has got to
    queue,       \* the container: items nobody has removed
    added,       \* items added to it
    closed,      \* it is closed
    rdpos,       \* lines of the file read; -1: _fresh
    again,       \* history: the pumps that hold what they have held before
    handed       \* history: what do_write() was given, MayRepeat left out

pumpVars == <<val, next, again, handed>>
boxVars == <<queue, added, closed, rdpos>>
vars == <<terminalVars, job, pumpVars, boxVars>>

PumpPc == {"idle", "up", "co_remove", "rd_check", "rd_gets", "wr", "wr_print",
           "done", "thrown"}
Kinds == {"read", "string", "stream", "container", "file", "none"}

ASSUME JobAssumption ==
    Jobs \subseteq [legacy : BOOLEAN, kind : [Pumps -> Kinds], from : [Pumps -> Terminals],
                    to : [Pumps -> Terminals], control : SUBSET Controllers,
                    lines : Nat, fails : BOOLEAN]

Active(p) == pc[p] \notin {"idle", "done", "thrown"}
OnTerminal(p) == job.kind[p] \in {"read", "string", "stream"}

PumpType ==
    /\ job \in Jobs /\ legacy = job.legacy
    /\ pc \in [Threads -> PumpPc \cup ChangePc \cup {"ha_lock"}]
    /\ val \in [Pumps -> Seq(Lines \cup {Void})]
    /\ legacy => val \in [Pumps -> Seq(Lines)]
    /\ next \in [Pumps -> Nat \ {0}]
    /\ \A p \in Pumps : next[p] <= Len(val[p]) + 1
    /\ \A p \in Pumps : pc[p] = "wr_print" => next[p] <= Len(val[p]) /\ val[p][next[p]] \in Lines
    /\ again \subseteq Pumps /\ handed \in [Pumps -> Seq(Lines)]
BoxType ==
    /\ queue \in Seq(Lines) /\ closed \in BOOLEAN
    /\ added \in 0..MaxLines /\ rdpos \in -1..MaxLines

TypeOK == TerminalType /\ PumpType /\ BoxType

Init ==
    /\ TerminalInit
    /\ job \in {j \in Jobs : j.legacy = legacy}
    /\ val = [p \in Pumps |-> <<>>]
    /\ next = [p \in Pumps |-> 1]
    /\ queue = <<>> /\ added = 0 /\ closed = FALSE /\ rdpos = -1
    /\ again = {} /\ handed = [p \in Pumps |-> <<>>]

-----------------------------------------------------------------------------
(* Messages                                                                 *)

\* The next value() of the source, or the next *-read-* that getValue() hands on.
Pass(p) == Enter(p, job.from[p], "up")
Begin(p) ==
    /\ pc[p] = "idle" /\ job.kind[p] # "none"
    /\ Pass(p)
    /\ UNCHANGED <<legacy, nodeVars, lineVars, sessionVars, at, crossed, cut, ended,
                   job, pumpVars, boxVars>>

\* SensoryNode::setValue() with *-write-* on what the job says.
Start(p) == ~legacy /\ Begin(p)

\* WriteLink, on streams that OpenLink has made.
LegacyStart(p) ==
    /\ legacy
    /\ job.to[p] \in born
    /\ OnTerminal(p) => job.from[p] \in born
    /\ Begin(p)

-----------------------------------------------------------------------------
(* What the next value() of the source holds: update(), and remove() of a   *)
(* container.  Receive ends it; old says that the pump has held this before. *)

Got(p, vals) ==
    /\ val' = [val EXCEPT ![p] = vals]
    /\ next' = [next EXCEPT ![p] = 1]
    /\ Enter(p, NoTerminal, "wr")
    /\ Forget(p)
Receive(p, vals, old) == Got(p, vals) /\ again' = (again \ {p}) \cup {q \in {p} : old}
Moves(p, label) == Enter(p, on[p], label) /\ UNCHANGED <<val, next, again, at>>

\* Mutant of Delivered: update() of a ReadStream appends to what it holds.
DeliveredAppended(p, l) ==
    IF l = Void /\ (legacy \/ job.kind[p] = "string") THEN <<>> ELSE Append(val[p], l)

\* What a terminal's line, or Void, becomes: the two streams of strings have
\* no value then, the other two hold a VoidValue.
Delivered(p, l) ==
    IF l = Void /\ (legacy \/ job.kind[p] = "string") THEN <<>> ELSE <<l>>

sourceRest == <<legacy, nodeVars, sessionVars, typed, crossed, job, handed>>

\* StringStream::update(): nothing if the node is not open.
StringUpdate(p) ==
    /\ pc[p] = "up" /\ job.kind[p] = "string"
    /\ \/ fh[on[p]] = NoFile /\ Receive(p, <<>>, FALSE)
       \/ fh[on[p]] # NoFile /\ Moves(p, "rd_check")
    /\ UNCHANGED <<sourceRest, taken, torn, repeats, stuck, cut, ended, boxVars>>

\* ReadStream::update(): what it held before if the node is not open.
StreamUpdate(p) ==
    /\ pc[p] = "up" /\ job.kind[p] = "stream" /\ ~legacy
    /\ \/ fh[on[p]] = NoFile /\ Receive(p, val[p], TRUE)
       \/ fh[on[p]] # NoFile /\ Moves(p, "rd_check")
    /\ UNCHANGED <<sourceRest, taken, torn, repeats, stuck, cut, ended, boxVars>>

\* do_read(), after *-read-* or from the two above.
ReadCheck(p) ==
    /\ ~legacy
    /\ pc[p] = "rd_check" \/ (pc[p] = "up" /\ job.kind[p] = "read")
    /\ \/ fh[on[p]] = NoFile /\ Receive(p, Delivered(p, Void), FALSE) /\ UNCHANGED cut
       \/ fh[on[p]] # NoFile /\ Pick(p, "rd_gets") /\ UNCHANGED <<val, next, again>>
    /\ UNCHANGED <<sourceRest, taken, torn, repeats, stuck, ended, boxVars>>

\* At the end of file it halts the terminal, with whatever FILE that has now.
ReadGets(p) ==
    /\ ~legacy /\ pc[p] = "rd_gets"
    /\ \/ \E l \in Lines : GetsLine(p, l) /\ Receive(p, Delivered(p, l), at[p] \in stuck)
       \/ GetsEnd(p) /\ Moves(p, "ha_lock")
    /\ UNCHANGED <<sourceRest, cut, boxVars>>

\* TerminalStream::update() of v0 is the same without the lock.
UpdateCheck(p) ==
    /\ legacy /\ pc[p] = "up" /\ job.kind[p] = "stream"
    /\ \/ fh[on[p]] = NoFile /\ Receive(p, <<>>, FALSE) /\ UNCHANGED cut
       \/ fh[on[p]] # NoFile /\ Pick(p, "rd_gets") /\ UNCHANGED <<val, next, again>>
    /\ UNCHANGED <<sourceRest, taken, torn, repeats, stuck, ended, boxVars>>

UpdateGets(p) ==
    /\ legacy /\ pc[p] = "rd_gets"
    /\ \/ \E l \in Lines : GetsLine(p, l) /\ Receive(p, Delivered(p, l), at[p] \in stuck) /\ UNCHANGED crossed
       \/ /\ GetsEnd(p)
          /\ Cross(p, on[p])
          /\ Moves(p, "ha_close")
    /\ UNCHANGED <<legacy, nodeVars, sessionVars, typed, job, handed, cut, boxVars>>

\* halt() returns: to the controller, or to a reader at end of file.
HaltReturn(x) ==
    /\ Kill(x)
    /\ \/ x \in Controllers /\ Return(x) /\ UNCHANGED <<val, next, again, at>>
       \/ x \in Pumps /\ Receive(x, Delivered(x, Void), FALSE)
    /\ UNCHANGED <<legacy, born, fh, lineVars, term, files, unopened, crossed, cut, ended,
                   job, handed, boxVars>>

\* TextFileStream::update() of v0: its URL first, then the lines; at the end
\* it closes the file and holds nothing from then on.
FileUpdate(p) ==
    /\ pc[p] = "up" /\ job.kind[p] = "file"
    /\ \/ rdpos < MaxLines /\ rdpos' = rdpos + 1 /\ Receive(p, <<<<0, rdpos + 1>>>>, FALSE)
       \/ rdpos = MaxLines /\ Receive(p, <<>>, FALSE) /\ UNCHANGED rdpos
    /\ UNCHANGED <<sourceRest, taken, torn, repeats, stuck, cut, ended, queue, added, closed>>

\* Mutant of ContainerCheck: what is left in a closed container is not drained.
ContainerNotDrained(p) ==
    /\ pc[p] = "up" /\ job.kind[p] = "container"
    /\ \/ ~closed /\ Moves(p, "co_remove") /\ UNCHANGED queue
       \/ closed /\ Receive(p, <<>>, FALSE) /\ UNCHANGED queue
    /\ UNCHANGED <<sourceRest, taken, torn, repeats, stuck, cut, ended, added, closed, rdpos>>

\* The loop of write() over a container: while it is open, remove() an item;
\* once it is closed, what is left, and after that nothing.
ContainerCheck(p) ==
    /\ pc[p] = "up" /\ job.kind[p] = "container"
    /\ \/ ~closed /\ Moves(p, "co_remove") /\ UNCHANGED queue
       \/ closed /\ Receive(p, queue, FALSE) /\ queue' = <<>>
    /\ UNCHANGED <<sourceRest, taken, torn, repeats, stuck, cut, ended, added, closed, rdpos>>

\* remove() waits for an item, or for the container to be closed, and then
\* returns something to skip, or throws.
ContainerRemove(p) ==
    /\ pc[p] = "co_remove"
    /\ \/ queue # <<>> /\ Receive(p, <<Head(queue)>>, FALSE) /\ queue' = Tail(queue)
       \/ closed /\ queue = <<>> /\ Moves(p, "up") /\ UNCHANGED queue
       \/ /\ closed /\ queue = <<>>
          /\ Enter(p, NoTerminal, "thrown")
          /\ UNCHANGED <<val, next, again, at, queue>>
    /\ UNCHANGED <<sourceRest, taken, torn, repeats, stuck, cut, ended, added, closed, rdpos>>

-----------------------------------------------------------------------------
(* The loop over the values, and do_write() of each of them.                *)

writeRest == <<legacy, nodeVars, typed, taken, repeats, stuck, sessionVars, crossed, job, boxVars>>

\* All values are written.  The stream is exhausted if there were none; a
\* StringStream is a value and not a stream, so that write() returns.
PassEnd(p) ==
    /\ pc[p] = "wr" /\ next[p] > Len(val[p])
    /\ IF val[p] = <<>> \/ job.kind[p] = "string" THEN Enter(p, NoTerminal, "done") ELSE Pass(p)
    /\ val' = IF job.kind[p] = "stream" /\ ~legacy THEN val ELSE [val EXCEPT ![p] = <<>>]
    /\ next' = [next EXCEPT ![p] = 1]
    /\ UNCHANGED <<writeRest, torn, at, cut, ended, again, handed>>

\* do_write() takes the FILE; it throws if there is none.
NotOpen(p) == fh[job.to[p]] = NoFile /\ Enter(p, NoTerminal, "thrown") /\ UNCHANGED <<at, cut>>
TakeFile(p) ==
    /\ fh[job.to[p]] # NoFile
    /\ at' = [at EXCEPT ![p] = fh[job.to[p]]]
    /\ cut' = cut \cup {u \in {job.to[p]} : fh[u] \notin files}
    /\ Enter(p, job.to[p], "wr_print")

\* Mutant of WriteOne: a VoidValue is skipped.
WriteOneSkipsVoid(p) ==
    /\ ~legacy /\ pc[p] = "wr" /\ next[p] <= Len(val[p])
    /\ \/ val[p][next[p]] = Void /\ Pass(p) /\ UNCHANGED <<at, cut>>
       \/ val[p][next[p]] # Void /\ (NotOpen(p) \/ TakeFile(p))
    /\ UNCHANGED <<writeRest, pumpVars, torn, ended>>

\* write_one() throws for a VoidValue.
WriteOne(p) ==
    /\ ~legacy /\ pc[p] = "wr" /\ next[p] <= Len(val[p])
    /\ \/ val[p][next[p]] = Void /\ Enter(p, NoTerminal, "thrown") /\ UNCHANGED <<at, cut>>
       \/ val[p][next[p]] # Void /\ (NotOpen(p) \/ TakeFile(p))
    /\ UNCHANGED <<writeRest, pumpVars, torn, ended>>

\* In v0 there is no VoidValue, and WriteLink swallows what do_write() throws.
LegacyWriteOne(p) ==
    /\ legacy /\ pc[p] = "wr" /\ next[p] <= Len(val[p])
    /\ NotOpen(p) \/ TakeFile(p)
    /\ UNCHANGED <<writeRest, pumpVars, torn, ended>>

\* The last line once more: because the FILE it came from had not moved past
\* it, or because the pump's ReadStream kept it when the node was not open.
MayRepeat(p, l) == p \in again /\ handed[p] # <<>> /\ handed[p][Len(handed[p])] = l

WritePrint(p) ==
    LET l == val[p][next[p]] IN
    /\ pc[p] = "wr_print"
    /\ Fprintf(p)
    /\ handed' = IF MayRepeat(p, l) THEN handed ELSE [handed EXCEPT ![p] = Append(@, l)]
    /\ next' = [next EXCEPT ![p] = @ + 1]
    /\ Enter(p, NoTerminal, "wr")
    /\ Forget(p)
    /\ UNCHANGED <<writeRest, val, again, cut>>

-----------------------------------------------------------------------------
(* Who fills the container: a looper or a watch thread, external here.      *)

boxRest == <<terminalVars, job, pumpVars, rdpos>>
Produce ==
    /\ \E p \in Pumps : job.kind[p] = "container"
    /\ ~closed /\ added < MaxLines
    /\ added' = added + 1
    /\ queue' = Append(queue, <<0, added + 1>>)
    /\ UNCHANGED <<boxRest, closed>>

CloseContainer ==
    /\ \E p \in Pumps : job.kind[p] = "container"
    /\ closed' = TRUE
    /\ UNCHANGED <<boxRest, queue, added>>

-----------------------------------------------------------------------------
Control(c, t) ==
    /\ \E p \in Pumps : job.kind[p] # "none" /\ t \in {job.from[p], job.to[p]}
    /\ OpenBegin(c, t) \/ CloseBegin(c, t) \/ Construct(c, t) \/ Drop(c, t)
Step(x) ==
    \/ /\ \/ OpenFork(x, job.fails) \/ OpenFopen(x, job.fails)
          \/ ConstructFork(x, job.fails) \/ ConstructFopen(x, job.fails)
          \/ HaltLock(x) \/ HaltClose(x) \/ HaltNull(x)
       /\ UNCHANGED <<job, pumpVars, boxVars>>
    \/ pc[x] = "ha_kill" /\ HaltReturn(x)
PumpStep(p) ==
    \/ StringUpdate(p) \/ StreamUpdate(p) \/ ReadCheck(p) \/ ReadGets(p)
    \/ UpdateCheck(p) \/ UpdateGets(p) \/ FileUpdate(p)
    \/ ContainerCheck(p) \/ ContainerRemove(p)
    \/ PassEnd(p) \/ WriteOne(p) \/ LegacyWriteOne(p) \/ WritePrint(p)

Next ==
    /\ ended = "no"
    /\ \/ \E c \in job.control, t \in Terminals :
            Control(c, t) /\ UNCHANGED <<job, pumpVars, boxVars>>
       \/ \E x \in Threads : Step(x)
       \/ \E p \in Pumps : Start(p) \/ LegacyStart(p) \/ PumpStep(p)
       \/ \E s \in Sessions : (Type(s, job.lines) \/ Leave(s)) /\ UNCHANGED <<job, pumpVars, boxVars>>
       \/ Produce \/ CloseContainer

Spec == Init /\ [][Next]_vars

\* A thread that can run does run.  Nobody has to open, close, type or leave.
Fairness ==
    /\ \A x \in Threads : WF_vars(Step(x) /\ ended = "no")
    /\ \A p \in Pumps : WF_vars(PumpStep(p) /\ ended = "no")

FairSpec == Spec /\ Fairness
-----------------------------------------------------------------------------
(* Properties                                                               *)

\* A terminal whose fopen() failed has an xterm but no FILE.  open() takes it
\* for closed, and its fork() leaves nobody who knows of the xterm.
Forgotten(s) ==
    /\ ~legacy /\ s \in unopened
    /\ xterm_pid[term[s]] = ForkFailed \/ \E r \in Made : r > s /\ term[r] = term[s]

\* Unless an open met another open or a halt of the same terminal, nothing of
\* a session outlives it: a FILE that is open is the terminal's _fh, and an
\* xterm that runs its _xterm_pid, or one that has been forgotten.  close() and
\* the end of file find all the others.
NoOrphan ==
    \A s \in Made : term[s] \notin crossed =>
        /\ s \in files => fh[term[s]] = s
        /\ s \in alive /\ ~Forgotten(s) => xterm_pid[term[s]] = s

\* Messages to terminals, one after the other, never use a FILE that is closed,
\* whatever fails in open() and whoever halts first.  Only a halt that meets
\* an open, a halt (of v0) or a reader or writer does.
Unharmed == ended = "memory" => crossed \cup cut # {}

\* What the pump has written is each session's lines from the first on, one by
\* one: every line comes after those before it, and none of them is missing.
First(p) == IF job.kind[p] = "file" THEN 0 ELSE 1
Ordered(p) ==
    \A i \in DOMAIN handed[p] :
        LET l == handed[p][i] IN
        /\ First(p) <= l[2]
        /\ \A k \in 1..(i - 1) : handed[p][k][1] = l[1] => handed[p][k][2] < l[2]
        /\ \A n \in First(p)..(l[2] - 1) : \E k \in 1..(i - 1) : handed[p][k] = <<l[1], n>>

\* What a pump writes of a session, a container or a file is what was typed
\* or added there, in order, with nothing left out.  Nothing is written twice
\* but, at once, a line that a FILE torn between a reader and a writer has not
\* moved past, and what a ReadStream holds while its node is not open.
InOrder == \A p \in Pumps : Ordered(p)

\* A pump that ends because its source is exhausted has written all of it:
\* every item a container ever got, the URL and every line of a file.
Complete ==
    \A p \in Pumps : pc[p] = "done" =>
        /\ job.kind[p] = "container" => Len(handed[p]) = added
        /\ job.kind[p] = "file" => Len(handed[p]) = MaxLines + 1

\* "Closing the terminals will also end the threads they are running in"
\* (examples/xterm-bridge.scm).  So does closing a container, and the end of a
\* file.  (Once nobody sends close any more: a mutex is not fair.)
SourceGone(p) ==
    /\ ended = "no" /\ crossed = {} /\ \A c \in Controllers : pc[c] = "idle"
    /\ job.kind[p] = "container" => closed
    /\ OnTerminal(p) => fh[job.from[p]] = NoFile /\ fh[job.to[p]] = NoFile
PumpsEnd == \A p \in Pumps : <>[]SourceGone(p) => <>[]~Active(p)
=============================================================================
