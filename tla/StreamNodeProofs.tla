-------------------------- MODULE StreamNodeProofs --------------------------
(* What holds of TerminalNode and StreamNode for every choice of their       *)
(* constants, that is for every set of terminals, threads and programs.      *)
EXTENDS StreamNode, FiniteSetTheorems, SequenceTheorems, TLAPS

\* The bounds are natural numbers.
LEMMA Bounds == MaxSessions \in Nat /\ MaxLines \in Nat /\ MaxRepeats \in Nat
  BY TerminalBounds

-----------------------------------------------------------------------------
(* Steps, by who makes them.                                                *)

programVars == <<job, pumpVars, boxVars>>

\* open(), close() and the rest of them, which leave the pumps alone.
Begins(c, t) == OpenBegin(c, t) \/ CloseBegin(c, t) \/ Construct(c, t) \/ Drop(c, t)
Opens(x) ==
    \/ OpenFork(x, job.fails) \/ OpenFopen(x, job.fails)
    \/ ConstructFork(x, job.fails) \/ ConstructFopen(x, job.fails)
Halts(x) == HaltLock(x) \/ HaltClose(x) \/ HaltNull(x)
Uses(s) == Type(s, job.lines) \/ Leave(s)

\* Every step is one of a controller, of open() or halt(), of a pump, of a user
\* or of those who fill a container.
LEMMA Movers ==
    ASSUME TypeOK, Next
    PROVE  \/ \E c \in Controllers, t \in Terminals : Begins(c, t) /\ UNCHANGED programVars
           \/ \E x \in Threads : Opens(x) /\ UNCHANGED programVars
           \/ \E x \in Threads : Halts(x) /\ UNCHANGED programVars
           \/ \E x \in Threads : HaltReturn(x)
           \/ \E p \in Pumps : Start(p) \/ LegacyStart(p)
           \/ \E p \in Pumps : PumpStep(p)
           \/ \E s \in Sessions : Uses(s) /\ UNCHANGED programVars
           \/ Produce
           \/ CloseContainer
  <1>1. job.control \subseteq Controllers
    BY JobAssumption DEF TypeOK, PumpType
  <1> QED
    BY <1>1 DEF Next, Control, Step, Begins, Opens, Halts, Uses, programVars

\* The program of a behaviour has its type.
LEMMA JobType ==
    ASSUME TypeOK, NEW p \in Pumps
    PROVE  /\ job.kind[p] \in Kinds
           /\ job.from[p] \in Terminals /\ job.to[p] \in Terminals
           /\ job.lines \in Nat /\ job.fails \in BOOLEAN
  BY JobAssumption DEF TypeOK, PumpType

-----------------------------------------------------------------------------
(* Types.                                                                   *)
Labels == PumpPc \cup ChangePc \cup {"ha_lock"}

\* A thread that goes on without a new value keeps the pumps' types.
LEMMA MoveType ==
    ASSUME PumpType, NEW x \in Threads, NEW l \in Labels \ {"wr_print"}, Goto(x, l),
           UNCHANGED <<job, legacy, val, next, handed>>, again' \subseteq Pumps
    PROVE  PumpType'
  BY DEF PumpType, Goto, Labels, Threads

\* So does a pump that gets new values.
LEMMA GotType ==
    ASSUME PumpType, NEW p \in Pumps, NEW vals \in Seq(Lines \cup {Void}),
           legacy => vals \in Seq(Lines), Got(p, vals), UNCHANGED <<job, legacy, handed>>,
           again' \subseteq Pumps
    PROVE  PumpType'
  <1>1. pc' = [pc EXCEPT ![p] = "wr"] /\ val' = [val EXCEPT ![p] = vals] /\ next' = [next EXCEPT ![p] = 1]
    BY DEF Got, Enter, Goto
  <1>2. p \in Threads /\ "wr" \in PumpPc
    BY DEF Threads, PumpPc
  <1>3. pc' \in [Threads -> PumpPc \cup ChangePc \cup {"ha_lock"}]
    BY <1>1, <1>2 DEF PumpType
  <1>4. val' \in [Pumps -> Seq(Lines \cup {Void})] /\ next' \in [Pumps -> Nat \ {0}]
    BY <1>1 DEF PumpType
  <1>5. legacy' => val' \in [Pumps -> Seq(Lines)]
    BY <1>1 DEF PumpType
  <1>6. \A q \in Pumps : next'[q] <= Len(val'[q]) + 1
    <2>1. Len(vals) \in Nat
      OBVIOUS
    <2> QED
      BY <1>1, <2>1 DEF PumpType
  <1>7. ASSUME NEW q \in Pumps, pc'[q] = "wr_print"
        PROVE  next'[q] <= Len(val'[q]) /\ val'[q][next'[q]] \in Lines
    <2>1. q # p /\ q \in Threads
      BY <1>1, <1>2, <1>7 DEF PumpType, Threads
    <2> QED
      BY <1>1, <1>7, <2>1 DEF PumpType
  <1> QED
    BY <1>3, <1>4, <1>5, <1>6, <1>7 DEF PumpType

\* What the stream of a terminal holds after a read.
LEMMA DeliveredType ==
    ASSUME NEW p \in Pumps, NEW l \in Lines \cup {Void}
    PROVE  /\ Delivered(p, l) \in Seq(Lines \cup {Void})
           /\ legacy => Delivered(p, l) \in Seq(Lines)
  <1>1. <<>> \in Seq(Lines) /\ <<>> \in Seq(Lines \cup {Void}) /\ <<l>> \in Seq(Lines \cup {Void})
    OBVIOUS
  <1>2. CASE l = Void
    BY <1>1, <1>2 DEF Delivered
  <1>3. CASE l # Void
    <2>1. <<l>> \in Seq(Lines)
      BY <1>3
    <2> QED
      BY <1>1, <1>3, <2>1 DEF Delivered
  <1> QED
    BY <1>2, <1>3

-----------------------------------------------------------------------------
(* What the pumps do to the terminals: a pump goes on without a FILE, takes *)
(* the FILE of a terminal, or, of v0, begins to halt one.                   *)
Moved(x, l, t, v) ==
    /\ pc' = [pc EXCEPT ![x] = l]
    /\ on' = [on EXCEPT ![x] = t]
    /\ at' = [at EXCEPT ![x] = v]

Rests(p) ==
    /\ \E l \in (PumpPc \cup {"ha_lock"}) \ FilePc, t \in Terminals \cup {NoTerminal}, v \in {at[p], NoFile} :
         Moved(p, l, t, v) /\ (l \in WorkPc => t \in Terminals)
    /\ UNCHANGED <<crossed, cut>>
Takes(p) ==
    /\ \E l \in {"rd_gets", "wr_print"}, t \in Terminals :
         /\ fh[t] # NoFile
         /\ Moved(p, l, t, fh[t])
         /\ cut' = cut \cup {u \in {t} : fh[u] \notin files}
    /\ pc[p] \notin FilePc
    /\ UNCHANGED crossed
Quits(p) ==
    /\ legacy /\ pc[p] = "rd_gets"
    /\ Moved(p, "ha_close", on[p], at[p])
    /\ Cross(p, on[p])
    /\ UNCHANGED cut

sameVars == <<legacy, nodeVars, sessionVars, typed, job>>
Effects(p) ==
    /\ UNCHANGED sameVars
    /\ pc[p] \in PumpPc
    /\ Rests(p) \/ Takes(p) \/ Quits(p)
    /\ ended' # ended => ended' = "memory" /\ pc[p] \in {"rd_gets", "wr_print"} /\ at[p] \notin files

\* The three ways on, as the actions name them.
LEMMA Ways ==
    ASSUME TypeOK, NEW p \in Pumps
    PROVE  /\ \A vals : Got(p, vals) => Moved(p, "wr", NoTerminal, NoFile)
           /\ \A l : Moves(p, l) => Moved(p, l, on[p], at[p])
           /\ \A l : Pick(p, l) => /\ Moved(p, l, on[p], fh[on[p]])
                                   /\ cut' = cut \cup {u \in {on[p]} : fh[u] \notin files}
           /\ \A l, t : Enter(p, t, l) /\ UNCHANGED at => Moved(p, l, t, at[p])
           /\ \A l, t : Enter(p, t, l) /\ Forget(p) => Moved(p, l, t, NoFile)
  <1>1. at = [at EXCEPT ![p] = at[p]]
    BY DEF TypeOK, TerminalType, ThreadType
  <1> QED
    BY <1>1 DEF Got, Moves, Pick, Enter, Goto, Forget, Moved

\* A thread that works on a terminal knows it.
LEMMA Working ==
    ASSUME TypeOK, NEW x \in Threads, pc[x] \in WorkPc
    PROVE  on[x] \in Terminals
  BY DEF TypeOK, TerminalType, ThreadType

\* Each step of a pump is one of these; only a use of a FILE that is closed can
\* end the program.
LEMMA PumpEffects ==
    ASSUME TypeOK, NEW p \in Pumps, Start(p) \/ LegacyStart(p) \/ PumpStep(p)
    PROVE  Effects(p)
  <1>0. /\ \A l : Moves(p, l) /\ UNCHANGED <<crossed, cut>> /\ l \in {"up", "co_remove", "rd_check", "ha_lock"}
                  /\ pc[p] \in WorkPc => Rests(p)
        /\ \A vals : Got(p, vals) /\ UNCHANGED <<crossed, cut>> => Rests(p)
        /\ Enter(p, NoTerminal, "thrown") /\ UNCHANGED <<at, crossed, cut>> => Rests(p)
        /\ Enter(p, NoTerminal, "done") /\ UNCHANGED <<at, crossed, cut>> => Rests(p)
        /\ Pass(p) /\ UNCHANGED <<at, crossed, cut>> => Rests(p)
    <2>1. p \in Threads /\ (pc[p] \in WorkPc => on[p] \in Terminals)
      BY Working DEF Threads
    <2> QED
      BY <2>1, Ways, JobType DEF Rests, Pass, PumpPc, FilePc, WorkPc, ChangePc, HaltPc
  <1>1. CASE Start(p)
    <2>1. UNCHANGED sameVars /\ UNCHANGED <<crossed, cut, ended>> /\ pc[p] \in PumpPc
      BY <1>1 DEF Start, Begin, lineVars, sessionVars, sameVars, PumpPc
    <2>2. Rests(p)
      BY <1>0, <1>1, <2>1 DEF Start, Begin, WorkPc
    <2> QED
      BY <2>1, <2>2 DEF Effects
  <1>2. CASE LegacyStart(p)
    <2>1. UNCHANGED sameVars /\ UNCHANGED <<crossed, cut, ended>> /\ pc[p] \in PumpPc
      BY <1>2 DEF LegacyStart, Begin, lineVars, sessionVars, sameVars, PumpPc
    <2>2. Rests(p)
      BY <1>0, <1>2, <2>1 DEF LegacyStart, Begin, WorkPc
    <2> QED
      BY <2>1, <2>2 DEF Effects
  <1>3. CASE StringUpdate(p)
    <2>1. UNCHANGED sameVars /\ UNCHANGED <<crossed, cut, ended>> /\ pc[p] \in PumpPc
      BY <1>3 DEF Receive, StringUpdate, sourceRest, writeRest, sessionVars, sameVars, PumpPc
    <2>2. Rests(p)
      BY <1>0, <1>3, <2>1 DEF Receive, StringUpdate, WorkPc
    <2> QED
      BY <2>1, <2>2 DEF Effects
  <1>4. CASE StreamUpdate(p)
    <2>1. UNCHANGED sameVars /\ UNCHANGED <<crossed, cut, ended>> /\ pc[p] \in PumpPc
      BY <1>4 DEF Receive, StreamUpdate, sourceRest, writeRest, sessionVars, sameVars, PumpPc
    <2>2. Rests(p)
      BY <1>0, <1>4, <2>1 DEF Receive, StreamUpdate, WorkPc
    <2> QED
      BY <2>1, <2>2 DEF Effects
  <1>5. CASE ReadCheck(p)
    <2>1. UNCHANGED sameVars /\ UNCHANGED <<crossed, ended>> /\ pc[p] \in {"up", "rd_check"}
      BY <1>5 DEF Receive, ReadCheck, sourceRest, sessionVars, sameVars
    <2>2. CASE Pick(p, "rd_gets") /\ fh[on[p]] # NoFile
      <3>1. on[p] \in Terminals
        BY <2>1, Working DEF Threads, WorkPc
      <3>2. Takes(p)
        BY <2>1, <2>2, <3>1, Ways DEF Takes, FilePc
      <3> QED
        BY <2>1, <3>2 DEF Effects, PumpPc
    <2>3. CASE (\E vals : Got(p, vals)) /\ UNCHANGED cut
      BY <1>0, <2>1, <2>3 DEF Effects, PumpPc
    <2> QED
      BY <1>5, <2>2, <2>3 DEF Receive, ReadCheck
  <1>6. CASE ReadGets(p)
    <2>1. UNCHANGED sameVars /\ UNCHANGED <<crossed, cut>> /\ pc[p] = "rd_gets"
      BY <1>6 DEF Receive, ReadGets, sourceRest, sessionVars, sameVars
    <2>2. ended' # ended => ended' = "memory" /\ at[p] \notin files
      BY <1>6 DEF Receive, ReadGets, GetsLine, GetsEnd, Undefined
    <2>3. Rests(p)
      BY <1>0, <1>6, <2>1 DEF Receive, ReadGets, WorkPc
    <2> QED
      BY <2>1, <2>2, <2>3 DEF Effects, PumpPc
  <1>7. CASE UpdateCheck(p)
    <2>1. UNCHANGED sameVars /\ UNCHANGED <<crossed, ended>> /\ pc[p] \in {"up", "rd_check"}
      BY <1>7 DEF Receive, UpdateCheck, sourceRest, sessionVars, sameVars
    <2>2. CASE Pick(p, "rd_gets") /\ fh[on[p]] # NoFile
      <3>1. on[p] \in Terminals
        BY <2>1, Working DEF Threads, WorkPc
      <3>2. Takes(p)
        BY <2>1, <2>2, <3>1, Ways DEF Takes, FilePc
      <3> QED
        BY <2>1, <3>2 DEF Effects, PumpPc
    <2>3. CASE (\E vals : Got(p, vals)) /\ UNCHANGED cut
      BY <1>0, <2>1, <2>3 DEF Effects, PumpPc
    <2> QED
      BY <1>7, <2>2, <2>3 DEF Receive, UpdateCheck
  <1>8. CASE UpdateGets(p)
    <2>1. UNCHANGED sameVars /\ UNCHANGED cut /\ pc[p] = "rd_gets" /\ legacy
      BY <1>8 DEF Receive, UpdateGets, sessionVars, sameVars
    <2>2. ended' # ended => ended' = "memory" /\ at[p] \notin files
      BY <1>8 DEF Receive, UpdateGets, GetsLine, GetsEnd, Undefined
    <2>3. CASE (\E vals : Got(p, vals)) /\ UNCHANGED crossed
      BY <1>0, <2>1, <2>2, <2>3 DEF Effects, PumpPc
    <2>4. CASE Moves(p, "ha_close") /\ Cross(p, on[p])
      <3>1. Quits(p)
        BY <2>1, <2>4, Ways DEF Quits
      <3> QED
        BY <2>1, <2>2, <3>1 DEF Effects, PumpPc
    <2> QED
      BY <1>8, <2>3, <2>4 DEF Receive, UpdateGets
  <1>9. CASE FileUpdate(p)
    <2>1. UNCHANGED sameVars /\ UNCHANGED <<crossed, cut, ended>> /\ pc[p] \in PumpPc
      BY <1>9 DEF Receive, FileUpdate, sourceRest, writeRest, sessionVars, sameVars, PumpPc
    <2>2. Rests(p)
      BY <1>0, <1>9, <2>1 DEF Receive, FileUpdate, WorkPc
    <2> QED
      BY <2>1, <2>2 DEF Effects
  <1>10. CASE ContainerCheck(p)
    <2>1. UNCHANGED sameVars /\ UNCHANGED <<crossed, cut, ended>> /\ pc[p] \in PumpPc
      BY <1>10 DEF Receive, ContainerCheck, sourceRest, writeRest, sessionVars, sameVars, PumpPc
    <2>2. Rests(p)
      BY <1>0, <1>10, <2>1 DEF Receive, ContainerCheck, WorkPc
    <2> QED
      BY <2>1, <2>2 DEF Effects
  <1>11. CASE ContainerRemove(p)
    <2>1. UNCHANGED sameVars /\ UNCHANGED <<crossed, cut, ended>> /\ pc[p] \in PumpPc
      BY <1>11 DEF Receive, ContainerRemove, sourceRest, writeRest, sessionVars, sameVars, PumpPc
    <2>2. Rests(p)
      BY <1>0, <1>11, <2>1 DEF Receive, ContainerRemove, WorkPc
    <2> QED
      BY <2>1, <2>2 DEF Effects
  <1>12. CASE PassEnd(p)
    <2>1. UNCHANGED sameVars /\ UNCHANGED <<crossed, cut, ended>> /\ pc[p] \in PumpPc
      BY <1>12 DEF PassEnd, sourceRest, writeRest, sessionVars, sameVars, PumpPc
    <2>2. Rests(p)
      BY <1>0, <1>12, <2>1 DEF PassEnd, WorkPc
    <2> QED
      BY <2>1, <2>2 DEF Effects
  <1>13. CASE WriteOne(p)
    <2>1. UNCHANGED sameVars /\ UNCHANGED <<crossed, ended>> /\ pc[p] = "wr"
      BY <1>13 DEF WriteOne, writeRest, sessionVars, sameVars
    <2>2. CASE TakeFile(p)
      <3>1. Moved(p, "wr_print", job.to[p], fh[job.to[p]])
        BY <2>2 DEF TakeFile, Enter, Goto, Moved
      <3>2. Takes(p)
        BY <2>1, <2>2, <3>1, JobType DEF Takes, TakeFile, FilePc
      <3> QED
        BY <2>1, <3>2 DEF Effects, PumpPc
    <2>3. CASE Enter(p, NoTerminal, "thrown") /\ UNCHANGED <<at, cut>>
      BY <1>0, <2>1, <2>3 DEF Effects, PumpPc
    <2> QED
      BY <1>13, <2>2, <2>3 DEF WriteOne, NotOpen
  <1>14. CASE LegacyWriteOne(p)
    <2>1. UNCHANGED sameVars /\ UNCHANGED <<crossed, ended>> /\ pc[p] = "wr"
      BY <1>14 DEF LegacyWriteOne, writeRest, sessionVars, sameVars
    <2>2. CASE TakeFile(p)
      <3>1. Moved(p, "wr_print", job.to[p], fh[job.to[p]])
        BY <2>2 DEF TakeFile, Enter, Goto, Moved
      <3>2. Takes(p)
        BY <2>1, <2>2, <3>1, JobType DEF Takes, TakeFile, FilePc
      <3> QED
        BY <2>1, <3>2 DEF Effects, PumpPc
    <2>3. CASE Enter(p, NoTerminal, "thrown") /\ UNCHANGED <<at, cut>>
      BY <1>0, <2>1, <2>3 DEF Effects, PumpPc
    <2> QED
      BY <1>14, <2>2, <2>3 DEF LegacyWriteOne, NotOpen
  <1>15. CASE WritePrint(p)
    <2>1. UNCHANGED sameVars /\ UNCHANGED <<crossed, cut>> /\ pc[p] = "wr_print"
      BY <1>15 DEF WritePrint, writeRest, sessionVars, sameVars
    <2>2. ended' # ended => ended' = "memory" /\ at[p] \notin files
      BY <1>15 DEF WritePrint, Fprintf, Undefined
    <2>3. Moved(p, "wr", NoTerminal, NoFile)
      BY <1>15, Ways DEF WritePrint
    <2>4. Rests(p)
      BY <2>1, <2>3 DEF Rests, PumpPc, FilePc, WorkPc, ChangePc, HaltPc
    <2> QED
      BY <2>1, <2>2, <2>4 DEF Effects, PumpPc
  <1> QED
    BY <1>1, <1>2, <1>3, <1>4, <1>5, <1>6, <1>7, <1>8, <1>9, <1>10, <1>11, <1>12, <1>13, <1>14, <1>15 DEF PumpStep

-----------------------------------------------------------------------------
(* What open() and halt() do to them.                                       *)

\* Where each of these steps goes.
LEMMA Paths ==
    ASSUME TypeOK, NEW x \in Threads
    PROVE  /\ \A t : OpenBegin(x, t) => pc[x] = "idle" /\ Moved(x, "op_fork", t, at[x])
           /\ \A t : CloseBegin(x, t) => pc[x] = "idle" /\ Moved(x, "ha_lock", t, at[x])
           /\ \A t : Construct(x, t) => pc[x] = "idle" /\ Moved(x, "op_fork", t, at[x])
           /\ \A t : Drop(x, t) => pc[x] = "idle" /\ Moved(x, "ha_close", t, at[x])
           /\ HaltLock(x) => pc[x] = "ha_lock" /\ Moved(x, "ha_close", on[x], at[x])
           /\ HaltClose(x) => pc[x] = "ha_close" /\ Moved(x, "ha_null", on[x], at[x])
           /\ HaltNull(x) => pc[x] = "ha_null" /\ Moved(x, "ha_kill", on[x], at[x])
           /\ Opens(x) => pc[x] \in {"op_fork", "op_fopen"}
  <1>1. /\ at = [at EXCEPT ![x] = at[x]] /\ on = [on EXCEPT ![x] = on[x]]
    BY DEF TypeOK, TerminalType, ThreadType
  <1>2. /\ HaltLock(x) => pc[x] = "ha_lock" /\ Moved(x, "ha_close", on[x], at[x])
        /\ HaltClose(x) => pc[x] = "ha_close" /\ Moved(x, "ha_null", on[x], at[x])
        /\ HaltNull(x) => pc[x] = "ha_null" /\ Moved(x, "ha_kill", on[x], at[x])
    BY <1>1 DEF HaltLock, HaltClose, HaltNull, Goto, Moved
  <1>3. Opens(x) => pc[x] \in {"op_fork", "op_fopen"}
    BY DEF Opens, OpenFork, OpenFopen, ConstructFork, ConstructFopen
  <1> QED
    BY <1>1, <1>2, <1>3 DEF OpenBegin, CloseBegin, Construct, Drop, Enter, Goto, Moved

\* A fork that succeeds adds a session; nothing else changes which there are.
Forks(x) ==
    /\ Len(term) < MaxSessions
    /\ term' = Append(term, on[x])
    /\ alive' = alive \cup {Len(term) + 1}
    /\ xterm_pid' = [xterm_pid EXCEPT ![on[x]] = Len(term) + 1]
    /\ Moved(x, "op_fopen", on[x], Len(term) + 1)
    /\ UNCHANGED <<born, fh, files, unopened>>
ForkFails(x) ==
    /\ xterm_pid' \in {xterm_pid} \cup {[xterm_pid EXCEPT ![on[x]] = n] : n \in {IF legacy THEN NoPid ELSE ForkFailed}}
    /\ Moved(x, "idle", NoTerminal, at[x])
    /\ UNCHANGED <<born, fh, term, alive, files, unopened>>
Fopens(x) ==
    /\ \/ /\ at[x] \in alive
          /\ files' = files \cup {at[x]}
          /\ fh' = [fh EXCEPT ![on[x]] = at[x]]
          /\ UNCHANGED unopened
       \/ /\ fh' = [fh EXCEPT ![on[x]] = NoFile]
          /\ unopened' = unopened \cup {at[x]}
          /\ UNCHANGED files
    /\ born' \in {born, born \cup {on[x]}} /\ (legacy => born' = born \cup {on[x]})
    /\ Moved(x, "idle", NoTerminal, NoFile)
    /\ UNCHANGED <<xterm_pid, term, alive>>

\* A step of open() is fork() or fopen().
LEMMA OpenEffects ==
    ASSUME TypeOK, NEW x \in Threads, Opens(x)
    PROVE  /\ UNCHANGED <<legacy, mtx, lineVars, crossed, cut, ended>>
           /\ \/ pc[x] = "op_fork" /\ (Forks(x) \/ ForkFails(x))
              \/ pc[x] = "op_fopen" /\ Fopens(x)
  <1>0. at = [at EXCEPT ![x] = at[x]]
    BY DEF TypeOK, TerminalType, ThreadType
  <1>1. ASSUME NEW n \in {IF legacy THEN NoPid ELSE ForkFailed}, NEW b, Fork(x, n, b), UNCHANGED <<born, fh, files, unopened>>
        PROVE  Forks(x) \/ ForkFails(x)
    BY <1>0, <1>1 DEF Fork, Forks, ForkFails, Return, Enter, Goto, Moved
  <1>2. ASSUME NEW b, Fopen(x, b), born' \in {born, born \cup {on[x]}}, legacy => born' = born \cup {on[x]},
               UNCHANGED <<xterm_pid, term, alive>>
        PROVE  Fopens(x)
    BY <1>2 DEF Fopen, Fopens, Return, Enter, Goto, Forget, Moved
  <1>3. CASE OpenFork(x, job.fails)
    <2>1. ~legacy /\ Fork(x, ForkFailed, job.fails) /\ pc[x] = "op_fork"
          /\ UNCHANGED <<legacy, born, fh, mtx, lineVars, files, unopened, crossed, cut, ended>>
      BY <1>3 DEF OpenFork
    <2> QED
      BY <1>1, <2>1
  <1>4. CASE ConstructFork(x, job.fails)
    <2>1. legacy /\ Fork(x, NoPid, job.fails) /\ pc[x] = "op_fork"
          /\ UNCHANGED <<legacy, born, fh, mtx, lineVars, files, unopened, crossed, cut, ended>>
      BY <1>4 DEF ConstructFork
    <2> QED
      BY <1>1, <2>1
  <1>5. CASE OpenFopen(x, job.fails) \/ ConstructFopen(x, job.fails)
    <2>1. Fopen(x, job.fails) /\ pc[x] = "op_fopen"
          /\ UNCHANGED <<legacy, xterm_pid, mtx, lineVars, term, alive, crossed, cut, ended>>
          /\ born' \in {born, born \cup {on[x]}} /\ (legacy => born' = born \cup {on[x]})
      BY <1>5 DEF OpenFopen, ConstructFopen
    <2> QED
      BY <1>2, <2>1
  <1> QED
    BY <1>3, <1>4, <1>5 DEF Opens

\* The end of halt(): for whoever called it, its terminal is free.
LEMMA ReturnEffects ==
    ASSUME TypeOK, NEW x \in Threads, HaltReturn(x)
    PROVE  /\ pc[x] = "ha_kill" /\ Kill(x)
           /\ UNCHANGED <<legacy, born, fh, lineVars, term, files, unopened, crossed, cut, ended, job, boxVars, handed>>
           /\ \/ x \in Controllers /\ Moved(x, "idle", NoTerminal, at[x]) /\ UNCHANGED <<val, next, again>>
              \/ /\ x \in Pumps /\ Moved(x, "wr", NoTerminal, NoFile)
                 /\ Receive(x, Delivered(x, Void), FALSE) /\ Got(x, Delivered(x, Void))
  <1>1. at = [at EXCEPT ![x] = at[x]]
    BY DEF TypeOK, TerminalType, ThreadType
  <1> QED
    BY <1>1, Ways DEF Receive, HaltReturn, Kill, Return, Enter, Goto, Moved

LEMMA ReturnMoves ==
    ASSUME TypeOK, NEW x \in Threads, HaltReturn(x)
    PROVE  \E l, v : l \in {"idle", "wr"} /\ Moved(x, l, NoTerminal, v)
  <1>1. ASSUME Moved(x, "idle", NoTerminal, at[x]) PROVE \E l, v : l \in {"idle", "wr"} /\ Moved(x, l, NoTerminal, v)
    BY <1>1
  <1>2. ASSUME Moved(x, "wr", NoTerminal, NoFile) PROVE \E l, v : l \in {"idle", "wr"} /\ Moved(x, l, NoTerminal, v)
    BY <1>2
  <1> QED
    BY <1>1, <1>2, ReturnEffects

-----------------------------------------------------------------------------
(* TypeOK is inductive.                                                     *)

\* Where a thread goes, if the sessions it may be on are there.
LEMMA MovedThread ==
    ASSUME TypeOK, NEW x \in Threads, NEW l \in Labels, NEW t \in Terminals \cup {NoTerminal},
           NEW v \in {NoFile} \cup Made', Moved(x, l, t, v), Made \subseteq Made',
           l \in WorkPc => t \in Terminals, l \in FilePc => v \in Made'
    PROVE  ThreadType'
  <1>1. on' \in [Threads -> Terminals \cup {NoTerminal}] /\ at' \in [Threads -> {NoFile} \cup Made']
    BY DEF TypeOK, TerminalType, ThreadType, Moved
  <1>2. pc'[x] = l /\ on'[x] = t /\ at'[x] = v
    BY DEF TypeOK, TerminalType, ThreadType, PumpType, Moved
  <1>3. \A y \in Threads \ {x} : pc'[y] = pc[y] /\ on'[y] = on[y] /\ at'[y] = at[y]
    BY DEF TypeOK, TerminalType, ThreadType, PumpType, Moved
  <1> QED
    BY <1>1, <1>2, <1>3 DEF ThreadType, TypeOK, TerminalType

\* A thread outside halt() holds no lock, and keeps its place from mattering.
LEMMA MovedHolder ==
    ASSUME TypeOK, NEW x \in Threads, NEW l, NEW t, NEW v, Moved(x, l, t, v), mtx' = mtx,
           pc[x] \notin HaltPc \/ (l \in HaltPc /\ t = on[x])
    PROVE  \A u \in Terminals : mtx'[u] # Free => pc'[mtx'[u]] \in HaltPc /\ on'[mtx'[u]] = u
  <1>1. SUFFICES ASSUME NEW u \in Terminals, mtx[u] # Free
                 PROVE  pc'[mtx[u]] \in HaltPc /\ on'[mtx[u]] = u
    OBVIOUS
  <1>2. mtx[u] \in Threads /\ pc[mtx[u]] \in HaltPc /\ on[mtx[u]] = u
    BY <1>1 DEF TypeOK, TerminalType, NodeType
  <1>3. CASE mtx[u] = x
    BY <1>2, <1>3 DEF Moved, TypeOK, TerminalType, ThreadType, PumpType
  <1>4. CASE mtx[u] # x
    BY <1>2, <1>4 DEF Moved, TypeOK, TerminalType, ThreadType, PumpType
  <1> QED
    BY <1>3, <1>4

\* TypeOK is preserved when a thread begins to open or close,
LEMMA BeginType ==
    ASSUME TypeOK, NEW c \in Controllers, NEW t \in Terminals, Begins(c, t), UNCHANGED programVars
    PROVE  TypeOK'
  <1>0. c \in Threads
    BY DEF Threads
  <1>1. PICK l \in {"op_fork", "ha_lock", "ha_close"} : pc[c] = "idle" /\ Moved(c, l, t, at[c])
    BY <1>0, Paths DEF Begins
  <1>2. /\ UNCHANGED <<legacy, xterm_pid, mtx, lineVars, sessionVars, cut, ended>>
        /\ fh' \in {fh, [fh EXCEPT ![t] = NoFile]} /\ born' \in {born, born \ {t}}
        /\ crossed' = crossed \/ Cross(c, t)
    BY DEF Begins, OpenBegin, CloseBegin, Construct, Drop, nodeVars
  <1>3. Made' = Made /\ at[c] \in {NoFile} \cup Made
    BY <1>0, <1>2 DEF Made, sessionVars, TypeOK, TerminalType, ThreadType
  <1>4. ThreadType'
    BY <1>0, <1>1, <1>3, MovedThread DEF Labels, ChangePc, HaltPc, FilePc
  <1>5. \A u \in Terminals : mtx'[u] # Free => pc'[mtx'[u]] \in HaltPc /\ on'[mtx'[u]] = u
    BY <1>0, <1>1, <1>2, MovedHolder DEF HaltPc
  <1>6. NodeType'
    BY <1>2, <1>3, <1>5 DEF NodeType, TypeOK, TerminalType
  <1>7. SessionType'
    BY <1>2, <1>3 DEF SessionType, TypeOK, TerminalType, sessionVars, lineVars, Cross
  <1>8. PumpType'
    <2>1. Goto(c, l) /\ UNCHANGED <<job, legacy, val, next, again, handed>>
      BY <1>1, <1>2 DEF Moved, Goto, programVars, pumpVars
    <2> QED
      BY <1>0, <2>1, MoveType DEF TypeOK, PumpType, Labels, ChangePc, HaltPc
  <1>9. BoxType'
    BY DEF programVars, boxVars, BoxType, TypeOK
  <1> QED
    BY <1>4, <1>6, <1>7, <1>8, <1>9 DEF TypeOK, TerminalType

\* inside open(),
LEMMA OpenType ==
    ASSUME TypeOK, NEW x \in Threads, Opens(x), UNCHANGED programVars
    PROVE  TypeOK'
  <1>0. /\ UNCHANGED <<legacy, mtx, lineVars, crossed, cut, ended>>
        /\ pc[x] \in {"op_fork", "op_fopen"} /\ on[x] \in Terminals
        /\ at[x] \in {NoFile} \cup Made
    BY OpenEffects, Working DEF WorkPc, ChangePc, TypeOK, TerminalType, ThreadType
  <1>1. ASSUME NEW l \in Labels \ {"wr_print"}, NEW t, NEW v, Moved(x, l, t, v) PROVE PumpType' /\ BoxType'
    <2>1. Goto(x, l) /\ UNCHANGED <<job, legacy, val, next, again, handed>>
      BY <1>0, <1>1 DEF Moved, Goto, programVars, pumpVars
    <2>2. PumpType'
      BY <2>1, MoveType DEF TypeOK, PumpType
    <2> QED
      BY <2>2 DEF programVars, boxVars, BoxType, TypeOK
  <1>2. ASSUME NEW l, NEW t, NEW v, Moved(x, l, t, v)
        PROVE  \A u \in Terminals : mtx'[u] # Free => pc'[mtx'[u]] \in HaltPc /\ on'[mtx'[u]] = u
    BY <1>0, <1>2, MovedHolder DEF HaltPc
  <1>3. CASE Forks(x)
    <2>1. /\ Made' = Made \cup {Len(term) + 1} /\ term' \in Seq(Terminals) /\ Made' \subseteq Sessions
          /\ Made = 1..Len(term) /\ Len(term) \in Nat
      <3>1. term \in Seq(Terminals) /\ on[x] \in Terminals /\ Len(term) < MaxSessions /\ term' = Append(term, on[x])
        BY <1>0, <1>3 DEF Forks, TypeOK, TerminalType, SessionType
      <3>2. Len(term) \in Nat /\ DOMAIN term = 1..Len(term) /\ term' \in Seq(Terminals) /\ DOMAIN term' = 1..(Len(term) + 1)
        BY <3>1
      <3> QED
        BY <3>1, <3>2, Bounds DEF Made, Sessions
    <2>2. Moved(x, "op_fopen", on[x], Len(term) + 1)
      BY <1>3 DEF Forks
    <2>3. ThreadType'
      BY <1>0, <2>1, <2>2, MovedThread DEF Labels, ChangePc
    <2>4. NodeType'
      <3>1. xterm_pid' \in [Terminals -> {ForkFailed, NoPid} \cup Made'] /\ fh' = fh /\ born' = born
        BY <1>3, <2>1 DEF Forks, TypeOK, TerminalType, NodeType
      <3>2. fh' \in [Terminals -> {NoFile} \cup Made']
        BY <3>1, <2>1 DEF TypeOK, TerminalType, NodeType
      <3> QED
        BY <1>0, <1>2, <2>2, <3>1, <3>2 DEF NodeType, TypeOK, TerminalType
    <2>5. SessionType'
      <3>1. {files', alive', torn', stuck', unopened'} \subseteq SUBSET Made'
        BY <1>0, <1>3, <2>1 DEF Forks, lineVars, SessionType, TypeOK, TerminalType
      <3> QED
        BY <1>0, <2>1, <3>1 DEF SessionType, TypeOK, TerminalType, lineVars
    <2>6. PumpType' /\ BoxType'
      BY <1>1, <2>2 DEF Labels, ChangePc
    <2> QED
      BY <2>3, <2>4, <2>5, <2>6 DEF TypeOK, TerminalType
  <1>4. CASE ForkFails(x) \/ (Fopens(x) /\ pc[x] = "op_fopen")
    <2>1. Made' = Made /\ term' = term
      BY <1>4 DEF ForkFails, Fopens, Made
    <2>2. PICK v \in {NoFile} \cup Made : Moved(x, "idle", NoTerminal, v)
      BY <1>0, <1>4 DEF ForkFails, Fopens
    <2>3. ThreadType'
      BY <2>1, <2>2, MovedThread DEF Labels, PumpPc, WorkPc, FilePc, ChangePc, HaltPc
    <2>4. pc[x] = "op_fopen" => at[x] \in Made
      BY DEF TypeOK, TerminalType, ThreadType, FilePc
    <2>5. NodeType'
      <3>1. /\ xterm_pid' \in [Terminals -> {ForkFailed, NoPid} \cup Made]
            /\ fh' \in [Terminals -> {NoFile} \cup Made]
            /\ born' \in SUBSET Terminals
        BY <1>0, <1>4, <2>4 DEF ForkFails, Fopens, TypeOK, TerminalType, NodeType
      <3> QED
        BY <1>0, <1>2, <2>1, <2>2, <3>1 DEF NodeType, TypeOK, TerminalType
    <2>6. SessionType'
      <3>1. {files', alive', torn', stuck', unopened'} \subseteq SUBSET Made
        BY <1>0, <1>4, <2>4 DEF ForkFails, Fopens, lineVars, SessionType, TypeOK, TerminalType
      <3> QED
        BY <1>0, <2>1, <3>1 DEF SessionType, TypeOK, TerminalType, lineVars
    <2>7. PumpType' /\ BoxType'
      BY <1>1, <2>2 DEF Labels, PumpPc
    <2> QED
      BY <2>3, <2>5, <2>6, <2>7 DEF TypeOK, TerminalType
  <1> QED
    BY <1>3, <1>4, OpenEffects

\* inside halt(),
LEMMA HaltType ==
    ASSUME TypeOK, NEW x \in Threads, Halts(x), UNCHANGED programVars
    PROVE  TypeOK'
  <1>1. PICK l \in HaltPc : Moved(x, l, on[x], at[x]) /\ pc[x] \in {"ha_lock"} \cup HaltPc
    BY Paths DEF Halts, HaltPc
  <1>2. on[x] \in Terminals
    BY <1>1, Working DEF WorkPc, ChangePc
  <1>3. /\ UNCHANGED <<legacy, born, xterm_pid, lineVars, term, alive, unopened>> /\ files' \in SUBSET files
        /\ fh' \in {fh, [fh EXCEPT ![on[x]] = NoFile]} /\ cut' \subseteq cut \cup {on[x]}
        /\ crossed' \subseteq crossed \cup {on[x]} /\ ended' \in {ended, "memory"}
    BY DEF Halts, HaltLock, HaltClose, HaltNull, Cross, Undefined, nodeVars, sessionVars
  <1>4. Made' = Made /\ at[x] \in {NoFile} \cup Made
    BY <1>3 DEF Made, TypeOK, TerminalType, ThreadType
  <1>5. ThreadType'
    BY <1>1, <1>2, <1>4, MovedThread DEF Labels, ChangePc, HaltPc, FilePc
  <1>6. \A u \in Terminals : mtx'[u] # Free => pc'[mtx'[u]] \in HaltPc /\ on'[mtx'[u]] = u
    <2>1. CASE mtx' = mtx
      BY <1>1, <2>1, MovedHolder DEF HaltPc
    <2>2. CASE HaltLock(x)
      <3>1. mtx' = [mtx EXCEPT ![on[x]] = x] /\ pc[x] = "ha_lock"
        BY <2>2 DEF HaltLock
      <3>2. pc'[x] \in HaltPc /\ on'[x] = on[x]
        BY <1>1 DEF Moved, TypeOK, TerminalType, ThreadType, PumpType
      <3>3. \A u \in Terminals : mtx[u] # Free => mtx[u] # x /\ mtx[u] \in Threads
        BY <3>1 DEF TypeOK, TerminalType, NodeType, HaltPc
      <3>4. \A y \in Threads \ {x} : pc'[y] = pc[y] /\ on'[y] = on[y]
        BY <1>1 DEF Moved, TypeOK, TerminalType, ThreadType, PumpType
      <3> QED
        BY <1>2, <3>1, <3>2, <3>3, <3>4 DEF TypeOK, TerminalType, NodeType
    <2> QED
      BY <2>1, <2>2 DEF Halts, HaltClose, HaltNull, nodeVars
  <1>7. NodeType'
    <2>1. mtx' \in [Terminals -> Threads \cup {Free}]
      BY DEF Halts, HaltLock, HaltClose, HaltNull, nodeVars, TypeOK, TerminalType, NodeType
    <2> QED
      BY <1>3, <1>4, <1>6, <2>1 DEF NodeType, TypeOK, TerminalType
  <1>8. SessionType'
    BY <1>2, <1>3, <1>4 DEF SessionType, TypeOK, TerminalType, lineVars
  <1>9. PumpType'
    <2>1. Goto(x, l) /\ UNCHANGED <<job, legacy, val, next, again, handed>>
      BY <1>1, <1>3 DEF Moved, Goto, programVars, pumpVars
    <2> QED
      BY <2>1, MoveType DEF TypeOK, PumpType, Labels, ChangePc, HaltPc
  <1>10. BoxType'
    BY DEF programVars, boxVars, BoxType, TypeOK
  <1> QED
    BY <1>5, <1>7, <1>8, <1>9, <1>10 DEF TypeOK, TerminalType

\* when halt() returns,
LEMMA ReturnType ==
    ASSUME TypeOK, NEW x \in Threads, HaltReturn(x)
    PROVE  TypeOK'
  <1>0. /\ pc[x] = "ha_kill" /\ on[x] \in Terminals
        /\ UNCHANGED <<legacy, born, fh, lineVars, term, files, unopened, crossed, cut, ended, job, boxVars, handed>>
    BY ReturnEffects, Working DEF WorkPc, ChangePc, HaltPc
  <1>1. PICK l \in {"idle", "wr"}, v \in {NoFile, at[x]} : Moved(x, l, NoTerminal, v)
    BY ReturnEffects
  <1>2. Made' = Made /\ v \in {NoFile} \cup Made
    BY <1>0, <1>1 DEF Made, TypeOK, TerminalType, ThreadType
  <1>3. ThreadType'
    BY <1>1, <1>2, MovedThread DEF Labels, PumpPc, WorkPc, FilePc, ChangePc, HaltPc
  <1>4. /\ xterm_pid' = [xterm_pid EXCEPT ![on[x]] = NoPid]
        /\ mtx' = [mtx EXCEPT ![on[x]] = IF @ = x THEN Free ELSE @]
        /\ alive' \in SUBSET alive
    BY ReturnEffects DEF Kill, Spared
  <1>5. NodeType'
    <2>1. ASSUME NEW u \in Terminals, mtx'[u] # Free PROVE pc'[mtx'[u]] \in HaltPc /\ on'[mtx'[u]] = u
      <3>1. mtx'[u] = mtx[u] /\ mtx[u] # x
        BY <1>0, <1>4, <2>1 DEF TypeOK, TerminalType, NodeType
      <3>2. mtx[u] \in Threads /\ pc'[mtx[u]] = pc[mtx[u]] /\ on'[mtx[u]] = on[mtx[u]]
        BY <1>1, <2>1, <3>1 DEF Moved, TypeOK, TerminalType, NodeType, ThreadType, PumpType
      <3> QED
        BY <2>1, <3>1, <3>2 DEF TypeOK, TerminalType, NodeType
    <2>2. mtx' \in [Terminals -> Threads \cup {Free}]
      BY <1>4 DEF TypeOK, TerminalType, NodeType
    <2> QED
      BY <1>0, <1>2, <1>4, <2>1, <2>2 DEF NodeType, TypeOK, TerminalType
  <1>6. SessionType'
    BY <1>0, <1>2, <1>4 DEF SessionType, TypeOK, TerminalType, lineVars
  <1>7. PumpType'
    <2>0. again' \subseteq Pumps
      BY ReturnEffects DEF Receive, TypeOK, PumpType
    <2>1. CASE x \in Controllers /\ UNCHANGED <<val, next>>
      <3>1. Goto(x, l)
        BY <1>1 DEF Moved, Goto
      <3> QED
        BY <1>0, <2>0, <2>1, <3>1, MoveType DEF TypeOK, Labels, PumpPc
    <2>2. CASE x \in Pumps /\ Got(x, Delivered(x, Void))
      BY <1>0, <2>0, <2>2, GotType, DeliveredType DEF TypeOK
    <2> QED
      BY <2>1, <2>2, ReturnEffects
  <1>8. BoxType'
    BY <1>0 DEF boxVars, BoxType, TypeOK
  <1> QED
    BY <1>3, <1>5, <1>6, <1>7, <1>8 DEF TypeOK, TerminalType

\* What a read of a line, the end of a FILE and a write do to the lines.
LEMMA LineType ==
    ASSUME TypeOK, NEW p \in Pumps, Start(p) \/ LegacyStart(p) \/ PumpStep(p)
    PROVE  /\ {typed', taken'} \subseteq [Sessions -> 0..MaxLines]
           /\ repeats' \in [Sessions -> 0..MaxRepeats]
           /\ torn' \in SUBSET Made /\ stuck' \in SUBSET Made
  <1>0. p \in Threads /\ (pc[p] \in FilePc => at[p] \in Made)
    BY DEF TypeOK, TerminalType, ThreadType, Threads
  <1>1. typed' = typed
    BY PumpEffects DEF Effects, sameVars
  <1>2. CASE UNCHANGED <<taken, torn, repeats, stuck>>
    BY <1>1, <1>2 DEF SessionType, TypeOK, TerminalType
  <1>3. ASSUME NEW l, GetsLine(p, l), pc[p] = "rd_gets"
        PROVE  taken' \in [Sessions -> 0..MaxLines] /\ repeats' \in [Sessions -> 0..MaxRepeats]
               /\ torn' \in SUBSET Made /\ stuck' \in SUBSET Made
    <2>1. at[p] \in Sessions /\ taken[at[p]] \in 0..MaxLines /\ typed[at[p]] \in 0..MaxLines /\ repeats[at[p]] \in 0..MaxRepeats
      BY <1>0, <1>3 DEF FilePc, SessionType, TypeOK, TerminalType
    <2>2. taken[at[p]] < typed[at[p]]
      BY <1>3 DEF GetsLine
    <2>3. taken' \in [Sessions -> 0..MaxLines]
      <3>1. taken[at[p]] + 1 \in 0..MaxLines
        BY <2>1, <2>2, Bounds
      <3>2. taken' = [taken EXCEPT ![at[p]] = taken[at[p]] + 1] \/ taken' = taken
        BY <1>3 DEF GetsLine
      <3>3. taken \in [Sessions -> 0..MaxLines]
        BY DEF SessionType, TypeOK, TerminalType
      <3> QED
        BY <3>1, <3>2, <3>3
    <2>4. repeats' \in [Sessions -> 0..MaxRepeats]
      <3>1. repeats[at[p]] < MaxRepeats => repeats[at[p]] + 1 \in 0..MaxRepeats
        BY <2>1, Bounds
      <3>2. repeats' = repeats \/ (repeats[at[p]] < MaxRepeats /\ repeats' = [repeats EXCEPT ![at[p]] = repeats[at[p]] + 1])
        BY <1>3 DEF GetsLine
      <3>3. repeats \in [Sessions -> 0..MaxRepeats]
        BY DEF SessionType, TypeOK, TerminalType
      <3> QED
        BY <3>1, <3>2, <3>3
    <2> QED
      BY <1>0, <1>3, <2>3, <2>4 DEF GetsLine, FilePc, SessionType, TypeOK, TerminalType
  <1>4. CASE GetsEnd(p)
    BY <1>1, <1>4 DEF GetsEnd, SessionType, TypeOK, TerminalType
  <1>5. CASE WritePrint(p)
    BY <1>0, <1>1, <1>5 DEF WritePrint, Fprintf, writeRest, FilePc, SessionType, TypeOK, TerminalType
  <1>6. UNCHANGED <<taken, torn, repeats, stuck>> \/ WritePrint(p) \/ ReadGets(p) \/ UpdateGets(p)
    BY DEF Receive, PumpStep, Start, LegacyStart, Begin, StringUpdate, StreamUpdate, ReadCheck, UpdateCheck, FileUpdate,
           ContainerCheck, ContainerRemove, PassEnd, WriteOne, LegacyWriteOne, lineVars, writeRest
  <1>7. CASE ReadGets(p) \/ UpdateGets(p)
    <2>1. pc[p] = "rd_gets" /\ ((\E l \in Lines : GetsLine(p, l)) \/ GetsEnd(p))
      BY <1>7 DEF Receive, ReadGets, UpdateGets
    <2>2. {typed'} \subseteq [Sessions -> 0..MaxLines]
      BY <1>1 DEF SessionType, TypeOK, TerminalType
    <2> QED
      BY <1>3, <1>4, <2>1, <2>2
  <1> QED
    BY <1>2, <1>5, <1>6, <1>7

\* The terminals' part of what a pump does.
LEMMA PumpTerminalType ==
    ASSUME TypeOK, NEW p \in Pumps, Start(p) \/ LegacyStart(p) \/ PumpStep(p)
    PROVE  TerminalType'
  <1>0. p \in Threads /\ (pc[p] \in WorkPc => on[p] \in Terminals)
    BY Working DEF Threads
  <1>1. Effects(p)
    BY PumpEffects
  <1>2. Made' = Made
    BY <1>1 DEF Effects, sameVars, sessionVars, Made
  <1>3. PICK l \in Labels, t \in Terminals \cup {NoTerminal}, v \in {NoFile} \cup Made :
          /\ Moved(p, l, t, v)
          /\ l \in WorkPc => t \in Terminals
          /\ l \in FilePc => v \in Made
    <2>1. at[p] \in {NoFile} \cup Made /\ \A u \in Terminals : fh[u] \in {NoFile} \cup Made
      BY <1>0 DEF TypeOK, TerminalType, NodeType, ThreadType
    <2>2. CASE Rests(p)
      BY <2>1, <2>2 DEF Rests, Labels
    <2>3. CASE Takes(p)
      BY <2>1, <2>3 DEF Takes, Labels, PumpPc
    <2>4. CASE Quits(p)
      BY <1>0, <2>1, <2>4 DEF Quits, Labels, ChangePc, HaltPc, WorkPc, FilePc
    <2> QED
      BY <1>1, <2>2, <2>3, <2>4 DEF Effects
  <1>4. ThreadType'
    BY <1>0, <1>2, <1>3, MovedThread
  <1>5. UNCHANGED <<legacy, born, fh, xterm_pid, mtx, term, files, alive, unopened>> /\ pc[p] \notin HaltPc
    BY <1>1 DEF Effects, sameVars, nodeVars, sessionVars, PumpPc, HaltPc
  <1>6. NodeType'
    <2>1. \A u \in Terminals : mtx'[u] # Free => pc'[mtx'[u]] \in HaltPc /\ on'[mtx'[u]] = u
      BY <1>0, <1>3, <1>5, MovedHolder
    <2> QED
      BY <1>2, <1>5, <2>1 DEF NodeType, TypeOK, TerminalType
  <1>7. SessionType'
    <2>1. crossed' \in SUBSET Terminals /\ cut' \in SUBSET Terminals
      BY <1>0, <1>1 DEF Effects, Rests, Takes, Quits, Cross, WorkPc, SessionType, TypeOK, TerminalType
    <2>2. ended' \in {"no", "memory"}
      BY <1>1 DEF Effects, SessionType, TypeOK, TerminalType
    <2>3. term' \in Seq(Terminals) /\ Made' \subseteq Sessions /\ {files', alive', unopened'} \subseteq SUBSET Made'
      BY <1>2, <1>5 DEF SessionType, TypeOK, TerminalType
    <2> QED
      BY <1>2, <2>1, <2>2, <2>3, LineType DEF SessionType
  <1> QED
    BY <1>4, <1>6, <1>7 DEF TerminalType

\* What a pump gets may be what it has held before; no other step tells.
LEMMA PumpAgain ==
    ASSUME NEW p \in Pumps, Start(p) \/ LegacyStart(p) \/ PumpStep(p)
    PROVE  again' = again \/ \E vals, old : Receive(p, vals, old)
  BY DEF PumpStep, Start, LegacyStart, Begin, StringUpdate, StreamUpdate, ReadCheck, ReadGets, UpdateCheck, UpdateGets,
         FileUpdate, ContainerCheck, ContainerRemove, PassEnd, WriteOne, LegacyWriteOne, WritePrint, Moves, pumpVars

\* The container and the file, and the pumps' own part.
LEMMA PumpOwnType ==
    ASSUME TypeOK, NEW p \in Pumps, Start(p) \/ LegacyStart(p) \/ PumpStep(p)
    PROVE  PumpType' /\ BoxType'
  <1>0. /\ p \in Threads /\ UNCHANGED <<job, legacy>> /\ PumpType /\ BoxType
        /\ val[p] \in Seq(Lines \cup {Void}) /\ (legacy => val[p] \in Seq(Lines))
    BY PumpEffects DEF Effects, sameVars, Threads, TypeOK, PumpType
  <1>a. again' \subseteq Pumps
    <2>1. again \subseteq Pumps
      BY <1>0 DEF PumpType
    <2> QED
      BY <2>1, PumpAgain DEF Receive
  <1>1. ASSUME NEW vals \in Seq(Lines \cup {Void}), legacy => vals \in Seq(Lines), Got(p, vals), UNCHANGED handed
        PROVE  PumpType'
    BY <1>0, <1>a, <1>1, GotType
  <1>2. ASSUME NEW l \in Labels \ {"wr_print"}, NEW t, Enter(p, t, l), UNCHANGED <<val, next, handed>>
        PROVE  PumpType'
    BY <1>0, <1>a, <1>2, MoveType DEF Enter
  <1>3. ASSUME NEW l \in Labels \ {"wr_print"}, Moves(p, l), UNCHANGED handed
        PROVE  PumpType'
    BY <1>2, <1>3 DEF Moves
  <1>4. ASSUME UNCHANGED boxVars PROVE BoxType'
    BY <1>0, <1>4 DEF boxVars, BoxType
  <1>5. CASE Start(p) \/ LegacyStart(p)
    <2>1. Enter(p, job.from[p], "up") /\ UNCHANGED <<val, next, handed>> /\ UNCHANGED boxVars
      BY <1>5 DEF Start, LegacyStart, Begin, Pass, pumpVars
    <2> QED
      BY <1>2, <1>4, <2>1 DEF Labels, PumpPc
  <1>6. CASE StringUpdate(p) \/ StreamUpdate(p)
    <2>1. UNCHANGED <<handed, boxVars>> /\ (Got(p, <<>>) \/ Got(p, val[p]) \/ Moves(p, "rd_check"))
      BY <1>6 DEF Receive, StringUpdate, StreamUpdate, sourceRest
    <2>2. <<>> \in Seq(Lines \cup {Void}) /\ <<>> \in Seq(Lines)
      OBVIOUS
    <2> QED
      BY <1>0, <1>1, <1>3, <1>4, <2>1, <2>2 DEF Labels, PumpPc
  <1>7. CASE ReadCheck(p) \/ ReadGets(p) \/ UpdateCheck(p) \/ UpdateGets(p)
    <2>1. /\ UNCHANGED <<handed, boxVars>>
          /\ \/ \E l \in Lines \cup {Void} : Got(p, Delivered(p, l))
             \/ Got(p, <<>>)
             \/ Enter(p, on[p], "rd_gets") /\ UNCHANGED <<val, next>>
             \/ Moves(p, "ha_lock") \/ Moves(p, "ha_close")
      BY <1>7 DEF Receive, ReadCheck, ReadGets, UpdateCheck, UpdateGets, Pick, sourceRest
    <2>2. <<>> \in Seq(Lines \cup {Void}) /\ <<>> \in Seq(Lines)
      OBVIOUS
    <2> QED
      BY <1>0, <1>1, <1>2, <1>3, <1>4, <2>1, <2>2, DeliveredType DEF Labels, PumpPc, ChangePc, HaltPc
  <1>8. CASE FileUpdate(p)
    <2>1. /\ UNCHANGED <<handed, queue, added, closed>>
          /\ \/ rdpos < MaxLines /\ rdpos' = rdpos + 1 /\ Got(p, <<<<0, rdpos + 1>>>>)
             \/ Got(p, <<>>) /\ UNCHANGED rdpos
      BY <1>8 DEF Receive, FileUpdate, sourceRest
    <2>2. <<>> \in Seq(Lines \cup {Void}) /\ <<>> \in Seq(Lines)
      OBVIOUS
    <2>3. CASE rdpos < MaxLines /\ rdpos' = rdpos + 1 /\ Got(p, <<<<0, rdpos + 1>>>>)
      <3>1. <<0, rdpos + 1>> \in Lines /\ rdpos + 1 \in -1..MaxLines
        BY <1>0, <2>3, Bounds DEF BoxType, Lines
      <3>2. <<<<0, rdpos + 1>>>> \in Seq(Lines) /\ <<<<0, rdpos + 1>>>> \in Seq(Lines \cup {Void})
        BY <3>1
      <3>3. PumpType'
        BY <1>1, <2>1, <2>3, <3>2
      <3> QED
        BY <1>0, <2>1, <2>3, <3>1, <3>3 DEF BoxType
    <2>4. CASE Got(p, <<>>) /\ UNCHANGED rdpos
      <3>1. PumpType'
        BY <1>1, <2>1, <2>2, <2>4
      <3> QED
        BY <1>4, <2>1, <2>4, <3>1 DEF boxVars
    <2> QED
      BY <2>1, <2>3, <2>4
  <1>9. CASE ContainerCheck(p) \/ ContainerRemove(p)
    <2>1. /\ UNCHANGED <<handed, added, closed, rdpos>>
          /\ \/ Got(p, queue) /\ queue' = <<>>
             \/ queue # <<>> /\ Got(p, <<Head(queue)>>) /\ queue' = Tail(queue)
             \/ (Moves(p, "co_remove") \/ Moves(p, "up")) /\ UNCHANGED queue
             \/ Enter(p, NoTerminal, "thrown") /\ UNCHANGED <<val, next, queue>>
      BY <1>9 DEF Receive, ContainerCheck, ContainerRemove, sourceRest
    <2>2. queue \in Seq(Lines) /\ queue \in Seq(Lines \cup {Void})
      BY <1>0 DEF BoxType
    <2>3. queue # <<>> => /\ <<Head(queue)>> \in Seq(Lines) /\ <<Head(queue)>> \in Seq(Lines \cup {Void})
                          /\ Tail(queue) \in Seq(Lines)
      BY <2>2
    <2>4. PumpType'
      BY <1>0, <1>1, <1>2, <1>3, <2>1, <2>2, <2>3 DEF Labels, PumpPc
    <2>5. queue' \in Seq(Lines)
      <3>1. <<>> \in Seq(Lines)
        OBVIOUS
      <3> QED
        BY <2>1, <2>2, <2>3, <3>1
    <2> QED
      BY <1>0, <2>1, <2>4, <2>5 DEF BoxType
  <1>10. CASE PassEnd(p)
    <2>1. /\ UNCHANGED <<handed, boxVars>> /\ next' = [next EXCEPT ![p] = 1]
          /\ val' \in {val, [val EXCEPT ![p] = <<>>]}
          /\ \E l \in {"up", "done"} : pc' = [pc EXCEPT ![p] = l]
      BY <1>10 DEF PassEnd, Pass, Enter, Goto, writeRest
    <2>2. <<>> \in Seq(Lines) /\ <<>> \in Seq(Lines \cup {Void}) /\ Len(<<>>) = 0
      OBVIOUS
    <2>3. /\ pc' \in [Threads -> PumpPc \cup ChangePc \cup {"ha_lock"}] /\ pc'[p] # "wr_print"
          /\ \A q \in Pumps \ {p} : pc'[q] = pc[q]
      BY <1>0, <2>1 DEF PumpType, PumpPc, Threads
    <2>4. /\ val' \in [Pumps -> Seq(Lines \cup {Void})] /\ (legacy' => val' \in [Pumps -> Seq(Lines)])
          /\ next' \in [Pumps -> Nat \ {0}]
          /\ \A q \in Pumps \ {p} : val'[q] = val[q] /\ next'[q] = next[q]
          /\ next'[p] = 1
      <3>1. val \in [Pumps -> Seq(Lines \cup {Void})] /\ next \in [Pumps -> Nat \ {0}]
        BY <1>0 DEF PumpType
      <3>2. next' \in [Pumps -> Nat \ {0}] /\ next'[p] = 1 /\ \A q \in Pumps \ {p} : next'[q] = next[q]
        BY <2>1, <3>1
      <3>3. CASE val' = val
        BY <1>0, <3>1, <3>2, <3>3 DEF PumpType
      <3>4. CASE val' = [val EXCEPT ![p] = <<>>]
        <4>1. val' \in [Pumps -> Seq(Lines \cup {Void})] /\ \A q \in Pumps \ {p} : val'[q] = val[q]
          BY <2>2, <3>1, <3>4
        <4>2. legacy' => val' \in [Pumps -> Seq(Lines)]
          BY <1>0, <2>2, <3>4 DEF PumpType
        <4> QED
          BY <3>2, <4>1, <4>2
      <3> QED
        BY <2>1, <3>3, <3>4
    <2>5. next'[p] <= Len(val'[p]) + 1
      BY <2>4
    <2>6. PumpType'
      BY <1>0, <1>a, <2>1, <2>3, <2>4, <2>5 DEF PumpType
    <2> QED
      BY <1>4, <2>1, <2>6
  <1>11. CASE WriteOne(p) \/ LegacyWriteOne(p)
    <2>1. /\ UNCHANGED <<handed, val, next, boxVars>> /\ next[p] <= Len(val[p])
          /\ \/ Enter(p, NoTerminal, "thrown")
             \/ Goto(p, "wr_print") /\ (legacy \/ val[p][next[p]] # Void)
      BY <1>11 DEF WriteOne, LegacyWriteOne, NotOpen, TakeFile, Enter, writeRest, pumpVars
    <2>2. CASE Enter(p, NoTerminal, "thrown")
      BY <1>2, <1>4, <2>1, <2>2 DEF Labels, PumpPc
    <2>3. CASE Goto(p, "wr_print") /\ (legacy \/ val[p][next[p]] # Void)
      <3>1. next[p] \in 1..Len(val[p])
        BY <1>0, <2>1 DEF PumpType
      <3>2. val[p][next[p]] \in Lines
        BY <1>0, <2>3, <3>1
      <3>3. /\ pc' \in [Threads -> PumpPc \cup ChangePc \cup {"ha_lock"}]
            /\ \A q \in Pumps \ {p} : pc'[q] = pc[q]
        BY <1>0, <2>3 DEF Goto, PumpType, PumpPc, Threads
      <3>4. \A q \in Pumps : pc'[q] = "wr_print" => next'[q] <= Len(val'[q]) /\ val'[q][next'[q]] \in Lines
        BY <1>0, <2>1, <3>2, <3>3 DEF PumpType
      <3>5. PumpType'
        BY <1>0, <1>a, <2>1, <3>3, <3>4 DEF PumpType
      <3> QED
        BY <1>4, <2>1, <3>5
    <2> QED
      BY <2>1, <2>2, <2>3
  <1>12. CASE WritePrint(p)
    <2>1. /\ UNCHANGED <<val, boxVars>> /\ pc[p] = "wr_print" /\ pc' = [pc EXCEPT ![p] = "wr"]
          /\ next' = [next EXCEPT ![p] = next[p] + 1]
          /\ handed' \in {handed, [handed EXCEPT ![p] = Append(handed[p], val[p][next[p]])]}
      BY <1>0, <1>12 DEF WritePrint, Enter, Goto, writeRest, PumpType
    <2>2. next[p] <= Len(val[p]) /\ val[p][next[p]] \in Lines /\ next[p] \in Nat \ {0}
      BY <1>0, <2>1 DEF PumpType
    <2>3. /\ pc' \in [Threads -> PumpPc \cup ChangePc \cup {"ha_lock"}] /\ pc'[p] # "wr_print"
          /\ \A q \in Pumps \ {p} : pc'[q] = pc[q]
      BY <1>0, <2>1 DEF PumpType, PumpPc, Threads
    <2>4. /\ next' \in [Pumps -> Nat \ {0}] /\ next'[p] = next[p] + 1 /\ \A q \in Pumps \ {p} : next'[q] = next[q]
      BY <1>0, <2>1, <2>2 DEF PumpType
    <2>5. handed' \in [Pumps -> Seq(Lines)]
      <3>1. Append(handed[p], val[p][next[p]]) \in Seq(Lines)
        BY <1>0, <2>2 DEF PumpType
      <3> QED
        BY <1>0, <2>1, <3>1 DEF PumpType
    <2>6. \A q \in Pumps : next'[q] <= Len(val'[q]) + 1
      <3>1. Len(val[p]) \in Nat
        BY <1>0
      <3> QED
        BY <1>0, <2>1, <2>2, <2>4, <3>1 DEF PumpType
    <2>7. \A q \in Pumps : pc'[q] = "wr_print" => next'[q] <= Len(val'[q]) /\ val'[q][next'[q]] \in Lines
      BY <1>0, <2>1, <2>3, <2>4 DEF PumpType
    <2>8. PumpType'
      BY <1>0, <1>a, <2>1, <2>3, <2>4, <2>5, <2>6, <2>7 DEF PumpType
    <2> QED
      BY <1>4, <2>1, <2>8
  <1> QED
    BY <1>5, <1>6, <1>7, <1>8, <1>9, <1>10, <1>11, <1>12 DEF PumpStep

\* when somebody types or leaves,
LEMMA UseType ==
    ASSUME TypeOK, NEW s \in Sessions, Uses(s), UNCHANGED programVars
    PROVE  TypeOK'
  <1>1. UNCHANGED <<legacy, nodeVars, taken, torn, repeats, stuck, term, files, unopened, pc, on, at, crossed, cut, ended>>
    BY DEF Uses, Type, Leave, sessionVars, lineVars
  <1>2. Made' = Made
    BY <1>1 DEF Made
  <1>3. alive' \in SUBSET alive /\ typed' \in [Sessions -> 0..MaxLines]
    <2>1. alive \subseteq Made /\ typed \in [Sessions -> 0..MaxLines]
      BY DEF SessionType, TypeOK, TerminalType
    <2>2. CASE Type(s, job.lines)
      <3>1. typed[s] < MaxLines /\ typed' = [typed EXCEPT ![s] = typed[s] + 1] /\ alive' = alive
        BY <2>2 DEF Type, sessionVars
      <3>2. typed[s] \in 0..MaxLines
        BY <2>1
      <3>3. typed[s] + 1 \in 0..MaxLines
        BY <3>1, <3>2, Bounds
      <3> QED
        BY <2>1, <3>1, <3>3
    <2>3. CASE Leave(s)
      BY <2>1, <2>3 DEF Leave, lineVars
    <2> QED
      BY <2>2, <2>3 DEF Uses
  <1>4. SessionType'
    BY <1>1, <1>2, <1>3 DEF SessionType, TypeOK, TerminalType
  <1>5. NodeType' /\ ThreadType'
    BY <1>1, <1>2 DEF NodeType, ThreadType, nodeVars, TypeOK, TerminalType
  <1>6. PumpType' /\ BoxType'
    BY <1>1 DEF PumpType, BoxType, programVars, pumpVars, boxVars, TypeOK
  <1> QED
    BY <1>4, <1>5, <1>6 DEF TypeOK, TerminalType

\* when a container is filled or closed,
LEMMA FillType ==
    ASSUME TypeOK, Produce \/ CloseContainer
    PROVE  TypeOK'
  <1>1. UNCHANGED <<terminalVars, job, pumpVars, rdpos>>
    BY DEF Produce, CloseContainer, boxRest
  <1>2. TerminalType' /\ PumpType'
    BY <1>1 DEF terminalVars, nodeVars, lineVars, sessionVars, pumpVars, Made, NodeType, SessionType, ThreadType,
       PumpType, TypeOK, TerminalType
  <1>3. queue' \in Seq(Lines) /\ closed' \in BOOLEAN /\ added' \in 0..MaxLines
    <2>1. CASE Produce
      <3>1. added < MaxLines /\ added' = added + 1 /\ queue' = Append(queue, <<0, added + 1>>) /\ closed' = closed
        BY <2>1 DEF Produce
      <3>2. <<0, added + 1>> \in Lines /\ added + 1 \in 0..MaxLines
        BY <3>1, Bounds DEF Lines, BoxType, TypeOK
      <3> QED
        BY <3>1, <3>2 DEF BoxType, TypeOK
    <2>2. CASE CloseContainer
      BY <2>2 DEF CloseContainer, BoxType, TypeOK
    <2> QED
      BY <2>1, <2>2
  <1> QED
    BY <1>1, <1>2, <1>3 DEF BoxType, TypeOK

\* and so by every step
LEMMA TypeStep ==
    ASSUME TypeOK, Next
    PROVE  TypeOK'
  <1>1. ASSUME NEW p \in Pumps, Start(p) \/ LegacyStart(p) \/ PumpStep(p) PROVE TypeOK'
    BY <1>1, PumpTerminalType, PumpOwnType DEF TypeOK
  <1> QED
    BY <1>1, Movers, BeginType, OpenType, HaltType, ReturnType, UseType, FillType

\* that is one or none.
LEMMA TypeStutter ==
    ASSUME TypeOK, UNCHANGED vars
    PROVE  TypeOK'
  <1>1. UNCHANGED <<terminalVars, job, pumpVars, boxVars>>
    BY DEF vars
  <1> QED
    BY <1>1 DEF terminalVars, nodeVars, lineVars, sessionVars, pumpVars, boxVars, Made, NodeType, SessionType,
       ThreadType, PumpType, BoxType, TypeOK, TerminalType

\* It holds at the start.
LEMMA InitType == Init => TypeOK
  <1> SUFFICES ASSUME Init PROVE TypeOK
    OBVIOUS
  <1>1. <<>> \in Seq(Lines) /\ <<>> \in Seq(Terminals) /\ <<>> \in Seq(Lines \cup {Void}) /\ Len(<<>>) = 0
        /\ DOMAIN <<>> = {}
    OBVIOUS
  <1>2. NodeType
    BY DEF Init, TerminalInit, NodeType
  <1>3. SessionType
    BY <1>1, Bounds DEF Init, TerminalInit, SessionType, Made
  <1>4. ThreadType
    BY <1>1 DEF Init, TerminalInit, ThreadType, WorkPc, FilePc, ChangePc, HaltPc
  <1>5. PumpType
    BY <1>1 DEF Init, TerminalInit, PumpType, PumpPc, Threads
  <1>6. BoxType
    <2>1. 0 \in 0..MaxLines /\ -1 \in -1..MaxLines
      BY Bounds
    <2> QED
      BY <1>1, <2>1 DEF Init, BoxType
  <1> QED
    BY <1>2, <1>3, <1>4, <1>5, <1>6 DEF TypeOK, TerminalType

\* In every reachable state every variable has its type: among others, whoever
\* holds the lock of a terminal is inside halt() of that terminal, and a thread
\* in stdio works on a session that was made.
THEOREM TypeCorrect == Spec => []TypeOK
  <1>1. TypeOK /\ [Next]_vars => TypeOK'
    BY TypeStep, TypeStutter
  <1> QED
    BY <1>1, InitType, PTL DEF Spec

-----------------------------------------------------------------------------
(* What is left of the sessions of a terminal, by where the one thread is    *)
(* that opens or halts it, if none has met another there.                   *)

NoFiles(t) == \A s \in files : term[s] # t
Xterms(t) == \A s \in alive : term[s] = t => xterm_pid[t] = s \/ Forgotten(s)
Gone(t) == \A s \in alive : term[s] # t
Bare(t) == fh[t] = NoFile /\ NoFiles(t) /\ \A s \in alive : term[s] = t => s \in unopened
OwnFile(t) ==
    /\ \A s \in files : term[s] = t => fh[t] = s
    /\ fh[t] # NoFile => fh[t] \in files
Settled(t) ==
    /\ OwnFile(t) /\ Xterms(t)
    /\ fh[t] = NoFile => Bare(t)
    /\ (legacy /\ t \notin born) => fh[t] = NoFile /\ Gone(t)
Changed(t, x) ==
    /\ pc[x] = "op_fork" => Bare(t) /\ Xterms(t) /\ (legacy => Gone(t))
    /\ pc[x] = "op_fopen" => fh[t] = NoFile /\ NoFiles(t) /\ Xterms(t) /\ xterm_pid[t] = at[x]
    /\ pc[x] = "ha_close" => OwnFile(t) /\ Xterms(t)
    /\ pc[x] = "ha_null" => NoFiles(t) /\ Xterms(t)
    /\ pc[x] = "ha_kill" => fh[t] = NoFile /\ NoFiles(t) /\ Xterms(t)
Sound(t) ==
    /\ \A x, y \in Changing(t) : x = y
    /\ \A x \in Changing(t) : Changed(t, x)
    /\ Changing(t) = {} => Settled(t)

\* A session belongs to one terminal, and so does whoever works on it.
Owned ==
    /\ \A t \in Terminals : fh[t] # NoFile => term[fh[t]] = t
    /\ \A t \in Terminals : xterm_pid[t] \in Made => term[xterm_pid[t]] = t
    /\ \A x \in Threads : pc[x] \in FilePc => term[at[x]] = on[x]

\* Pumps do not open.  Of v0, one controller at a time makes or drops a stream.
Busy(c, t) == on[c] = t /\ pc[c] \in ChangePc
Born ==
    /\ \A p \in Pumps : pc[p] \notin {"op_fork", "op_fopen"}
    /\ legacy => \A c \in Controllers : pc[c] # "ha_lock"
    /\ legacy => \A t \in Terminals :
         /\ \A c, d \in Controllers : Busy(c, t) /\ Busy(d, t) => c = d
         /\ t \in born => \A c \in Controllers : ~Busy(c, t)

TerminalInv == Owned /\ Born /\ \A t \in Terminals \ crossed : Sound(t)

\* The step of one thread.
LEMMA MovedTo ==
    ASSUME TypeOK, NEW x \in Threads, NEW l, NEW t, NEW v, Moved(x, l, t, v)
    PROVE  /\ pc'[x] = l /\ on'[x] = t /\ at'[x] = v
           /\ \A y \in Threads \ {x} : pc'[y] = pc[y] /\ on'[y] = on[y] /\ at'[y] = at[y]
  BY DEF Moved, TypeOK, TerminalType, ThreadType, PumpType

\* Who opens or halts a terminal, after it.
LEMMA ChangingTo ==
    ASSUME TypeOK, NEW x \in Threads, NEW l, NEW u, NEW v, Moved(x, l, u, v), NEW t
    PROVE  Changing(t)' = (Changing(t) \ {x}) \cup {y \in {x} : u = t /\ l \in ChangePc}
  BY MovedTo DEF Changing

\* What belongs to a terminal is as it was, but that xterms may be gone.
Same(t) ==
    /\ fh'[t] = fh[t] /\ xterm_pid'[t] = xterm_pid[t]
    /\ (t \in born' <=> t \in born) /\ legacy' = legacy
    /\ \A s \in Made : s \in Made' /\ term'[s] = term[s]
    /\ \A s \in Made' : term'[s] = t =>
         /\ s \in Made
         /\ s \in files' <=> s \in files
         /\ s \in unopened' <=> s \in unopened
         /\ s \in alive' => s \in alive
SameChanging(t) ==
    /\ Changing(t)' = Changing(t)
    /\ \A x \in Changing(t) : pc'[x] = pc[x] /\ at'[x] = at[x]

\* What held of it still does.
LEMMA SamePredicates ==
    ASSUME TypeOK, TypeOK', Owned, NEW t \in Terminals, Same(t)
    PROVE  /\ NoFiles(t) => NoFiles(t)'
           /\ Xterms(t) => Xterms(t)'
           /\ Gone(t) => Gone(t)'
           /\ Bare(t) => Bare(t)'
           /\ OwnFile(t) => OwnFile(t)'
           /\ Settled(t) => Settled(t)'
  <1>1. files \subseteq Made /\ files' \subseteq Made' /\ alive \subseteq Made /\ alive' \subseteq Made' /\ unopened \subseteq Made
    BY DEF TypeOK, TerminalType, SessionType
  <1>2. NoFiles(t) => NoFiles(t)'
    BY <1>1 DEF NoFiles, Same
  <1>3. Xterms(t) => Xterms(t)'
    <2>1. ASSUME NEW s \in alive', term'[s] = t, Xterms(t) PROVE xterm_pid'[t] = s \/ Forgotten(s)'
      <3>1. s \in alive /\ s \in Made /\ term[s] = t
        BY <1>1, <2>1 DEF Same
      <3>2. xterm_pid[t] = s \/ Forgotten(s)
        BY <2>1, <3>1 DEF Xterms
      <3> QED
        BY <1>1, <3>1, <3>2 DEF Same, Forgotten
    <2> QED
      BY <2>1 DEF Xterms
  <1>6. Gone(t) => Gone(t)'
    BY <1>1 DEF Gone, Same
  <1>4. Bare(t) => Bare(t)'
    BY <1>1, <1>2 DEF Bare, Same
  <1>5. OwnFile(t) => OwnFile(t)'
    <2>1. fh[t] # NoFile => fh[t] \in Made /\ term[fh[t]] = t
      BY DEF Owned, TypeOK, TerminalType, NodeType
    <2> QED
      BY <1>1, <2>1 DEF OwnFile, Same
  <1> QED
    BY <1>2, <1>3, <1>4, <1>5, <1>6 DEF Settled, Same

\* Then it stays sound.
LEMMA SameSound ==
    ASSUME TypeOK, TypeOK', Owned, NEW t \in Terminals, Same(t), SameChanging(t), Sound(t)
    PROVE  Sound(t)'
  <1>1. ASSUME NEW x \in Changing(t) PROVE Changed(t, x)'
    <2>1. Changed(t, x) /\ pc'[x] = pc[x] /\ at'[x] = at[x] /\ x \in Threads /\ on[x] = t
      BY DEF Sound, SameChanging, Changing
    <2>2. pc[x] = "op_fopen" => at[x] \in Made /\ term[at[x]] = t
      BY <2>1 DEF Owned, FilePc, TypeOK, TerminalType, ThreadType
    <2> QED
      BY <2>1, <2>2, SamePredicates DEF Changed, Same
  <1>2. Changing(t)' = {} => Settled(t)'
    BY SamePredicates DEF Sound, SameChanging
  <1> QED
    BY <1>1, <1>2 DEF Sound, SameChanging

\* A thread that works elsewhere changes nothing here.
LEMMA ChangingElsewhere ==
    ASSUME TypeOK, NEW x \in Threads, NEW l, NEW u, NEW v, Moved(x, l, u, v), NEW t,
           on[x] # t \/ pc[x] \notin ChangePc, u # t \/ l \notin ChangePc
    PROVE  SameChanging(t)
  <1>1. x \notin Changing(t)
    BY DEF Changing
  <1>2. Changing(t)' = Changing(t)
    BY <1>1, ChangingTo
  <1>3. Changing(t) \subseteq Threads \ {x}
    BY <1>1 DEF Changing
  <1> QED
    BY <1>2, <1>3, MovedTo DEF SameChanging

-----------------------------------------------------------------------------
(* TerminalInv is inductive: the steps, one kind after the other.           *)

\* A thread that leaves the sessions alone.
LEMMA OwnedMove ==
    ASSUME TypeOK, Owned, NEW x \in Threads, NEW l, NEW u, NEW v, Moved(x, l, u, v),
           UNCHANGED <<xterm_pid, term>>,
           \A t \in Terminals : fh'[t] \in {fh[t], NoFile},
           l \in FilePc => term[v] = u
    PROVE  Owned'
  <1>1. \A y \in Threads : pc'[y] \in FilePc => term[at'[y]] = on'[y]
    BY MovedTo DEF Owned
  <1> QED
    BY <1>1 DEF Owned, Made

\* A thread begins to open, close, construct or drop: if it met nobody there,
\* what it found is what its next step needs.
LEMMA BeginInv ==
    ASSUME TypeOK, TypeOK', TerminalInv, NEW c \in Controllers, NEW u \in Terminals,
           Begins(c, u), UNCHANGED programVars
    PROVE  TerminalInv'
  <1>0. c \in Threads /\ c \notin Pumps
    BY ThreadAssumption DEF Threads
  <1>1. /\ UNCHANGED <<legacy, xterm_pid, mtx, term, files, alive, unopened>> /\ crossed \subseteq crossed'
        /\ fh' \in {fh, [fh EXCEPT ![u] = NoFile]} /\ born' \in {born, born \ {u}} /\ born' \subseteq born
    BY DEF Begins, OpenBegin, CloseBegin, Construct, Drop, nodeVars, sessionVars, Cross
  <1>2. PICK l \in {"op_fork", "ha_lock", "ha_close"} : pc[c] = "idle" /\ Moved(c, l, u, at[c])
    BY <1>0, Paths DEF Begins
  <1>3. /\ pc'[c] = l /\ on'[c] = u
        /\ \A y \in Threads \ {c} : pc'[y] = pc[y] /\ on'[y] = on[y] /\ at'[y] = at[y]
    BY <1>0, <1>2, MovedTo
  <1>4. Owned'
    <2>1. \A t \in Terminals : fh'[t] \in {fh[t], NoFile}
      BY <1>1 DEF TypeOK, TerminalType, NodeType
    <2> QED
      BY <1>0, <1>1, <1>2, <2>1, OwnedMove DEF TerminalInv, FilePc
  <1>5. \A d \in Controllers, t \in Terminals : Busy(d, t)' => Busy(d, t) \/ (d = c /\ t = u)
    BY <1>3 DEF Busy, Threads
  <1>6. Born'
    <2>1. \A p \in Pumps : pc'[p] \notin {"op_fork", "op_fopen"}
      BY <1>0, <1>3 DEF TerminalInv, Born, Threads
    <2>2. ASSUME legacy
          PROVE  /\ \A d \in Controllers : ~Busy(d, u)
                 /\ u \notin born'
      <3>1. CASE Construct(c, u)
        BY <2>2, <3>1 DEF Construct, Changing, Threads, Busy
      <3>2. CASE Drop(c, u)
        BY <2>2, <3>2 DEF Drop, TerminalInv, Born
      <3> QED
        BY <2>2, <3>1, <3>2 DEF Begins, OpenBegin, CloseBegin
    <2>3. ASSUME legacy, NEW t \in Terminals
          PROVE  /\ \A d, e \in Controllers : Busy(d, t)' /\ Busy(e, t)' => d = e
                 /\ t \in born' => \A d \in Controllers : ~Busy(d, t)'
      BY <1>1, <1>5, <2>2, <2>3 DEF TerminalInv, Born
    <2>4. legacy => \A d \in Controllers : pc'[d] # "ha_lock"
      <3>1. legacy => l # "ha_lock"
        <4>1. /\ OpenBegin(c, u) => ~legacy
              /\ CloseBegin(c, u) => ~legacy
              /\ Construct(c, u) => pc'[c] = "op_fork"
              /\ Drop(c, u) => pc'[c] = "ha_close"
          BY <1>0, Paths, MovedTo DEF OpenBegin, CloseBegin
        <4> QED
          BY <1>3, <4>1 DEF Begins
      <3> QED
        BY <1>3, <3>1 DEF TerminalInv, Born, Threads
    <2> QED
      BY <1>1, <2>1, <2>3, <2>4 DEF Born
  <1>7. ASSUME NEW t \in Terminals \ crossed' PROVE Sound(t)'
    <2>0. Sound(t)
      BY <1>1, <1>7 DEF TerminalInv
    <2>1. CASE t # u
      <3>1. fh'[t] = fh[t] /\ (t \in born' <=> t \in born)
        BY <1>1, <2>1 DEF TypeOK, TerminalType, NodeType
      <3>2. Same(t)
        BY <1>1, <3>1 DEF Same, Made
      <3>3. SameChanging(t)
        BY <1>0, <1>2, <2>1, ChangingElsewhere DEF ChangePc, HaltPc
      <3> QED
        BY <2>0, <3>2, <3>3, SameSound DEF TerminalInv
    <2>2. CASE t = u /\ CloseBegin(c, u)
      <3>1. l = "ha_lock" /\ Same(t)
        <4>1. pc'[c] = "ha_lock" /\ UNCHANGED <<fh, born>>
          BY <1>0, <2>2, Paths, MovedTo DEF CloseBegin, nodeVars
        <4> QED
          BY <1>1, <1>3, <4>1 DEF Same, Made
      <3>2. SameChanging(t)
        BY <1>0, <1>2, <3>1, ChangingElsewhere DEF ChangePc, HaltPc
      <3> QED
        BY <2>0, <3>1, <3>2, SameSound DEF TerminalInv
    <2>3. CASE t = u /\ ~CloseBegin(c, u)
      <3>1. Changing(u) = {} /\ (Drop(c, u) \/ fh[u] = NoFile)
        <4>1. c \notin Changing(u)
          BY <1>2 DEF Changing, ChangePc, HaltPc
        <4>2. CASE OpenBegin(c, u)
          BY <1>7, <2>3, <4>1, <4>2 DEF OpenBegin, Cross
        <4>3. CASE Construct(c, u)
          BY <2>0, <2>3, <4>3 DEF Construct, Sound, Settled
        <4>4. CASE Drop(c, u)
          <5>1. \A p \in Pumps : p \notin Changing(u)
            BY <4>4 DEF Drop, Changing, ChangePc, HaltPc
          <5>2. \A d \in Controllers : d \notin Changing(u)
            BY <4>4 DEF Drop, TerminalInv, Born, Busy, Changing
          <5>3. Changing(u) \subseteq Controllers \cup Pumps
            BY DEF Changing, Threads
          <5> QED
            BY <4>4, <5>1, <5>2, <5>3
        <4> QED
          BY <2>3, <4>2, <4>3, <4>4 DEF Begins
      <3>2. Settled(u)
        BY <2>0, <2>3, <3>1 DEF Sound
      <3>3. Changing(u)' = {c} /\ l = pc'[c]
        <4>1. l \in ChangePc
          <5>1. /\ OpenBegin(c, u) => pc'[c] = "op_fork"
                /\ Construct(c, u) => pc'[c] = "op_fork"
                /\ Drop(c, u) => pc'[c] = "ha_close"
            BY <1>0, Paths, MovedTo
          <5> QED
            BY <1>3, <2>3, <5>1 DEF Begins, ChangePc, HaltPc
        <4> QED
          BY <1>0, <1>2, <1>3, <3>1, <4>1, ChangingTo
      <3>4. CASE Drop(c, u)
        <4>1. l = "ha_close" /\ fh' = fh
          BY <1>0, <1>3, <3>4, Paths, MovedTo DEF Drop
        <4>2. OwnFile(u)' /\ Xterms(u)'
          BY <1>1, <3>2, <4>1 DEF Settled, OwnFile, Xterms, Forgotten, Made
        <4>3. Changed(u, c)'
          BY <3>3, <4>1, <4>2 DEF Changed
        <4> QED
          BY <2>3, <3>3, <4>3 DEF Sound
      <3>5. CASE fh[u] = NoFile /\ ~Drop(c, u)
        <4>1. l = "op_fork"
          BY <1>0, <1>3, <2>3, <3>5, Paths, MovedTo DEF Begins
        <4>2. fh'[u] = NoFile
          BY <1>1, <3>5 DEF TypeOK, TerminalType, NodeType
        <4>3. Bare(u)' /\ Xterms(u)'
          BY <1>1, <3>2, <3>5, <4>2 DEF Settled, Bare, NoFiles, Xterms, Forgotten, Made
        <4>5. legacy' => Gone(u)'
          <5>1. legacy => u \notin born
            BY <2>3, <3>5 DEF Begins, OpenBegin, Construct
          <5> QED
            BY <1>1, <3>2, <5>1 DEF Settled, Gone
        <4>4. Changed(u, c)'
          BY <3>3, <4>1, <4>3, <4>5 DEF Changed
        <4> QED
          BY <2>3, <3>3, <4>4 DEF Sound
      <3> QED
        BY <3>1, <3>4, <3>5
    <2> QED
      BY <2>1, <2>2, <2>3
  <1> QED
    BY <1>4, <1>6, <1>7 DEF TerminalInv

\* A thread that does not begin to open or halt.
LEMMA BornMove ==
    ASSUME TypeOK, Born, NEW x \in Threads, NEW l, NEW u, NEW v, Moved(x, l, u, v), UNCHANGED <<legacy, born>>,
           x \in Pumps => l \notin {"op_fork", "op_fopen"},
           x \in Controllers => \/ l \notin ChangePc \cup {"ha_lock"}
                                \/ l \in ChangePc /\ pc[x] \in ChangePc \cup {"ha_lock"} /\ u = on[x]
    PROVE  Born'
  <1>1. /\ pc'[x] = l /\ on'[x] = u
        /\ \A y \in Threads \ {x} : pc'[y] = pc[y] /\ on'[y] = on[y]
    BY MovedTo
  <1>2. \A p \in Pumps : pc'[p] \notin {"op_fork", "op_fopen"}
    BY <1>1 DEF Born, Threads
  <1>3. legacy => \A c \in Controllers : pc'[c] # "ha_lock"
    BY <1>1 DEF Born, Threads, ChangePc, HaltPc
  <1>4. ASSUME legacy, NEW c \in Controllers, NEW t, Busy(c, t)' PROVE Busy(c, t)
    BY <1>1, <1>4 DEF Born, Busy, Threads
  <1> QED
    BY <1>2, <1>3, <1>4 DEF Born

\* Inside open(): the new session is the only one.
LEMMA OpenInv ==
    ASSUME TypeOK, TypeOK', TerminalInv, NEW x \in Threads, Opens(x), UNCHANGED programVars
    PROVE  TerminalInv'
  <1>a. PICK u \in Terminals : u = on[x]
    BY OpenEffects, Working DEF WorkPc, ChangePc
  <1>0. /\ UNCHANGED <<legacy, mtx, crossed>>
        /\ \/ pc[x] = "op_fork" /\ (Forks(x) \/ ForkFails(x))
           \/ pc[x] = "op_fopen" /\ Fopens(x)
        /\ x \in Controllers /\ pc[x] \in ChangePc /\ u = on[x]
    BY <1>a, OpenEffects DEF ChangePc, TerminalInv, Born, Threads
  <1>1. PICK l, t2, v : l \in {"op_fopen", "idle"} /\ Moved(x, l, t2, v) /\ (l = "op_fopen" => t2 = u)
    BY <1>0 DEF Forks, ForkFails, Fopens
  <1>2. /\ pc'[x] = l /\ on'[x] = t2 /\ at'[x] = v
        /\ \A y \in Threads \ {x} : pc'[y] = pc[y] /\ on'[y] = on[y] /\ at'[y] = at[y]
    BY <1>1, MovedTo
  <1>3. /\ files \subseteq Made /\ alive \subseteq Made /\ unopened \subseteq Made /\ Made = 1..Len(term) /\ Len(term) \in Nat
        /\ pc[x] = "op_fopen" => at[x] \in Made /\ term[at[x]] = u
    BY <1>0 DEF TypeOK, TerminalType, SessionType, ThreadType, FilePc, Made, TerminalInv, Owned
  <1>4. /\ \A s \in Made : s \in Made' /\ term'[s] = term[s]
        /\ \A s \in Made' \ Made : Forks(x) /\ s = Len(term) + 1 /\ term'[s] = u
        /\ Forks(x) => Len(term) + 1 \in Made' \ Made
    <2>1. CASE Forks(x)
      <3>1. term' = Append(term, u) /\ term \in Seq(Terminals) /\ u \in Terminals
        BY <1>0, <2>1 DEF Forks, TypeOK, TerminalType, SessionType
      <3>2. /\ Len(term') = Len(term) + 1 /\ term'[Len(term) + 1] = u
            /\ \A s \in 1..Len(term) : term'[s] = term[s]
        BY <1>3, <3>1
      <3>3. Made' = 1..(Len(term) + 1)
        BY <3>2 DEF Made
      <3> QED
        BY <1>3, <2>1, <3>2, <3>3
    <2>2. CASE ~Forks(x)
      BY <1>0, <2>2 DEF ForkFails, Fopens, Made
    <2> QED
      BY <2>1, <2>2
  <1>5. Owned'
    <2>1. ASSUME NEW t \in Terminals, fh'[t] # NoFile PROVE term'[fh'[t]] = t
      <3>1. fh'[t] = fh[t] \/ (t = u /\ fh'[t] = at[x] /\ pc[x] = "op_fopen")
        BY <1>0, <2>1 DEF Forks, ForkFails, Fopens, TypeOK, TerminalType, NodeType
      <3>2. fh[t] = NoFile \/ (fh[t] \in Made /\ term[fh[t]] = t)
        BY DEF TypeOK, TerminalType, NodeType, TerminalInv, Owned
      <3> QED
        BY <1>3, <1>4, <2>1, <3>1, <3>2
    <2>2. ASSUME NEW t \in Terminals, xterm_pid'[t] \in Made' PROVE term'[xterm_pid'[t]] = t
      <3>1. xterm_pid'[t] = xterm_pid[t] \/ (t = u /\ Forks(x) /\ xterm_pid'[t] = Len(term) + 1)
                 \/ xterm_pid'[t] \in {NoPid, ForkFailed}
        BY <1>0 DEF Forks, ForkFails, Fopens, TypeOK, TerminalType, NodeType
      <3>2. Made' \subseteq Sessions /\ NoPid \notin Sessions /\ ForkFailed \notin Sessions
        BY Bounds DEF TypeOK, TerminalType, SessionType, Sessions, NoPid, ForkFailed
      <3>3. xterm_pid[t] \in Made' => xterm_pid[t] \in Made
        <4>1. xterm_pid[t] \in {ForkFailed, NoPid} \cup Made
          BY DEF TypeOK, TerminalType, NodeType
        <4> QED
          BY <3>2, <4>1
      <3>4. xterm_pid[t] \in Made => term[xterm_pid[t]] = t
        BY DEF TerminalInv, Owned
      <3> QED
        BY <1>4, <2>2, <3>1, <3>2, <3>3, <3>4
    <2>3. ASSUME NEW y \in Threads, pc'[y] \in FilePc PROVE term'[at'[y]] = on'[y]
      <3>1. CASE y = x
        <4>1. Forks(x) /\ at'[x] = Len(term) + 1 /\ on'[x] = u
          BY <1>0, <1>2, <2>3, <3>1, MovedTo DEF Forks, ForkFails, Fopens, FilePc
        <4> QED
          BY <1>4, <3>1, <4>1
      <3>2. CASE y # x
        <4>1. pc[y] \in FilePc /\ on'[y] = on[y] /\ at'[y] = at[y]
          BY <1>2, <2>3, <3>2
        <4>2. at[y] \in Made /\ term[at[y]] = on[y]
          BY <4>1 DEF TypeOK, TerminalType, ThreadType, TerminalInv, Owned
        <4> QED
          BY <1>4, <4>1, <4>2
      <3> QED
        BY <3>1, <3>2
    <2> QED
      BY <2>1, <2>2, <2>3 DEF Owned
  <1>6. Born'
    <2>1. CASE born' = born
      BY <1>0, <1>1, <2>1, ThreadAssumption, BornMove DEF TerminalInv, ChangePc, HaltPc
    <2>2. CASE born' # born
      <3>1. /\ pc[x] = "op_fopen" /\ Fopens(x) /\ born' = born \cup {u} /\ l = "idle"
        <4>1. pc[x] = "op_fopen" /\ Fopens(x)
          BY <1>0, <2>2 DEF Forks, ForkFails
        <4>2. born' = born \cup {u}
          BY <1>0, <2>2, <4>1 DEF Fopens
        <4>3. l = "idle"
          BY <1>2, <4>1, MovedTo DEF Fopens
        <4> QED
          BY <4>1, <4>2, <4>3
      <3>2. \A p \in Pumps : pc'[p] \notin {"op_fork", "op_fopen"}
        BY <1>2, <3>1 DEF TerminalInv, Born, Threads
      <3>3. legacy' => \A c \in Controllers : pc'[c] # "ha_lock"
        BY <1>0, <1>2, <3>1 DEF TerminalInv, Born, Threads
      <3>4. \A c \in Controllers, t \in Terminals : Busy(c, t)' => Busy(c, t) /\ c # x
        BY <1>2, <3>1 DEF Busy, Threads, ChangePc, HaltPc
      <3>5. Busy(x, u)
        BY <1>0 DEF Busy
      <3> QED
        BY <1>0, <3>1, <3>2, <3>3, <3>4, <3>5 DEF TerminalInv, Born
    <2> QED
      BY <2>1, <2>2
  <1>7. ASSUME NEW t \in Terminals \ crossed' PROVE Sound(t)'
    <2>0. Sound(t)
      BY <1>0, <1>7 DEF TerminalInv
    <2>1. CASE t # u
      <3>1. fh'[t] = fh[t] /\ xterm_pid'[t] = xterm_pid[t] /\ (t \in born' <=> t \in born)
        BY <1>0, <2>1 DEF Forks, ForkFails, Fopens, TypeOK, TerminalType, NodeType
      <3>2. ASSUME NEW s \in Made', term'[s] = t
            PROVE  /\ s \in Made
                   /\ s \in files' <=> s \in files
                   /\ s \in unopened' <=> s \in unopened
                   /\ s \in alive' => s \in alive
        <4>1. s \in Made /\ term[s] = t
          BY <1>4, <2>1, <3>2
        <4>2. pc[x] = "op_fopen" => s # at[x]
          BY <1>3, <2>1, <4>1
        <4>3. s # Len(term) + 1
          BY <1>3, <4>1
        <4> QED
          BY <1>0, <4>1, <4>2, <4>3 DEF Forks, ForkFails, Fopens
      <3>3. Same(t)
        BY <1>0, <1>4, <3>1, <3>2 DEF Same
      <3>4. SameChanging(t)
        BY <1>0, <1>1, <2>1, ChangingElsewhere DEF ChangePc, HaltPc
      <3> QED
        BY <2>0, <3>3, <3>4, SameSound DEF TerminalInv
    <2>2. CASE t = u
      <3>1. Changing(u) = {x} /\ Changed(u, x)
        <4>1. x \in Changing(u)
          BY <1>0 DEF Changing
        <4> QED
          BY <2>0, <2>2, <4>1 DEF Sound
      <3>2. Changing(u)' = {y \in {x} : t2 = u /\ l \in ChangePc}
        BY <1>1, <3>1, ChangingTo
      <3>3. CASE Forks(x)
        <4>1. pc[x] = "op_fork" /\ l = "op_fopen" /\ v = Len(term) + 1 /\ t2 = u
          BY <1>0, <1>2, <3>3, MovedTo DEF Forks, Fopens
        <4>2. Bare(u) /\ (legacy => Gone(u))
          BY <3>1, <4>1 DEF Changed
        <4>3. fh'[u] = NoFile /\ xterm_pid'[u] = at'[x] /\ at'[x] = Len(term) + 1
          BY <1>0, <1>2, <3>3, <4>1, <4>2 DEF Forks, Bare, TypeOK, TerminalType, NodeType
        <4>4. NoFiles(u)'
          BY <1>3, <1>4, <3>3, <4>2 DEF Forks, Bare, NoFiles
        <4>5. Xterms(u)'
          <5>1. ASSUME NEW s \in alive', term'[s] = u, s # Len(term) + 1 PROVE Forgotten(s)'
            <6>1. s \in alive /\ s \in Made /\ term[s] = u /\ s < Len(term) + 1
              BY <1>3, <1>4, <3>3, <5>1 DEF Forks
            <6>2. ~legacy /\ s \in unopened
              BY <4>2, <6>1 DEF Bare, Gone
            <6>3. Len(term) + 1 \in Made' /\ term'[Len(term) + 1] = u
              BY <1>4, <3>3
            <6> QED
              BY <1>0, <3>3, <5>1, <6>1, <6>2, <6>3 DEF Forks, Forgotten
          <5> QED
            BY <4>3, <5>1 DEF Xterms
        <4>6. Changed(u, x)'
          BY <1>2, <4>1, <4>3, <4>4, <4>5 DEF Changed
        <4>7. Changing(u)' = {x}
          BY <3>2, <4>1 DEF ChangePc
        <4> QED
          BY <2>2, <4>6, <4>7 DEF Sound
      <3>4. CASE ForkFails(x) /\ pc[x] = "op_fork"
        <4>1. l = "idle"
          BY <1>2, <3>4, MovedTo DEF ForkFails
        <4>2. /\ Bare(u) /\ Xterms(u) /\ (legacy => Gone(u))
              /\ UNCHANGED <<legacy, fh, term, alive, files, unopened>>
          BY <1>0, <3>1, <3>4 DEF Changed, ForkFails
        <4>3. Bare(u)' /\ OwnFile(u)' /\ (legacy' => Gone(u)')
          BY <4>2 DEF Bare, NoFiles, OwnFile, Gone
        <4>6. Xterms(u)'
          <5>1. xterm_pid' = xterm_pid \/ legacy \/ xterm_pid'[u] = ForkFailed
            BY <1>0, <3>4 DEF ForkFails, TypeOK, TerminalType, NodeType
          <5>2. CASE xterm_pid' = xterm_pid
            BY <4>2, <5>2 DEF Xterms, Forgotten, Made
          <5>3. CASE legacy
            BY <4>2, <5>3 DEF Xterms, Gone
          <5>4. CASE ~legacy /\ xterm_pid'[u] = ForkFailed
            BY <4>2, <5>4 DEF Xterms, Bare, Forgotten
          <5> QED
            BY <5>1, <5>2, <5>3, <5>4
        <4>4. Settled(u)'
          BY <4>2, <4>3, <4>6 DEF Settled, Bare
        <4>5. Changing(u)' = {}
          BY <3>2, <4>1 DEF ChangePc, HaltPc
        <4> QED
          BY <2>2, <4>4, <4>5 DEF Sound
      <3>5. CASE Fopens(x) /\ pc[x] = "op_fopen"
        <4>1. l = "idle"
          BY <1>2, <3>5, MovedTo DEF Fopens
        <4>2. fh[u] = NoFile /\ NoFiles(u) /\ Xterms(u) /\ xterm_pid[u] = at[x]
          BY <3>1, <3>5 DEF Changed
        <4>3. UNCHANGED <<legacy, xterm_pid, term, alive>> /\ (legacy => u \in born')
          BY <1>0, <3>5 DEF Fopens
        <4>4. at[x] # NoFile /\ at[x] \in Made /\ term[at[x]] = u
          BY <1>3, <3>5 DEF NoFile
        <4>5. ASSUME files' = files \cup {at[x]} /\ fh' = [fh EXCEPT ![u] = at[x]] /\ UNCHANGED unopened
              PROVE  Settled(u)'
          <5>1. fh'[u] = at[x]
            BY <1>0, <4>5 DEF TypeOK, TerminalType, NodeType
          <5>2. OwnFile(u)'
            BY <4>2, <4>3, <4>5, <5>1 DEF OwnFile, NoFiles
          <5>3. Xterms(u)'
            BY <4>2, <4>3, <4>5 DEF Xterms, Forgotten, Made
          <5>4. legacy' => u \in born'
            BY <1>0, <4>3
          <5> QED
            BY <4>4, <5>1, <5>2, <5>3, <5>4 DEF Settled
        <4>6. ASSUME fh' = [fh EXCEPT ![u] = NoFile] /\ unopened' = unopened \cup {at[x]} /\ UNCHANGED files
              PROVE  Settled(u)'
          <5>1. fh'[u] = NoFile
            BY <1>0, <4>6 DEF TypeOK, TerminalType, NodeType
          <5>2. \A s \in alive' : term'[s] = u => s \in unopened'
            BY <4>2, <4>3, <4>6 DEF Xterms, Forgotten
          <5>5. Xterms(u)'
            BY <4>2, <4>3, <4>6 DEF Xterms, Forgotten, Made
          <5>3. NoFiles(u)'
            BY <4>2, <4>3, <4>6 DEF NoFiles
          <5>4. OwnFile(u)' /\ Xterms(u)' /\ Bare(u)'
            BY <5>1, <5>2, <5>3, <5>5 DEF Bare, OwnFile, NoFiles
          <5> QED
            BY <1>0, <4>3, <5>1, <5>4 DEF Settled
        <4>7. Settled(u)'
          <5>1. \/ files' = files \cup {at[x]} /\ fh' = [fh EXCEPT ![u] = at[x]] /\ UNCHANGED unopened
                \/ fh' = [fh EXCEPT ![u] = NoFile] /\ unopened' = unopened \cup {at[x]} /\ UNCHANGED files
            BY <1>0, <3>5 DEF Fopens
          <5> QED
            BY <4>5, <4>6, <5>1
        <4>8. Changing(u)' = {}
          BY <3>2, <4>1 DEF ChangePc, HaltPc
        <4> QED
          BY <2>2, <4>7, <4>8 DEF Sound
      <3> QED
        BY <1>0, <3>3, <3>4, <3>5
    <2> QED
      BY <2>1, <2>2
  <1> QED
    BY <1>5, <1>6, <1>7 DEF TerminalInv

\* Inside halt(): the FILE goes before the pointer, the pointer before the xterm.
LEMMA HaltInv ==
    ASSUME TypeOK, TypeOK', TerminalInv, NEW x \in Threads, Halts(x), UNCHANGED programVars
    PROVE  TerminalInv'
  <1>a. PICK u \in Terminals : u = on[x]
    BY Paths, Working DEF Halts, WorkPc, ChangePc, HaltPc
  <1>1. PICK l \in HaltPc :
          /\ Moved(x, l, u, at[x])
          /\ \/ HaltLock(x) /\ pc[x] = "ha_lock" /\ l = "ha_close"
             \/ HaltClose(x) /\ pc[x] = "ha_close" /\ l = "ha_null"
             \/ HaltNull(x) /\ pc[x] = "ha_null" /\ l = "ha_kill"
    BY <1>a, Paths DEF Halts, HaltPc
  <1>2. /\ pc'[x] = l /\ on'[x] = u
        /\ \A y \in Threads \ {x} : pc'[y] = pc[y] /\ on'[y] = on[y] /\ at'[y] = at[y]
    BY <1>1, MovedTo
  <1>3. /\ UNCHANGED <<legacy, born, xterm_pid, term, alive, unopened>> /\ crossed \subseteq crossed'
        /\ files' \in {files, files \ {fh[u]}}
        /\ fh' \in {fh, [fh EXCEPT ![u] = NoFile]}
    BY <1>a DEF Halts, HaltLock, HaltClose, HaltNull, Cross, nodeVars, sessionVars
  <1>4. Owned'
    <2>1. \A t \in Terminals : fh'[t] \in {fh[t], NoFile}
      BY <1>3 DEF TypeOK, TerminalType, NodeType
    <2> QED
      BY <1>1, <1>3, <2>1, OwnedMove DEF TerminalInv, FilePc, HaltPc
  <1>5. Born'
    BY <1>a, <1>1, <1>3, BornMove DEF TerminalInv, ChangePc, HaltPc
  <1>6. ASSUME NEW t \in Terminals \ crossed' PROVE Sound(t)'
    <2>0. Sound(t)
      BY <1>3, <1>6 DEF TerminalInv
    <2>1. CASE t # u
      <3>1. fh'[t] = fh[t]
        BY <1>3, <2>1 DEF TypeOK, TerminalType, NodeType
      <3>2. \A s \in Made' : term'[s] = t => (s \in files' <=> s \in files)
        <4>1. NoFile \notin files
          BY DEF TypeOK, TerminalType, SessionType, Made, NoFile
        <4>2. fh[u] # NoFile => term[fh[u]] = u
          BY DEF TerminalInv, Owned
        <4> QED
          BY <1>3, <2>1, <4>1, <4>2 DEF Made, NoFile
      <3>3. Same(t)
        BY <1>3, <3>1, <3>2 DEF Same, Made
      <3>4. SameChanging(t)
        BY <1>a, <1>1, <2>1, ChangingElsewhere
      <3> QED
        BY <2>0, <3>3, <3>4, SameSound DEF TerminalInv
    <2>2. CASE t = u
      <3>1. Changing(u) \subseteq {x}
        <4>1. CASE HaltLock(x)
          BY <1>a, <1>6, <2>2, <4>1 DEF HaltLock, Cross
        <4>2. CASE pc[x] \in HaltPc
          <5>1. x \in Changing(u)
            BY <1>a, <4>2 DEF Changing, ChangePc
          <5> QED
            BY <2>0, <2>2, <5>1 DEF Sound
        <4> QED
          BY <1>1, <4>1, <4>2 DEF HaltPc
      <3>2. Changing(u)' = {x}
        BY <1>1, <3>1, ChangingTo DEF ChangePc
      <3>3. CASE HaltLock(x)
        <4>1. Changing(u) = {} /\ l = "ha_close"
          BY <1>1, <3>1, <3>3 DEF Changing, ChangePc, HaltPc, HaltLock
        <4>2. OwnFile(u) /\ Xterms(u) /\ UNCHANGED <<fh, files>>
          BY <2>0, <2>2, <3>3, <4>1 DEF Sound, Settled, HaltLock, nodeVars, sessionVars
        <4>3. OwnFile(u)' /\ Xterms(u)'
          BY <1>3, <4>2 DEF OwnFile, Xterms, Forgotten, Made
        <4>4. Changed(u, x)'
          BY <1>2, <4>1, <4>3 DEF Changed
        <4> QED
          BY <2>2, <3>2, <4>4 DEF Sound
      <3>4. CASE HaltClose(x)
        <4>1. pc[x] = "ha_close" /\ l = "ha_null" /\ files' = files \ {fh[u]}
          BY <1>a, <1>1, <3>4 DEF HaltClose
        <4>2. OwnFile(u) /\ Xterms(u)
          <5>1. x \in Changing(u)
            BY <1>a, <4>1 DEF Changing, ChangePc, HaltPc
          <5> QED
            BY <2>0, <2>2, <4>1, <5>1 DEF Sound, Changed
        <4>3. NoFiles(u)' /\ Xterms(u)'
          BY <1>3, <4>1, <4>2 DEF OwnFile, NoFiles, Xterms, Forgotten, Made
        <4>4. Changed(u, x)'
          BY <1>2, <4>1, <4>3 DEF Changed
        <4> QED
          BY <2>2, <3>2, <4>4 DEF Sound
      <3>5. CASE HaltNull(x)
        <4>1. /\ pc[x] = "ha_null" /\ l = "ha_kill"
              /\ fh' = [fh EXCEPT ![u] = NoFile] /\ files' = files
          BY <1>a, <1>1, <3>5 DEF HaltNull, sessionVars
        <4>2. NoFiles(u) /\ Xterms(u)
          <5>1. x \in Changing(u)
            BY <1>a, <4>1 DEF Changing, ChangePc, HaltPc
          <5> QED
            BY <2>0, <2>2, <4>1, <5>1 DEF Sound, Changed
        <4>3. NoFiles(u)' /\ Xterms(u)' /\ fh'[u] = NoFile
          BY <1>3, <4>1, <4>2 DEF NoFiles, Xterms, Forgotten, Made, TypeOK, TerminalType, NodeType
        <4>4. Changed(u, x)'
          BY <1>2, <4>1, <4>3 DEF Changed
        <4> QED
          BY <2>2, <3>2, <4>4 DEF Sound
      <3> QED
        BY <1>1, <3>3, <3>4, <3>5
    <2> QED
      BY <2>1, <2>2
  <1> QED
    BY <1>4, <1>5, <1>6 DEF TerminalInv

\* When halt() returns nothing is left of the terminal.
LEMMA ReturnInv ==
    ASSUME TypeOK, TypeOK', TerminalInv, NEW x \in Threads, HaltReturn(x)
    PROVE  TerminalInv'
  <1>a. PICK u \in Terminals : u = on[x]
    BY ReturnEffects, Working DEF WorkPc, ChangePc, HaltPc
  <1>1. PICK l \in {"idle", "wr"}, v \in {NoFile, at[x]} : Moved(x, l, NoTerminal, v)
    BY ReturnEffects
  <1>2. /\ UNCHANGED <<legacy, born, fh, term, files, unopened, crossed>> /\ pc[x] = "ha_kill"
        /\ alive' = Spared(u) /\ alive' \subseteq alive \ {xterm_pid[u]}
        /\ xterm_pid' = [xterm_pid EXCEPT ![u] = NoPid]
    BY <1>a, ReturnEffects DEF Kill, Spared
  <1>3. Owned'
    <2>1. \A y \in Threads : pc'[y] \in FilePc => pc[y] \in FilePc /\ at'[y] = at[y] /\ on'[y] = on[y]
      BY <1>1, MovedTo DEF FilePc
    <2>2. NoPid \notin Made
      BY DEF TypeOK, TerminalType, SessionType, Made, NoPid
    <2>3. \A t \in Terminals : xterm_pid'[t] \in {NoPid, xterm_pid[t]}
      BY <1>2 DEF TypeOK, TerminalType, NodeType
    <2> QED
      BY <1>2, <2>1, <2>2, <2>3 DEF TerminalInv, Owned, Made
  <1>4. Born'
    BY <1>1, <1>2, BornMove DEF TerminalInv, ChangePc, HaltPc
  <1>5. ASSUME NEW t \in Terminals \ crossed' PROVE Sound(t)'
    <2>0. Sound(t)
      BY <1>2, <1>5 DEF TerminalInv
    <2>1. CASE t # u
      <3>1. Same(t)
        BY <1>2, <2>1 DEF Same, Made, TypeOK, TerminalType, NodeType
      <3>2. SameChanging(t)
        BY <1>a, <1>1, <2>1, ChangingElsewhere DEF ChangePc, HaltPc
      <3> QED
        BY <2>0, <3>1, <3>2, SameSound DEF TerminalInv
    <2>2. CASE t = u
      <3>1. x \in Changing(u)
        BY <1>a, <1>2 DEF Changing, ChangePc, HaltPc
      <3>2. Changing(u) = {x} /\ fh[u] = NoFile /\ NoFiles(u) /\ Xterms(u)
        BY <1>2, <2>0, <2>2, <3>1 DEF Sound, Changed
      <3>3. Changing(u)' = {}
        BY <1>1, <3>2, ChangingTo DEF ChangePc, HaltPc
      <3>6. ASSUME NEW s \in alive', term'[s] = u
            PROVE  ~legacy /\ s \in unopened /\ \E r \in Made : r > s /\ term[r] = u
        <4>1. s \in alive /\ s # xterm_pid[u] /\ xterm_pid[u] # ForkFailed /\ term[s] = u
          BY <1>2, <3>6 DEF Spared
        <4>2. Forgotten(s)
          BY <3>2, <4>1 DEF Xterms
        <4> QED
          BY <4>1, <4>2 DEF Forgotten
      <3>4. Bare(u)' /\ OwnFile(u)'
        BY <1>2, <3>2, <3>6 DEF Bare, NoFiles, OwnFile
      <3>7. Xterms(u)' /\ (legacy' => Gone(u)')
        BY <1>2, <3>6 DEF Xterms, Forgotten, Gone, Made
      <3>5. Settled(u)'
        BY <3>4, <3>7 DEF Settled, Bare
      <3> QED
        BY <2>2, <3>3, <3>5 DEF Sound
    <2> QED
      BY <2>1, <2>2
  <1> QED
    BY <1>3, <1>4, <1>5 DEF TerminalInv

\* A pump changes what it works on; of v0, at the end of file, it begins to halt.
LEMMA PumpInv ==
    ASSUME TypeOK, TypeOK', TerminalInv, NEW p \in Pumps, Start(p) \/ LegacyStart(p) \/ PumpStep(p)
    PROVE  TerminalInv'
  <1>0. p \in Threads /\ p \notin Controllers
    BY ThreadAssumption DEF Threads
  <1>1. Effects(p)
    BY PumpEffects
  <1>2. UNCHANGED <<legacy, born, fh, xterm_pid, term, files, alive, unopened>> /\ pc[p] \in PumpPc /\ crossed \subseteq crossed'
    BY <1>1 DEF Effects, sameVars, nodeVars, sessionVars, Rests, Takes, Quits, Cross
  <1>3. PICK l, u, v : /\ Moved(p, l, u, v)
                       /\ l \in PumpPc \cup {"ha_lock", "ha_close"}
                       /\ l \in FilePc => u \in Terminals /\ fh[u] # NoFile /\ v = fh[u]
                       /\ l = "ha_close" => Quits(p) /\ u = on[p]
    <2>1. CASE Rests(p)
      BY <2>1 DEF Rests, PumpPc
    <2>2. CASE Takes(p)
      BY <2>2 DEF Takes, PumpPc
    <2>3. CASE Quits(p)
      BY <2>3 DEF Quits, FilePc
    <2> QED
      BY <1>1, <2>1, <2>2, <2>3 DEF Effects
  <1>4. Owned'
    <2>1. l \in FilePc => term[v] = u
      BY <1>3 DEF TerminalInv, Owned
    <2> QED
      BY <1>0, <1>2, <1>3, <2>1, OwnedMove DEF TerminalInv
  <1>5. Born'
    BY <1>0, <1>2, <1>3, BornMove DEF TerminalInv, PumpPc
  <1>6. ASSUME NEW t \in Terminals \ crossed' PROVE Sound(t)'
    <2>1. Sound(t) /\ Same(t)
      BY <1>2, <1>6 DEF TerminalInv, Same, Made
    <2>2. CASE l # "ha_close" \/ t # u
      <3>1. SameChanging(t)
        BY <1>0, <1>2, <1>3, <2>2, ChangingElsewhere DEF PumpPc, ChangePc, HaltPc
      <3> QED
        BY <2>1, <3>1, SameSound DEF TerminalInv
    <2>3. CASE l = "ha_close" /\ t = u
      <3>1. Changing(t) = {} /\ Changing(t)' = {p}
        <4>1. Changing(t) \ {p} = {}
          BY <1>3, <1>6, <2>3 DEF Quits, Cross
        <4> QED
          BY <1>0, <1>2, <1>3, <2>3, <4>1, ChangingTo DEF Changing, PumpPc, ChangePc, HaltPc
      <3>2. OwnFile(t)' /\ Xterms(t)'
        BY <2>1, <3>1, SamePredicates DEF Sound, Settled, TerminalInv
      <3>3. Changed(t, p)'
        BY <1>0, <1>3, <2>3, <3>2, MovedTo DEF Changed
      <3> QED
        BY <3>1, <3>3 DEF Sound
    <2> QED
      BY <2>2, <2>3
  <1> QED
    BY <1>4, <1>5, <1>6 DEF TerminalInv

\* Lines that are typed, xterms that go and containers that fill matter to
\* nobody who opens or halts.
LEMMA OtherInv ==
    ASSUME TypeOK, TypeOK', TerminalInv,
           UNCHANGED <<legacy, nodeVars, term, files, unopened, pc, on, at, crossed>>, alive' \subseteq alive
    PROVE  TerminalInv'
  <1>1. Owned' /\ Born'
    BY DEF TerminalInv, Owned, Born, Busy, Made, nodeVars
  <1>2. ASSUME NEW t \in Terminals \ crossed' PROVE Sound(t)'
    <2>1. Sound(t)
      BY <1>2 DEF TerminalInv
    <2>2. Same(t) /\ SameChanging(t)
      BY DEF Same, SameChanging, Changing, Made, nodeVars
    <2> QED
      BY <2>1, <2>2, SameSound DEF TerminalInv
  <1> QED
    BY <1>1, <1>2 DEF TerminalInv

\* So every step preserves TerminalInv,
LEMMA TerminalInvStep ==
    ASSUME TypeOK, TypeOK', TerminalInv, [Next]_vars
    PROVE  TerminalInv'
  <1>1. CASE UNCHANGED vars
    BY <1>1, OtherInv DEF vars, terminalVars, sessionVars
  <1>2. ASSUME NEW s \in Sessions, Uses(s) PROVE TerminalInv'
    BY <1>2, OtherInv DEF Uses, Type, Leave, sessionVars
  <1>3. CASE Produce \/ CloseContainer
    BY <1>3, OtherInv DEF Produce, CloseContainer, boxRest, terminalVars, sessionVars
  <1> QED
    BY <1>1, <1>2, <1>3, Movers, BeginInv, OpenInv, HaltInv, ReturnInv, PumpInv

\* which holds at the start.
LEMMA TerminalInvInit == Init => TerminalInv
  <1> SUFFICES ASSUME Init PROVE TerminalInv
    OBVIOUS
  <1>1. /\ \A x \in Threads : pc[x] = "idle"
        /\ \A t \in Terminals : fh[t] = NoFile /\ xterm_pid[t] = NoPid
        /\ files = {} /\ alive = {} /\ born = {} /\ Made = {}
    BY DEF Init, TerminalInit, Made
  <1>2. Owned
    BY <1>1 DEF Owned, FilePc
  <1>3. Born
    BY <1>1 DEF Born, Busy, Threads, ChangePc, HaltPc
  <1>4. ASSUME NEW t \in Terminals PROVE Sound(t)
    <2>1. Changing(t) = {}
      BY <1>1 DEF Changing, ChangePc, HaltPc
    <2>2. Settled(t)
      BY <1>1 DEF Settled, OwnFile, Xterms, Bare, NoFiles, Gone
    <2> QED
      BY <2>1, <2>2 DEF Sound
  <1> QED
    BY <1>2, <1>3, <1>4 DEF TerminalInv

\* Unless an open met another open or a halt of the same terminal, no FILE
\* outlives the terminal's knowledge of it, and no xterm but one that open()
\* forgets: of a session without a FILE, when it forks once more
\* (TerminalNode.cc, open(), halt(); TerminalStream.cc).
THEOREM NoOrphanCorrect == Spec => []NoOrphan
  <1>1. TypeOK /\ TerminalInv /\ [Next]_vars => TypeOK' /\ TerminalInv'
    BY TypeStep, TypeStutter, TerminalInvStep
  <1>2. TypeOK /\ TerminalInv => NoOrphan
    <2>1. SUFFICES ASSUME TypeOK, TerminalInv, NEW s \in Made, term[s] \notin crossed
                   PROVE  /\ s \in files => fh[term[s]] = s
                          /\ s \in alive /\ ~Forgotten(s) => xterm_pid[term[s]] = s
      BY DEF NoOrphan
    <2>2. PICK t \in Terminals : t = term[s]
      BY <2>1 DEF TypeOK, TerminalType, SessionType, Made
    <2>3. Sound(t)
      BY <2>1, <2>2 DEF TerminalInv
    <2>4. CASE Changing(t) = {}
      BY <2>2, <2>3, <2>4 DEF Sound, Settled, OwnFile, Xterms
    <2>5. ASSUME NEW x \in Changing(t) PROVE (s \in files => fh[t] = s) /\ (s \in alive /\ ~Forgotten(s) => xterm_pid[t] = s)
      <3>1. Changed(t, x) /\ pc[x] \in ChangePc
        BY <2>3 DEF Sound, Changing
      <3> QED
        BY <2>2, <3>1 DEF Changed, ChangePc, HaltPc, Bare, NoFiles, OwnFile, Xterms
    <2> QED
      BY <2>2, <2>4, <2>5
  <1> QED
    BY <1>1, <1>2, InitType, TerminalInvInit, PTL DEF Spec

-----------------------------------------------------------------------------
(* Memory: who may use a FILE that is closed.                               *)

\* Whoever is in stdio has a FILE that is open, unless the terminal was opened
\* or halted under somebody; and only a use of one that is not ends the program.
InUse == \A x \in Threads : pc[x] \in {"rd_gets", "wr_print"} /\ on[x] \notin crossed \cup cut => at[x] \in files
MemoryInv == InUse /\ Unharmed

\* A step that closes no FILE and sends no thread to one that is closed.
LEMMA MemoryKept ==
    ASSUME MemoryInv, files \subseteq files', crossed \subseteq crossed', cut \subseteq cut',
           ended' = "memory" => ended = "memory",
           \A x \in Threads : /\ pc'[x] \in {"rd_gets", "wr_print"} /\ on'[x] \notin crossed' \cup cut'
                              => \/ at'[x] \in files'
                                 \/ pc[x] \in {"rd_gets", "wr_print"} /\ on'[x] = on[x] /\ at'[x] = at[x]
    PROVE  MemoryInv'
  BY DEF MemoryInv, InUse, Unharmed

\* The steps of one thread that close nothing.
LEMMA MemoryMove ==
    ASSUME TypeOK, MemoryInv, NEW x \in Threads, NEW l, NEW u, NEW v, Moved(x, l, u, v),
           l \notin {"rd_gets", "wr_print"}, files \subseteq files', crossed \subseteq crossed', cut \subseteq cut',
           ended' = "memory" => ended = "memory"
    PROVE  MemoryInv'
  BY MovedTo, MemoryKept

\* The step that matters is fclose(): whoever is in stdio then is counted in cut.
LEMMA MemoryStep ==
    ASSUME TypeOK, TerminalInv, MemoryInv, [Next]_vars
    PROVE  MemoryInv'
  <1>1. CASE UNCHANGED vars
    BY <1>1, MemoryKept DEF vars, terminalVars, sessionVars
  <1>2. ASSUME NEW c \in Controllers, NEW t \in Terminals, Begins(c, t) PROVE MemoryInv'
    <2>1. c \in Threads /\ UNCHANGED <<files, cut, ended>> /\ crossed \subseteq crossed'
      BY <1>2 DEF Threads, Begins, OpenBegin, CloseBegin, Construct, Drop, sessionVars, Cross
    <2>2. PICK l \in {"op_fork", "ha_lock", "ha_close"} : Moved(c, l, t, at[c])
      BY <1>2, <2>1, Paths DEF Begins
    <2> QED
      BY <2>1, <2>2, MemoryMove
  <1>3. ASSUME NEW x \in Threads, Opens(x) PROVE MemoryInv'
    <2>1. UNCHANGED <<crossed, cut, ended>> /\ files \subseteq files'
      BY <1>3, OpenEffects DEF Forks, ForkFails, Fopens
    <2>2. PICK l, t, v : l \in {"op_fopen", "idle"} /\ Moved(x, l, t, v)
      BY <1>3, OpenEffects DEF Forks, ForkFails, Fopens
    <2> QED
      BY <2>1, <2>2, MemoryMove
  <1>4. ASSUME NEW x \in Threads, HaltLock(x) \/ HaltNull(x) PROVE MemoryInv'
    <2>1. UNCHANGED <<files, cut, ended>> /\ crossed \subseteq crossed'
      BY <1>4 DEF HaltLock, HaltNull, sessionVars, Cross
    <2>2. PICK l \in {"ha_close", "ha_kill"} : Moved(x, l, on[x], at[x])
      BY <1>4, Paths
    <2> QED
      BY <2>1, <2>2, MemoryMove
  <1>5. ASSUME NEW x \in Threads, HaltClose(x) PROVE MemoryInv'
    <2>1. PICK u \in Terminals : u = on[x]
      BY <1>5, Paths, Working DEF WorkPc, ChangePc, HaltPc
    <2>2. /\ pc[x] = "ha_close" /\ UNCHANGED <<fh, crossed>>
          /\ files' = files \ {fh[u]}
          /\ cut' = cut \cup {w \in {u} : fh[w] # NoFile /\ Using(w) \ {x} # {}}
          /\ fh[u] \in files \cup {NoFile} \/ ended' \in {ended, "memory"}
          /\ fh[u] \in files \cup {NoFile} => ended' = ended
      BY <1>5, <2>1 DEF HaltClose, nodeVars, Undefined
    <2>3. pc'[x] = "ha_null" /\ \A y \in Threads \ {x} : pc'[y] = pc[y] /\ on'[y] = on[y] /\ at'[y] = at[y]
      BY <1>5, Paths, MovedTo
    <2>4. InUse'
      <3>1. SUFFICES ASSUME NEW y \in Threads, pc'[y] \in {"rd_gets", "wr_print"}, on'[y] \notin crossed' \cup cut'
                     PROVE  at'[y] \in files'
        BY DEF InUse
      <3>2. y # x /\ pc[y] \in {"rd_gets", "wr_print"} /\ on[y] \notin crossed \cup cut' /\ at'[y] = at[y] /\ on'[y] = on[y]
        BY <2>2, <2>3, <3>1
      <3>3. at[y] \in files /\ at[y] \in Made /\ term[at[y]] = on[y]
        BY <2>2, <3>2 DEF MemoryInv, InUse, TerminalInv, Owned, FilePc, TypeOK, TerminalType, ThreadType
      <3>4. at[y] # fh[u]
        <4>1. SUFFICES ASSUME at[y] = fh[u] PROVE FALSE
          OBVIOUS
        <4>2. fh[u] # NoFile
          BY <3>3, <4>1 DEF Made, TypeOK, TerminalType, SessionType, NoFile
        <4>3. on[y] = u
          BY <3>3, <4>1, <4>2 DEF TerminalInv, Owned
        <4>4. y \in Using(u) \ {x}
          BY <3>2, <4>3 DEF Using
        <4> QED
          BY <2>2, <3>2, <4>2, <4>3, <4>4
      <3> QED
        BY <2>2, <3>2, <3>3, <3>4
    <2>5. Unharmed'
      <3>1. CASE u \in crossed
        BY <2>2, <3>1 DEF Unharmed
      <3>2. CASE u \notin crossed
        <4>1. x \in Changing(u)
          BY <2>1, <2>2 DEF Changing, ChangePc, HaltPc
        <4>2. OwnFile(u)
          BY <2>2, <3>2, <4>1 DEF TerminalInv, Sound, Changed
        <4>3. ended' = ended
          BY <2>2, <4>2 DEF OwnFile
        <4> QED
          BY <2>2, <4>3 DEF MemoryInv, Unharmed
      <3> QED
        BY <3>1, <3>2
    <2> QED
      BY <2>4, <2>5 DEF MemoryInv
  <1>6. ASSUME NEW x \in Threads, HaltReturn(x) PROVE MemoryInv'
    <2>1. UNCHANGED <<files, crossed, cut>> /\ (ended' = "memory" => ended = "memory")
      BY <1>6, ReturnEffects DEF Kill
    <2>2. PICK l, v : l \in {"idle", "wr"} /\ Moved(x, l, NoTerminal, v)
      BY <1>6, ReturnMoves
    <2> QED
      BY <2>1, <2>2, MemoryMove
  <1>7. ASSUME NEW p \in Pumps, Start(p) \/ LegacyStart(p) \/ PumpStep(p) PROVE MemoryInv'
    <2>0. p \in Threads
      BY DEF Threads
    <2>1. Effects(p)
      BY <1>7, PumpEffects
    <2>2. UNCHANGED files /\ crossed \subseteq crossed' /\ cut \subseteq cut'
      BY <2>1 DEF Effects, sameVars, sessionVars, Rests, Takes, Quits, Cross
    <2>3. InUse'
      <3>1. CASE Takes(p)
        <4>1. PICK l \in {"rd_gets", "wr_print"}, t \in Terminals : Moved(p, l, t, fh[t]) /\ cut' = cut \cup {w \in {t} : fh[w] \notin files}
          BY <3>1 DEF Takes
        <4>2. on'[p] \notin cut' => at'[p] \in files'
          BY <2>0, <2>2, <4>1, MovedTo
        <4> QED
          BY <2>0, <2>2, <4>1, <4>2, MovedTo DEF MemoryInv, InUse
      <3>2. CASE Rests(p) \/ Quits(p)
        <4>1. PICK l, t, v : Moved(p, l, t, v) /\ l \notin {"rd_gets", "wr_print"}
          BY <3>2 DEF Rests, Quits, FilePc
        <4> QED
          BY <2>0, <2>2, <4>1, MovedTo DEF MemoryInv, InUse
      <3> QED
        BY <2>1, <3>1, <3>2 DEF Effects
    <2>4. Unharmed'
      <3>1. CASE ended' = ended
        BY <2>2, <3>1 DEF MemoryInv, Unharmed
      <3>2. CASE ended' # ended
        <4>1. on[p] \in crossed \cup cut
          BY <2>0, <2>1, <3>2 DEF Effects, MemoryInv, InUse
        <4> QED
          BY <2>2, <4>1 DEF Unharmed
      <3> QED
        BY <3>1, <3>2
    <2> QED
      BY <2>3, <2>4 DEF MemoryInv
  <1>8. ASSUME NEW s \in Sessions, Uses(s) PROVE MemoryInv'
    BY <1>8, MemoryKept DEF Uses, Type, Leave, sessionVars
  <1>9. CASE Produce \/ CloseContainer
    BY <1>9, MemoryKept DEF Produce, CloseContainer, boxRest, terminalVars, sessionVars
  <1> QED
    BY <1>1, <1>2, <1>3, <1>4, <1>5, <1>6, <1>7, <1>8, <1>9, Movers DEF Halts

\* At the start nobody is in stdio.
LEMMA MemoryInvInit == Init => MemoryInv
  BY DEF Init, TerminalInit, MemoryInv, InUse, Unharmed

\* No use of a closed FILE ends the program, unless an open or a halt met another
\* one, a reader or a writer of the same terminal.
THEOREM UnharmedCorrect == Spec => []Unharmed
  <1> DEFINE IInv == TypeOK /\ TerminalInv /\ MemoryInv
  <1>1. Init => IInv
    BY InitType, TerminalInvInit, MemoryInvInit
  <1>2. IInv /\ [Next]_vars => IInv'
    BY TypeStep, TypeStutter, TerminalInvStep, MemoryStep
  <1>3. IInv => Unharmed
    BY DEF MemoryInv
  <1> QED
    BY <1>1, <1>2, <1>3, PTL DEF Spec

-----------------------------------------------------------------------------
(* What a pump makes of a container or a file.                              *)

\* The container holds the youngest items, in order.
QueueInv ==
    /\ Len(queue) <= added
    /\ \A k \in DOMAIN queue : queue[k] = <<0, added - Len(queue) + k>>

\* A pump that empties a container or a file has written all that it was given
\* and does not hold any more, and ends when there is nothing to come.
HasSource(p) == job.kind[p] \in {"container", "file"}
Passed(p) == IF job.kind[p] = "file" THEN rdpos + 1 ELSE added - Len(queue)
Exhausted(p) == IF job.kind[p] = "file" THEN rdpos = MaxLines ELSE closed /\ queue = <<>>
Flow(p) ==
    /\ pc[p] \in {"idle", "up", "co_remove", "wr", "wr_print", "done", "thrown"}
    /\ Len(handed[p]) + Len(val[p]) + 1 - next[p] = Passed(p)
    /\ \A i \in 1..Len(handed[p]) : handed[p][i] = <<0, First(p) + i - 1>>
    /\ \A i \in next[p]..Len(val[p]) : val[p][i] = <<0, First(p) + Len(handed[p]) + i - next[p]>>
    /\ pc[p] \in {"idle", "up", "co_remove", "done"} => val[p] = <<>>
    /\ pc[p] = "done" \/ (pc[p] = "wr" /\ val[p] = <<>>) => Exhausted(p)
FlowInv ==
    /\ QueueInv
    /\ \A p \in Pumps : pc[p] = "co_remove" => job.kind[p] = "container"
    /\ \A p \in Pumps : HasSource(p) => Flow(p)

\* A pump's step is its own: what the others hold is left alone, and only the
\* pump of a container takes from it, only the pump of a file reads it.
LEMMA PumpOwn ==
    ASSUME TypeOK, NEW q \in Pumps, Start(q) \/ LegacyStart(q) \/ PumpStep(q)
    PROVE  /\ \A p \in Pumps \ {q} : /\ pc'[p] = pc[p] /\ val'[p] = val[p] /\ next'[p] = next[p]
                                     /\ handed'[p] = handed[p] /\ (p \in again' <=> p \in again)
           /\ UNCHANGED <<job, added, closed>>
           /\ queue' = queue \/ ContainerCheck(q) \/ ContainerRemove(q)
           /\ rdpos' = rdpos \/ FileUpdate(q)
  <1>0. q \in Threads
    BY DEF Threads
  <1>1. job' = job /\ \A p \in Pumps \ {q} : pc'[p] = pc[p]
    <2>1. \E l, t, v : Moved(q, l, t, v)
      BY PumpEffects DEF Effects, Rests, Takes, Quits
    <2> QED
      BY <1>0, <2>1, PumpEffects, MovedTo DEF Effects, sameVars, Threads
  <1>2. UNCHANGED <<val, next>> \/ (\E vals : Got(q, vals)) \/ PassEnd(q) \/ WritePrint(q)
    BY DEF Receive, Start, LegacyStart, Begin, PumpStep, StringUpdate, StreamUpdate, ReadCheck, ReadGets, UpdateCheck, UpdateGets,
           FileUpdate, ContainerCheck, ContainerRemove, WriteOne, LegacyWriteOne, Moves, pumpVars
  <1>3. UNCHANGED handed \/ WritePrint(q)
    BY DEF Receive, Start, LegacyStart, Begin, PumpStep, StringUpdate, StreamUpdate, ReadCheck, ReadGets, UpdateCheck, UpdateGets,
           FileUpdate, ContainerCheck, ContainerRemove, PassEnd, WriteOne, LegacyWriteOne, sourceRest, pumpVars
  <1>4. /\ UNCHANGED <<added, closed>>
        /\ queue' = queue \/ ContainerCheck(q) \/ ContainerRemove(q)
        /\ rdpos' = rdpos \/ FileUpdate(q)
    BY DEF Receive, Start, LegacyStart, Begin, PumpStep, StringUpdate, StreamUpdate, ReadCheck, ReadGets, UpdateCheck, UpdateGets,
           FileUpdate, ContainerCheck, ContainerRemove, PassEnd, WriteOne, LegacyWriteOne, WritePrint, writeRest, boxVars
  <1>5. val \in [Pumps -> Seq(Lines \cup {Void})] /\ next \in [Pumps -> Nat \ {0}] /\ handed \in [Pumps -> Seq(Lines)]
    BY DEF TypeOK, PumpType
  <1>6. \A p \in Pumps \ {q} : val'[p] = val[p] /\ next'[p] = next[p]
    <2>1. CASE \E vals : Got(q, vals)
      BY <1>5, <2>1 DEF Got
    <2>2. CASE PassEnd(q)
      BY <1>5, <2>2 DEF PassEnd
    <2>3. CASE WritePrint(q)
      BY <1>5, <2>3 DEF WritePrint
    <2> QED
      BY <1>2, <2>1, <2>2, <2>3
  <1>7. \A p \in Pumps \ {q} : handed'[p] = handed[p]
    <2>1. CASE WritePrint(q)
      <3>1. handed' \in {handed, [handed EXCEPT ![q] = Append(handed[q], val[q][next[q]])]}
        BY <1>5, <2>1 DEF WritePrint
      <3> QED
        BY <1>5, <3>1
    <2> QED
      BY <1>3, <2>1
  <1>8. \A p \in Pumps \ {q} : p \in again' <=> p \in again
    BY PumpAgain DEF Receive
  <1> QED
    BY <1>1, <1>4, <1>6, <1>7, <1>8

\* A pump that does not move keeps its account, if its source does.
LEMMA FlowSame ==
    ASSUME TypeOK, NEW p \in Pumps, Flow(p), job' = job,
           pc'[p] = pc[p], val'[p] = val[p], next'[p] = next[p], handed'[p] = handed[p],
           Passed(p)' = Passed(p), Exhausted(p) => Exhausted(p)'
    PROVE  Flow(p)'
  <1>1. First(p)' = First(p)
    BY DEF First
  <1> QED
    BY <1>1 DEF Flow

\* The container: items come at the end and go at the head, or all at once.
LEMMA QueueStep ==
    ASSUME TypeOK, QueueInv, added' = added,
           queue' = queue \/ queue' = <<>> \/ (queue # <<>> /\ queue' = Tail(queue))
    PROVE  QueueInv'
  <1>1. queue \in Seq(Lines) /\ Len(queue) \in Nat /\ added \in Nat
    BY Bounds DEF TypeOK, BoxType
  <1>2. CASE queue' = queue
    BY <1>2 DEF QueueInv
  <1>3. CASE queue' = <<>>
    BY <1>1, <1>3 DEF QueueInv
  <1>4. CASE queue # <<>> /\ queue' = Tail(queue)
    <2>1. Len(queue') = Len(queue) - 1 /\ \A k \in 1..Len(queue') : queue'[k] = queue[k + 1]
      BY <1>1, <1>4
    <2>2. queue' \in Seq(Lines) /\ DOMAIN queue' = 1..Len(queue')
      BY <1>1, <1>4
    <2>3. ASSUME NEW k \in DOMAIN queue' PROVE queue'[k] = <<0, added' - Len(queue') + k>>
      <3>1. k \in Nat /\ k + 1 \in DOMAIN queue /\ queue'[k] = queue[k + 1]
        BY <1>1, <2>1, <2>2, <2>3
      <3>2. queue[k + 1] = <<0, added - Len(queue) + (k + 1)>>
        BY <3>1 DEF QueueInv
      <3>3. added - Len(queue) + (k + 1) = added' - Len(queue') + k
        BY <1>1, <2>1, <3>1
      <3> QED
        BY <3>1, <3>2, <3>3
    <2> QED
      BY <1>1, <2>1, <2>3 DEF QueueInv
  <1> QED
    BY <1>2, <1>3, <1>4

\* What the next value of a source does to its pump's account.
LEMMA FlowGot ==
    ASSUME TypeOK, NEW p \in Pumps, Flow(p), HasSource(p), val[p] = <<>>,
           UNCHANGED <<job, handed>>,
           NEW vals \in Seq(Lines), Got(p, vals),
           Passed(p)' = Passed(p) + Len(vals),
           \A i \in 1..Len(vals) : vals[i] = <<0, First(p) + Passed(p) + i - 1>>,
           vals = <<>> => Exhausted(p)'
    PROVE  Flow(p)'
  <1>1. pc'[p] = "wr" /\ val'[p] = vals /\ next'[p] = 1 /\ handed'[p] = handed[p]
    BY DEF Got, Enter, Goto, TypeOK, PumpType, Threads
  <1>2. next[p] = 1
    <2>1. next[p] \in Nat \ {0} /\ next[p] <= Len(val[p]) + 1 /\ Len(<<>>) = 0
      BY DEF TypeOK, PumpType
    <2> QED
      BY <2>1
  <1>3. Len(handed[p]) = Passed(p) /\ Len(handed[p]) \in Nat
    <2>1. handed[p] \in Seq(Lines)
      BY DEF TypeOK, PumpType
    <2>2. Len(handed[p]) \in Nat /\ Len(handed[p]) + 0 + 1 - 1 = Passed(p)
      BY <1>2, <2>1 DEF Flow
    <2> QED
      BY <2>2
  <1>4. First(p)' = First(p) /\ First(p) \in {0, 1}
    BY DEF First
  <1>5. Len(vals) \in Nat
    OBVIOUS
  <1>6. Len(handed'[p]) + Len(val'[p]) + 1 - next'[p] = Passed(p)'
    BY <1>1, <1>3, <1>5
  <1>7. \A i \in 1..Len(handed'[p]) : handed'[p][i] = <<0, First(p)' + i - 1>>
    BY <1>1, <1>4 DEF Flow
  <1>8. ASSUME NEW i \in next'[p]..Len(val'[p])
        PROVE  val'[p][i] = <<0, First(p)' + Len(handed'[p]) + i - next'[p]>>
    <2>1. i \in 1..Len(vals) /\ val'[p][i] = <<0, First(p) + Passed(p) + i - 1>>
      BY <1>1
    <2> QED
      BY <1>1, <1>3, <1>4, <2>1
  <1> QED
    BY <1>1, <1>6, <1>7, <1>8 DEF Flow

\* The pump's own steps.
LEMMA FlowOwn ==
    ASSUME TypeOK, QueueInv, NEW p \in Pumps, Flow(p), HasSource(p),
           pc[p] = "co_remove" => job.kind[p] = "container",
           Start(p) \/ LegacyStart(p) \/ PumpStep(p)
    PROVE  Flow(p)'
  <1>0. /\ p \in Threads /\ UNCHANGED <<job, added, closed>>
        /\ First(p)' = First(p) /\ First(p) \in {0, 1} /\ HasSource(p)'
        /\ queue \in Seq(Lines) /\ Len(queue) \in Nat /\ added \in Nat /\ rdpos \in -1..MaxLines
        /\ val[p] \in Seq(Lines \cup {Void}) /\ Len(val[p]) \in Nat /\ next[p] \in Nat \ {0} /\ next[p] <= Len(val[p]) + 1
        /\ handed[p] \in Seq(Lines) /\ Len(handed[p]) \in Nat
        /\ <<>> \in Seq(Lines)
    <2>1. UNCHANGED <<job, added, closed>>
      BY PumpOwn
    <2>2. queue \in Seq(Lines) /\ added \in Nat /\ rdpos \in -1..MaxLines
      BY Bounds DEF TypeOK, BoxType
    <2>3. val[p] \in Seq(Lines \cup {Void}) /\ next[p] \in Nat \ {0} /\ next[p] <= Len(val[p]) + 1 /\ handed[p] \in Seq(Lines)
      BY DEF TypeOK, PumpType
    <2> QED
      BY <2>1, <2>2, <2>3 DEF First, HasSource, Threads
  <1>a. Len(handed[p]) + Len(val[p]) + 1 - next[p] = Passed(p)
    BY DEF Flow
  <1>b. /\ Passed(p) \in Int /\ Len(handed[p]) \in Nat /\ Len(val[p]) \in Nat
        /\ next \in [Pumps -> Nat \ {0}] /\ handed \in [Pumps -> Seq(Lines)] /\ val \in [Pumps -> Seq(Lines \cup {Void})]
    BY <1>0 DEF Passed, TypeOK, PumpType
  <1>1. CASE Start(p) \/ LegacyStart(p)
    <2>1. pc[p] = "idle" /\ Enter(p, job.from[p], "up") /\ UNCHANGED <<val, next, handed, queue, rdpos>>
      BY <1>1 DEF Start, LegacyStart, Begin, Pass, pumpVars, boxVars
    <2>2. pc'[p] = "up"
      BY <1>0, <2>1 DEF Enter, Goto, TypeOK, PumpType
    <2>3. Passed(p)' = Passed(p)
      BY <1>0, <2>1 DEF Passed
    <2> QED
      BY <1>0, <2>1, <2>2, <2>3 DEF Flow
  <1>2. CASE FileUpdate(p)
    <2>1. /\ pc[p] = "up" /\ job.kind[p] = "file" /\ val[p] = <<>> /\ handed' = handed
          /\ \/ rdpos < MaxLines /\ rdpos' = rdpos + 1 /\ Got(p, <<<<0, rdpos + 1>>>>)
             \/ rdpos = MaxLines /\ Got(p, <<>>) /\ UNCHANGED rdpos
      BY <1>2 DEF Receive, FileUpdate, sourceRest, Flow
    <2>2. First(p) = 0 /\ Passed(p) = rdpos + 1 /\ Passed(p)' = rdpos' + 1 /\ (Exhausted(p)' <=> rdpos' = MaxLines)
      BY <1>0, <2>1 DEF First, Passed, Exhausted
    <2>3. CASE rdpos < MaxLines /\ rdpos' = rdpos + 1 /\ Got(p, <<<<0, rdpos + 1>>>>)
      <3>1. PICK vals : vals = <<<<0, rdpos + 1>>>>
        OBVIOUS
      <3>2. rdpos + 1 \in 0..MaxLines
        BY <1>0, <2>3, Bounds
      <3>3. vals \in Seq(Lines) /\ Len(vals) = 1 /\ vals[1] = <<0, rdpos + 1>> /\ vals # <<>>
        BY <3>1, <3>2, Bounds DEF Lines
      <3>4. Passed(p)' = Passed(p) + Len(vals)
        BY <2>2, <2>3, <3>3
      <3>5. \A i \in 1..Len(vals) : vals[i] = <<0, First(p) + Passed(p) + i - 1>>
        <4>1. First(p) + Passed(p) + 1 - 1 = rdpos + 1
          BY <1>0, <2>2
        <4> QED
          BY <3>3, <4>1
      <3> QED
        BY <1>0, <2>1, <2>3, <3>1, <3>3, <3>4, <3>5, FlowGot
    <2>4. CASE rdpos = MaxLines /\ Got(p, <<>>) /\ UNCHANGED rdpos
      <3>1. Passed(p)' = Passed(p) + Len(<<>>) /\ \A i \in 1..Len(<<>>) : <<>>[i] = <<0, First(p) + Passed(p) + i - 1>>
        BY <1>0, <2>2, <2>4
      <3>2. Exhausted(p)'
        BY <2>2, <2>4
      <3> QED
        BY <1>0, <2>1, <2>4, <3>1, <3>2, FlowGot
    <2> QED
      BY <2>1, <2>3, <2>4
  <1>3. CASE ContainerCheck(p) \/ ContainerRemove(p)
    <2>1. /\ pc[p] \in {"up", "co_remove"} /\ val[p] = <<>> /\ UNCHANGED <<handed, rdpos>> /\ job.kind[p] = "container"
          /\ \/ closed /\ Got(p, queue) /\ queue' = <<>>
             \/ queue # <<>> /\ Got(p, <<Head(queue)>>) /\ queue' = Tail(queue)
             \/ (Moves(p, "co_remove") \/ Moves(p, "up")) /\ UNCHANGED queue
             \/ Enter(p, NoTerminal, "thrown") /\ UNCHANGED <<val, next, queue>>
      BY <1>3 DEF Receive, ContainerCheck, ContainerRemove, sourceRest, Flow
    <2>2. /\ First(p) = 1 /\ Passed(p) = added - Len(queue) /\ Passed(p)' = added - Len(queue')
          /\ (Exhausted(p)' <=> closed' /\ queue' = <<>>)
      BY <1>0, <2>1 DEF First, Passed, Exhausted
    <2>3. CASE closed /\ Got(p, queue) /\ queue' = <<>>
      <3>1. Passed(p)' = Passed(p) + Len(queue)
        BY <1>0, <2>2, <2>3
      <3>2. ASSUME NEW i \in 1..Len(queue) PROVE queue[i] = <<0, First(p) + Passed(p) + i - 1>>
        <4>1. queue[i] = <<0, added - Len(queue) + i>>
          BY <1>0 DEF QueueInv
        <4>2. First(p) + Passed(p) + i - 1 = added - Len(queue) + i
          BY <1>0, <2>2
        <4> QED
          BY <4>1, <4>2
      <3>3. Exhausted(p)'
        BY <1>0, <2>2, <2>3
      <3> QED
        BY <1>0, <2>1, <2>3, <3>1, <3>2, <3>3, FlowGot
    <2>4. CASE queue # <<>> /\ Got(p, <<Head(queue)>>) /\ queue' = Tail(queue)
      <3>1. PICK vals : vals = <<Head(queue)>>
        OBVIOUS
      <3>2. Head(queue) = queue[1] /\ queue[1] \in Lines /\ Len(Tail(queue)) = Len(queue) - 1 /\ 1 \in DOMAIN queue
        BY <1>0, <2>4
      <3>3. vals \in Seq(Lines) /\ Len(vals) = 1 /\ vals[1] = queue[1] /\ vals # <<>>
        BY <3>1, <3>2
      <3>4. Passed(p)' = Passed(p) + Len(vals)
        BY <1>0, <2>2, <2>4, <3>2, <3>3
      <3>5. vals[1] = <<0, First(p) + Passed(p) + 1 - 1>>
        <4>1. queue[1] = <<0, added - Len(queue) + 1>>
          BY <3>2 DEF QueueInv
        <4>2. First(p) + Passed(p) + 1 - 1 = added - Len(queue) + 1
          BY <1>0, <2>2
        <4> QED
          BY <3>3, <4>1, <4>2
      <3>6. \A i \in 1..Len(vals) : vals[i] = <<0, First(p) + Passed(p) + i - 1>>
        BY <3>3, <3>5
      <3> QED
        BY <1>0, <2>1, <2>4, <3>1, <3>3, <3>4, <3>6, FlowGot
    <2>5. CASE (Moves(p, "co_remove") \/ Moves(p, "up")) /\ UNCHANGED queue
      <3>1. pc'[p] \in {"co_remove", "up"} /\ UNCHANGED <<val, next>>
        BY <1>0, <2>5 DEF Moves, Enter, Goto, TypeOK, PumpType
      <3> QED
        BY <1>0, <2>1, <2>2, <2>5, <3>1 DEF Flow
    <2>6. CASE Enter(p, NoTerminal, "thrown") /\ UNCHANGED <<val, next, queue>>
      <3>1. pc'[p] = "thrown"
        BY <1>0, <2>6 DEF Enter, Goto, TypeOK, PumpType
      <3> QED
        BY <1>0, <2>1, <2>2, <2>6, <3>1 DEF Flow
    <2> QED
      BY <2>1, <2>3, <2>4, <2>5, <2>6
  <1>4. CASE PassEnd(p)
    <2>1. /\ pc[p] = "wr" /\ next[p] > Len(val[p]) /\ UNCHANGED <<handed, queue, rdpos>>
          /\ val' = [val EXCEPT ![p] = <<>>] /\ next' = [next EXCEPT ![p] = 1]
          /\ pc' \in {[pc EXCEPT ![p] = "up"], [pc EXCEPT ![p] = "done"]}
          /\ pc' = [pc EXCEPT ![p] = "done"] => val[p] = <<>>
      <3>1. job.kind[p] # "stream" /\ job.kind[p] # "string"
        BY DEF HasSource
      <3>2. pc[p] = "wr" /\ next[p] > Len(val[p]) /\ UNCHANGED <<handed, queue, rdpos>>
            /\ val' = [val EXCEPT ![p] = <<>>] /\ next' = [next EXCEPT ![p] = 1]
        BY <1>4, <3>1 DEF PassEnd, writeRest, boxVars
      <3>3. pc' = IF val[p] = <<>> THEN [pc EXCEPT ![p] = "done"] ELSE [pc EXCEPT ![p] = "up"]
        BY <1>4, <3>1 DEF PassEnd, Pass, Enter, Goto
      <3>4. pc'[p] = IF val[p] = <<>> THEN "done" ELSE "up"
        BY <1>0, <3>3 DEF TypeOK, PumpType
      <3>5. [pc EXCEPT ![p] = "done"][p] = "done"
        BY <1>0 DEF TypeOK, PumpType
      <3> QED
        BY <3>2, <3>3, <3>4, <3>5
    <2>2. pc'[p] \in {"up", "done"} /\ (pc'[p] = "done" => val[p] = <<>>)
      BY <1>0, <2>1 DEF TypeOK, PumpType
    <2>3. val'[p] = <<>> /\ next'[p] = 1 /\ Len(<<>>) = 0
      BY <2>1 DEF TypeOK, PumpType
    <2>4. Passed(p)' = Passed(p) /\ (Exhausted(p) => Exhausted(p)')
      BY <1>0, <2>1 DEF Passed, Exhausted
    <2>5. Len(handed[p]) = Passed(p)
      <3>1. next[p] <= Len(val[p]) + 1 /\ next[p] > Len(val[p])
        BY <1>0, <2>1
      <3> QED
        BY <1>a, <1>b, <3>1
    <2>6. Len(handed'[p]) + Len(val'[p]) + 1 - next'[p] = Passed(p)'
      BY <1>0, <2>1, <2>3, <2>4, <2>5
    <2>7. \A i \in next'[p]..Len(val'[p]) : val'[p][i] = <<0, First(p)' + Len(handed'[p]) + i - next'[p]>>
      BY <2>3
    <2>8. pc'[p] = "done" => Exhausted(p)'
      BY <2>1, <2>2, <2>4 DEF Flow
    <2> QED
      BY <1>0, <2>1, <2>2, <2>3, <2>6, <2>7, <2>8 DEF Flow
  <1>5. CASE WriteOne(p) \/ LegacyWriteOne(p)
    <2>1. /\ pc[p] = "wr" /\ next[p] <= Len(val[p]) /\ UNCHANGED <<val, next, handed, queue, rdpos>>
          /\ pc' \in {[pc EXCEPT ![p] = "thrown"], [pc EXCEPT ![p] = "wr_print"]}
      BY <1>5 DEF WriteOne, LegacyWriteOne, NotOpen, TakeFile, Enter, Goto, writeRest, boxVars, pumpVars
    <2>2. pc'[p] \in {"thrown", "wr_print"}
      BY <1>0, <2>1 DEF TypeOK, PumpType
    <2>3. Passed(p)' = Passed(p)
      BY <1>0, <2>1 DEF Passed
    <2> QED
      BY <1>0, <2>1, <2>2, <2>3 DEF Flow
  <1>6. CASE WritePrint(p)
    <2>1. /\ pc[p] = "wr_print" /\ UNCHANGED <<val, queue, rdpos>>
          /\ next' = [next EXCEPT ![p] = @ + 1]
          /\ handed' = IF MayRepeat(p, val[p][next[p]]) THEN handed ELSE [handed EXCEPT ![p] = Append(@, val[p][next[p]])]
          /\ pc' = [pc EXCEPT ![p] = "wr"]
      BY <1>6 DEF WritePrint, Enter, Goto, writeRest, boxVars
    <2>2. next[p] \in 1..Len(val[p])
      BY <1>0, <2>1 DEF TypeOK, PumpType
    <2>3. PICK l : l = val[p][next[p]]
      OBVIOUS
    <2>4. l = <<0, First(p) + Len(handed[p])>>
      <3>1. next[p] \in next[p]..Len(val[p]) /\ First(p) + Len(handed[p]) + next[p] - next[p] = First(p) + Len(handed[p])
        BY <1>0, <2>2
      <3> QED
        BY <2>3, <3>1 DEF Flow
    <2>5. ~MayRepeat(p, l)
      <3>1. ASSUME handed[p] # <<>> PROVE handed[p][Len(handed[p])] # l
        <4>1. Len(handed[p]) \in 1..Len(handed[p])
          BY <1>0, <3>1
        <4>2. handed[p][Len(handed[p])] = <<0, First(p) + Len(handed[p]) - 1>>
          BY <4>1 DEF Flow
        <4>3. First(p) + Len(handed[p]) - 1 # First(p) + Len(handed[p])
          BY <1>0
        <4> QED
          BY <2>4, <4>2, <4>3
      <3> QED
        BY <3>1 DEF MayRepeat
    <2>6. handed'[p] = Append(handed[p], l) /\ next'[p] = next[p] + 1 /\ pc'[p] = "wr"
      BY <1>0, <2>1, <2>3, <2>5 DEF TypeOK, PumpType
    <2>7. /\ Len(handed'[p]) = Len(handed[p]) + 1 /\ handed'[p][Len(handed[p]) + 1] = l
          /\ \A i \in 1..Len(handed[p]) : handed'[p][i] = handed[p][i]
      BY <1>0, <2>6
    <2>8. Passed(p)' = Passed(p)
      BY <1>0, <2>1 DEF Passed
    <2>9. Len(handed'[p]) + Len(val'[p]) + 1 - next'[p] = Passed(p)'
      <3>1. /\ Len(handed'[p]) = Len(handed[p]) + 1 /\ Len(val'[p]) = Len(val[p])
            /\ next'[p] = next[p] + 1 /\ Passed(p)' = Passed(p)
        BY <2>1, <2>6, <2>7, <2>8
      <3>2. Len(handed[p]) + 1 + Len(val[p]) + 1 - (next[p] + 1) = Len(handed[p]) + Len(val[p]) + 1 - next[p]
        BY <1>b
      <3> QED
        BY <1>a, <3>1, <3>2
    <2>10. ASSUME NEW i \in 1..Len(handed'[p]) PROVE handed'[p][i] = <<0, First(p)' + i - 1>>
      <3>1. CASE i \in 1..Len(handed[p])
        BY <1>0, <2>7, <3>1 DEF Flow
      <3>2. CASE i = Len(handed[p]) + 1
        <4>1. First(p) + i - 1 = First(p) + Len(handed[p])
          BY <1>0, <3>2
        <4> QED
          BY <1>0, <2>4, <2>7, <3>2, <4>1
      <3> QED
        BY <1>0, <2>7, <3>1, <3>2
    <2>11. ASSUME NEW i \in next'[p]..Len(val'[p])
           PROVE  val'[p][i] = <<0, First(p)' + Len(handed'[p]) + i - next'[p]>>
      <3>1. i \in next[p]..Len(val[p]) /\ val'[p][i] = val[p][i]
        BY <1>0, <2>1, <2>6, <2>11
      <3>2. val[p][i] = <<0, First(p) + Len(handed[p]) + i - next[p]>>
        BY <3>1 DEF Flow
      <3>3. First(p) + Len(handed[p]) + i - next[p] = First(p)' + Len(handed'[p]) + i - next'[p]
        <4>1. Len(handed'[p]) = Len(handed[p]) + 1 /\ next'[p] = next[p] + 1 /\ i \in Int
          BY <1>0, <2>6, <2>7, <3>1
        <4>2. First(p)' = First(p) /\ First(p) \in Int
          BY <1>0
        <4> QED
          BY <1>b, <4>1, <4>2
      <3> QED
        BY <3>1, <3>2, <3>3
    <2>12. val'[p] # <<>>
      BY <1>0, <2>1, <2>2
    <2> QED
      BY <2>6, <2>9, <2>10, <2>11, <2>12 DEF Flow
  <1>7. Start(p) \/ LegacyStart(p) \/ FileUpdate(p) \/ ContainerCheck(p) \/ ContainerRemove(p)
        \/ PassEnd(p) \/ WriteOne(p) \/ LegacyWriteOne(p) \/ WritePrint(p)
    BY DEF Receive, PumpStep, StringUpdate, StreamUpdate, ReadCheck, ReadGets, UpdateCheck, UpdateGets, HasSource, Flow
  <1> QED
    BY <1>1, <1>2, <1>3, <1>4, <1>5, <1>6, <1>7

\* A container has one pump, and so has a file.
OneSource ==
    \A j \in Jobs : \A p, q \in Pumps :
        j.kind[p] \in {"container", "file"} /\ j.kind[p] = j.kind[q] => p = q

\* What is not a step of a pump leaves the sources and the pumps on them alone.
LEMMA FlowRest ==
    ASSUME TypeOK, FlowInv, UNCHANGED <<job, boxVars, handed>>,
           NEW x \in Threads, NEW l \in ChangePc \cup {"idle", "ha_lock", "wr"}, NEW t, NEW v, Moved(x, l, t, v),
           x \in Controllers \/ pc[x] \in ChangePc \cup {"ha_lock"},
           \A p \in Pumps \ {x} : val'[p] = val[p] /\ next'[p] = next[p]
    PROVE  FlowInv'
  <1>1. QueueInv'
    BY DEF FlowInv, QueueInv, boxVars
  <1>2. \A p \in Pumps : pc'[p] = "co_remove" => job'.kind[p] = "container"
    BY MovedTo DEF FlowInv, Threads, ChangePc, HaltPc
  <1>3. ASSUME NEW p \in Pumps, HasSource(p)' PROVE Flow(p)'
    <2>1. HasSource(p) /\ Flow(p)
      BY <1>3 DEF FlowInv, HasSource
    <2>2. p # x
      BY <2>1, ThreadAssumption DEF Flow, ChangePc, HaltPc
    <2>3. pc'[p] = pc[p] /\ val'[p] = val[p] /\ next'[p] = next[p] /\ handed'[p] = handed[p]
      BY <2>2, MovedTo DEF Threads
    <2>4. Passed(p)' = Passed(p) /\ Exhausted(p)' = Exhausted(p)
      BY DEF Passed, Exhausted, boxVars
    <2> QED
      BY <2>1, <2>3, <2>4, FlowSame
  <1> QED
    BY <1>1, <1>2, <1>3 DEF FlowInv

\* A pump's step leaves the accounts of the others alone.
LEMMA FlowPump ==
    ASSUME OneSource, TypeOK, FlowInv, NEW q \in Pumps, Start(q) \/ LegacyStart(q) \/ PumpStep(q)
    PROVE  FlowInv'
  <1>0. /\ \A p \in Pumps \ {q} : pc'[p] = pc[p] /\ val'[p] = val[p] /\ next'[p] = next[p] /\ handed'[p] = handed[p]
        /\ UNCHANGED <<job, added, closed>>
        /\ queue' = queue \/ ContainerCheck(q) \/ ContainerRemove(q)
        /\ rdpos' = rdpos \/ FileUpdate(q)
    BY PumpOwn
  <1>1. /\ ContainerCheck(q) \/ ContainerRemove(q) => job.kind[q] = "container"
        /\ FileUpdate(q) => job.kind[q] = "file"
    BY DEF Receive, ContainerCheck, ContainerRemove, FileUpdate, FlowInv
  <1>2. QueueInv'
    <2>1. queue' = queue \/ queue' = <<>> \/ (queue # <<>> /\ queue' = Tail(queue))
      BY <1>0 DEF Receive, ContainerCheck, ContainerRemove
    <2> QED
      BY <1>0, <2>1, QueueStep DEF FlowInv
  <1>3. ASSUME NEW p \in Pumps, pc'[p] = "co_remove" PROVE job'.kind[p] = "container"
    <2>1. CASE p # q
      BY <1>0, <1>3, <2>1 DEF FlowInv
    <2>2. CASE p = q /\ job.kind[p] # "container"
      <3>1. \A l : Enter(q, NoTerminal, l) \/ Enter(q, on[q], l) \/ Enter(q, job.from[q], l) \/ Enter(q, job.to[q], l) => pc'[q] = l
        BY DEF Enter, Goto, Threads, TypeOK, PumpType
      <3>2. \A l : Moves(q, l) => pc'[q] = l
        BY <3>1 DEF Moves
      <3>3. \A vals : Got(q, vals) => pc'[q] = "wr"
        BY <3>1 DEF Got
      <3>4. CASE Start(q) \/ LegacyStart(q) \/ PassEnd(q) \/ WriteOne(q) \/ LegacyWriteOne(q) \/ WritePrint(q)
        BY <1>3, <2>2, <3>1, <3>4 DEF Start, LegacyStart, Begin, PassEnd, Pass, WriteOne, LegacyWriteOne, NotOpen, TakeFile, WritePrint
      <3>5. CASE StringUpdate(q) \/ StreamUpdate(q) \/ ReadGets(q) \/ UpdateGets(q) \/ FileUpdate(q)
        BY <1>3, <2>2, <3>2, <3>3, <3>5 DEF Receive, StringUpdate, StreamUpdate, ReadGets, UpdateGets, FileUpdate
      <3>6. CASE ReadCheck(q) \/ UpdateCheck(q)
        BY <1>3, <2>2, <3>1, <3>3, <3>6 DEF Receive, ReadCheck, UpdateCheck, Pick
      <3> QED
        BY <1>1, <2>2, <3>4, <3>5, <3>6 DEF PumpStep
    <2> QED
      BY <1>0, <2>1, <2>2
  <1>4. ASSUME NEW p \in Pumps, HasSource(p)' PROVE Flow(p)'
    <2>1. HasSource(p) /\ Flow(p)
      BY <1>0, <1>4 DEF FlowInv, HasSource
    <2>2. CASE p = q
      BY <2>1, <2>2, FlowOwn DEF FlowInv
    <2>3. CASE p # q
      <3>1. job.kind[p] # job.kind[q]
        BY <2>1, <2>3 DEF OneSource, HasSource, TypeOK, PumpType
      <3>2. Passed(p)' = Passed(p) /\ (Exhausted(p) => Exhausted(p)')
        <4>1. CASE job.kind[p] = "file"
          BY <1>0, <1>1, <3>1, <4>1 DEF Passed, Exhausted
        <4>2. CASE job.kind[p] = "container"
          BY <1>0, <1>1, <3>1, <4>2 DEF Passed, Exhausted
        <4> QED
          BY <2>1, <4>1, <4>2 DEF HasSource
      <3> QED
        BY <1>0, <2>1, <2>3, <3>2, FlowSame
    <2> QED
      BY <2>2, <2>3
  <1> QED
    BY <1>2, <1>3, <1>4 DEF FlowInv

\* An item that is added is passed to nobody yet.
LEMMA FlowFill ==
    ASSUME TypeOK, FlowInv, Produce \/ CloseContainer
    PROVE  FlowInv'
  <1>0. UNCHANGED <<pc, job, val, next, handed, rdpos>>
    BY DEF Produce, CloseContainer, boxRest, terminalVars, pumpVars
  <1>1. queue \in Seq(Lines) /\ Len(queue) \in Nat /\ added \in Nat
    BY Bounds DEF TypeOK, BoxType
  <1>2. CASE Produce
    <2>1. ~closed /\ added' = added + 1 /\ queue' = Append(queue, <<0, added + 1>>) /\ closed' = closed
      BY <1>2 DEF Produce
    <2>2. /\ Len(queue') = Len(queue) + 1 /\ DOMAIN queue' = 1..(Len(queue) + 1)
          /\ queue'[Len(queue) + 1] = <<0, added + 1>>
          /\ \A k \in 1..Len(queue) : queue'[k] = queue[k]
      BY <1>1, <2>1
    <2>3. added' - Len(queue') = added - Len(queue)
      BY <1>1, <2>1, <2>2
    <2>4. QueueInv'
      <3>1. ASSUME NEW k \in DOMAIN queue' PROVE queue'[k] = <<0, added' - Len(queue') + k>>
        <4>1. CASE k \in 1..Len(queue)
          BY <1>1, <2>2, <2>3, <4>1 DEF FlowInv, QueueInv
        <4>2. CASE k = Len(queue) + 1
          <5>1. added' - Len(queue') + k = added + 1
            BY <1>1, <2>3, <4>2
          <5> QED
            BY <2>2, <4>2, <5>1
        <4> QED
          BY <1>1, <2>2, <4>1, <4>2
      <3>2. Len(queue) <= added
        BY DEF FlowInv, QueueInv
      <3> QED
        BY <1>1, <2>1, <2>2, <3>1, <3>2 DEF QueueInv
    <2>5. ASSUME NEW p \in Pumps, HasSource(p)' PROVE Flow(p)'
      <3>1. HasSource(p) /\ Flow(p)
        BY <1>0, <2>5 DEF FlowInv, HasSource
      <3>2. Passed(p)' = Passed(p) /\ (Exhausted(p) => Exhausted(p)')
        BY <1>0, <2>1, <2>3 DEF Passed, Exhausted
      <3> QED
        BY <1>0, <3>1, <3>2, FlowSame
    <2> QED
      BY <1>0, <2>4, <2>5 DEF FlowInv
  <1>3. CASE CloseContainer
    <2>1. closed' = TRUE /\ UNCHANGED <<queue, added>>
      BY <1>3 DEF CloseContainer
    <2>2. QueueInv'
      BY <2>1 DEF FlowInv, QueueInv
    <2>3. ASSUME NEW p \in Pumps, HasSource(p)' PROVE Flow(p)'
      <3>1. HasSource(p) /\ Flow(p)
        BY <1>0, <2>3 DEF FlowInv, HasSource
      <3>2. Passed(p)' = Passed(p) /\ (Exhausted(p) => Exhausted(p)')
        BY <1>0, <2>1 DEF Passed, Exhausted
      <3> QED
        BY <1>0, <3>1, <3>2, FlowSame
    <2> QED
      BY <1>0, <2>2, <2>3 DEF FlowInv
  <1> QED
    BY <1>2, <1>3

\* So every step keeps the accounts,
LEMMA FlowStep ==
    ASSUME OneSource, TypeOK, FlowInv, [Next]_vars
    PROVE  FlowInv'
  <1>1. ASSUME UNCHANGED <<pc, job, val, next, handed, boxVars>> PROVE FlowInv'
    BY <1>1 DEF FlowInv, QueueInv, HasSource, Flow, First, Passed, Exhausted, boxVars
  <1>2. CASE UNCHANGED vars
    BY <1>1, <1>2 DEF vars, terminalVars, pumpVars
  <1>3. ASSUME NEW s \in Sessions, Uses(s), UNCHANGED programVars PROVE FlowInv'
    BY <1>1, <1>3 DEF Uses, Type, Leave, programVars, pumpVars
  <1>4. ASSUME NEW c \in Controllers, NEW t \in Terminals, Begins(c, t), UNCHANGED programVars PROVE FlowInv'
    <2>1. c \in Threads
      BY DEF Threads
    <2>2. PICK l \in {"op_fork", "ha_lock", "ha_close"} : Moved(c, l, t, at[c])
      BY <1>4, <2>1, Paths DEF Begins
    <2> QED
      BY <1>4, <2>1, <2>2, FlowRest DEF programVars, pumpVars, ChangePc, HaltPc
  <1>5. ASSUME NEW x \in Threads, Opens(x), UNCHANGED programVars PROVE FlowInv'
    <2>1. PICK l, t, v : l \in {"op_fopen", "idle"} /\ Moved(x, l, t, v)
      BY <1>5, OpenEffects DEF Forks, ForkFails, Fopens
    <2>2. pc[x] \in ChangePc
      BY <1>5, OpenEffects DEF ChangePc
    <2> QED
      BY <1>5, <2>1, <2>2, FlowRest DEF programVars, pumpVars, ChangePc, HaltPc
  <1>6. ASSUME NEW x \in Threads, Halts(x), UNCHANGED programVars PROVE FlowInv'
    <2>1. PICK l \in {"ha_close", "ha_null", "ha_kill"} : Moved(x, l, on[x], at[x]) /\ pc[x] \in ChangePc \cup {"ha_lock"}
      BY <1>6, Paths DEF Halts, ChangePc, HaltPc
    <2> QED
      BY <1>6, <2>1, FlowRest DEF programVars, pumpVars, ChangePc, HaltPc
  <1>7. ASSUME NEW x \in Threads, HaltReturn(x) PROVE FlowInv'
    <2>1. pc[x] \in ChangePc /\ UNCHANGED <<job, boxVars, handed>>
      BY <1>7, ReturnEffects DEF ChangePc, HaltPc
    <2>3. PICK l, v : l \in {"idle", "wr"} /\ Moved(x, l, NoTerminal, v)
      BY <1>7, ReturnMoves
    <2>2. \A p \in Pumps \ {x} : val'[p] = val[p] /\ next'[p] = next[p]
      <3>1. UNCHANGED <<val, next>> \/ \E vals : Got(x, vals)
        BY <1>7, ReturnEffects
      <3> QED
        BY <3>1 DEF Got, TypeOK, PumpType
    <2> QED
      BY <2>1, <2>2, <2>3, FlowRest
  <1> QED
    BY <1>2, <1>3, <1>4, <1>5, <1>6, <1>7, Movers, FlowPump, FlowFill

\* which are empty at the start.
LEMMA FlowInit == Init => FlowInv
  <1> SUFFICES ASSUME Init PROVE FlowInv
    OBVIOUS
  <1>1. /\ queue = <<>> /\ added = 0 /\ closed = FALSE /\ rdpos = -1
        /\ \A p \in Pumps : pc[p] = "idle" /\ val[p] = <<>> /\ next[p] = 1 /\ handed[p] = <<>>
        /\ Len(<<>>) = 0 /\ DOMAIN <<>> = {}
    BY DEF Init, TerminalInit, Threads
  <1>2. QueueInv
    BY <1>1 DEF QueueInv
  <1>3. ASSUME NEW p \in Pumps PROVE Flow(p)
    <2>1. rdpos + 1 = 0 /\ added - Len(queue) = 0
      <3>1. rdpos = -1 /\ added = 0 /\ Len(queue) = 0
        BY <1>1
      <3> QED
        BY <3>1
    <2>2. Passed(p) = 0
      BY <2>1 DEF Passed
    <2>3. Len(handed[p]) = 0 /\ Len(val[p]) = 0 /\ next[p] = 1 /\ val[p] = <<>> /\ pc[p] = "idle"
      BY <1>1
    <2>4. Len(handed[p]) + Len(val[p]) + 1 - next[p] = Passed(p)
      BY <2>2, <2>3
    <2> QED
      BY <2>3, <2>4 DEF Flow
  <1> QED
    BY <1>1, <1>2, <1>3 DEF FlowInv

\* If a container has one pump, and a file has, the pump ends only when it has
\* written every item the container ever got, or the URL and every line.
THEOREM CompleteCorrect ==
    ASSUME OneSource
    PROVE  Spec => []Complete
  <1> DEFINE IInv == TypeOK /\ FlowInv
  <1>1. Init => IInv
    BY InitType, FlowInit
  <1>2. IInv /\ [Next]_vars => IInv'
    BY TypeStep, TypeStutter, FlowStep
  <1>3. IInv => Complete
    <2>1. SUFFICES ASSUME IInv, NEW p \in Pumps, pc[p] = "done", HasSource(p)
                   PROVE  /\ job.kind[p] = "container" => Len(handed[p]) = added
                          /\ job.kind[p] = "file" => Len(handed[p]) = MaxLines + 1
      BY DEF Complete, HasSource
    <2>2. Flow(p) /\ val[p] = <<>> /\ Exhausted(p)
      BY <2>1 DEF FlowInv, Flow
    <2>3. /\ next \in [Pumps -> Nat \ {0}] /\ next[p] <= Len(val[p]) + 1 /\ Len(<<>>) = 0
          /\ handed \in [Pumps -> Seq(Lines)] /\ added \in Nat /\ rdpos \in Int
      BY <2>1, Bounds DEF TypeOK, PumpType, BoxType
    <2>4. next[p] = 1
      BY <2>2, <2>3
    <2>5. Len(handed[p]) + 0 + 1 - 1 = Passed(p)
      BY <2>2, <2>3, <2>4 DEF Flow
    <2>6. Passed(p) = IF job.kind[p] = "file" THEN MaxLines + 1 ELSE added
      <3>1. CASE job.kind[p] = "file"
        BY <2>2, <3>1 DEF Passed, Exhausted
      <3>2. CASE job.kind[p] # "file"
        <4>1. queue = <<>>
          BY <2>2, <3>2 DEF Exhausted
        <4>2. added - Len(queue) = added
          BY <2>3, <4>1
        <4> QED
          BY <3>2, <4>2 DEF Passed
      <3> QED
        BY <3>1, <3>2
    <2> QED
      BY <2>3, <2>5, <2>6, Bounds
  <1> QED
    BY <1>1, <1>2, <1>3, PTL DEF Spec

-----------------------------------------------------------------------------
(* The lines of a terminal: what its reader has written of each session,     *)
(* against what has been taken from that session's FILE.                    *)

\* fopen() for session s is over.  Nobody is between fork() and fopen() for a
\* session that another one opens, that is a terminal's FILE, or that is read;
\* and nothing is read of a session that does not exist.
Opened(s) == \A x \in Threads : pc[x] = "op_fopen" => at[x] # s
OpenedInv ==
    /\ \A x, y \in Threads : pc[x] = "op_fopen" /\ pc[y] = "op_fopen" /\ at[x] = at[y] => x = y
    /\ \A t \in Terminals : fh[t] # NoFile => Opened(fh[t])
    /\ \A x \in Threads : pc[x] = "rd_gets" => Opened(at[x])
    /\ \A s \in Sessions \ Made : taken[s] = 0

\* A session keeps its number and its terminal, and once it is opened and not,
\* or no longer, a terminal's FILE, it never is again.
Later ==
    /\ \A s \in Made : s \in Made' /\ term'[s] = term[s] /\ (Opened(s) => Opened(s)')
    /\ \A t \in Terminals, s \in Made : Opened(s) /\ fh[t] # s => fh'[t] # s

\* So it is for a step that opens nothing,
LEMMA OpenedMove ==
    ASSUME TypeOK, OpenedInv, NEW x \in Threads, NEW l, NEW u, NEW v, Moved(x, l, u, v), term' = term,
           \A t \in Terminals : fh'[t] \in {fh[t], NoFile},
           l # "op_fopen", l = "rd_gets" => Opened(v),
           \A s \in Sessions \ Made : taken'[s] = taken[s]
    PROVE  OpenedInv' /\ Later
  <1>1. /\ pc'[x] = l /\ at'[x] = v
        /\ \A y \in Threads \ {x} : pc'[y] = pc[y] /\ at'[y] = at[y]
    BY MovedTo
  <1>2. \A s : Opened(s) => Opened(s)'
    BY <1>1 DEF Opened
  <1>3. Made' = Made /\ \A s \in Made : s # NoFile
    BY DEF Made, TypeOK, TerminalType, SessionType, NoFile
  <1>4. ASSUME NEW y \in Threads, pc'[y] = "rd_gets" PROVE Opened(at[y])' 
    <2>1. Opened(at'[y])
      BY <1>1, <1>4 DEF OpenedInv
    <2> QED
      BY <1>1, <2>1 DEF Opened
  <1>5. ASSUME NEW t \in Terminals, fh'[t] # NoFile PROVE Opened(fh[t])'
    <2>1. Opened(fh[t]) /\ fh'[t] = fh[t]
      BY <1>5 DEF OpenedInv
    <2> QED
      BY <1>1, <2>1 DEF Opened
  <1>6. OpenedInv'
    BY <1>1, <1>3, <1>4, <1>5 DEF OpenedInv
  <1>7. Later
    BY <1>2, <1>3 DEF Later
  <1> QED
    BY <1>6, <1>7

\* for fork(), whose session is new,
LEMMA OpenedFork ==
    ASSUME TypeOK, OpenedInv, NEW x \in Threads, Forks(x), taken' = taken
    PROVE  OpenedInv' /\ Later
  <1>1. PICK n : n = Len(term) + 1
    OBVIOUS
  <1>2. /\ pc'[x] = "op_fopen" /\ at'[x] = n /\ fh' = fh
        /\ \A y \in Threads \ {x} : pc'[y] = pc[y] /\ at'[y] = at[y]
    BY <1>1, MovedTo DEF Forks
  <1>3. n \notin Made /\ Made' = Made \cup {n} /\ n # NoFile /\ \A s \in Made : s # NoFile /\ term'[s] = term[s]
    <2>1. term \in Seq(Terminals) /\ Made \subseteq Sessions /\ Len(term) \in Nat
      BY DEF TypeOK, TerminalType, SessionType
    <2>2. on[x] \in Terminals \cup {NoTerminal}
      BY DEF TypeOK, TerminalType, ThreadType
    <2> QED
      BY <1>1, <2>1, <2>2, Bounds DEF Forks, Made, NoFile, Sessions
  <1>4. \A s \in Made : Opened(s) => Opened(s)'
    BY <1>2, <1>3 DEF Opened
  <1>5. \A y \in Threads : pc[y] \in {"op_fopen", "rd_gets"} => at[y] \in Made
    BY DEF TypeOK, TerminalType, ThreadType, FilePc
  <1>6. ASSUME NEW t \in Terminals, fh'[t] # NoFile PROVE Opened(fh[t])'
    <2>1. Opened(fh[t]) /\ fh[t] \in Made
      BY <1>2, <1>6 DEF OpenedInv, TypeOK, TerminalType, NodeType
    <2> QED
      BY <1>2, <1>3, <2>1 DEF Opened
  <1>7. ASSUME NEW y \in Threads, pc'[y] = "rd_gets" PROVE Opened(at[y])'
    <2>1. y # x /\ pc[y] = "rd_gets" /\ at'[y] = at[y]
      BY <1>2, <1>7
    <2>2. Opened(at[y]) /\ at[y] \in Made
      BY <1>5, <2>1 DEF OpenedInv
    <2> QED
      BY <1>2, <1>3, <2>1, <2>2 DEF Opened
  <1>8. ASSUME NEW y \in Threads, NEW z \in Threads, pc'[y] = "op_fopen", pc'[z] = "op_fopen", at'[y] = at'[z]
        PROVE  y = z
    BY <1>2, <1>3, <1>5, <1>8 DEF OpenedInv
  <1>9. OpenedInv'
    BY <1>3, <1>6, <1>7, <1>8 DEF OpenedInv
  <1>10. Later
    BY <1>2, <1>3, <1>4 DEF Later
  <1> QED
    BY <1>9, <1>10

\* and for fopen(), after which nobody else will open that session.
LEMMA OpenedFile ==
    ASSUME TypeOK, OpenedInv, NEW x \in Threads, pc[x] = "op_fopen", Fopens(x), taken' = taken
    PROVE  OpenedInv' /\ Later
  <1>0. PICK n : n = at[x]
    OBVIOUS
  <1>1. /\ pc'[x] = "idle" /\ at'[x] = NoFile /\ term' = term
        /\ \A y \in Threads \ {x} : pc'[y] = pc[y] /\ at'[y] = at[y]
    BY MovedTo DEF Fopens
  <1>2. \A s : Opened(s) => Opened(s)'
    BY <1>1 DEF Opened
  <1>3. /\ Made' = Made /\ n \in Made /\ \A s \in Made : s # NoFile
        /\ \A s : Opened(s) => s # n
        /\ Opened(n)'
    <2>1. Opened(n)'
      BY <1>0, <1>1 DEF OpenedInv, Opened
    <2>2. \A s : Opened(s) => s # n
      BY <1>0 DEF Opened
    <2> QED
      BY <1>0, <1>1, <2>1, <2>2 DEF Made, TypeOK, TerminalType, SessionType, ThreadType, FilePc, NoFile
  <1>4. \A t \in Terminals : fh'[t] \in {fh[t], NoFile, n}
    BY <1>0 DEF Fopens, TypeOK, TerminalType, NodeType
  <1>5. ASSUME NEW t \in Terminals, fh'[t] # NoFile PROVE Opened(fh[t])'
    <2>1. CASE fh'[t] = n
      BY <1>3, <2>1 DEF Opened
    <2>2. CASE fh'[t] = fh[t]
      <3>1. Opened(fh[t])
        BY <1>5, <2>2 DEF OpenedInv
      <3> QED
        BY <1>1, <2>2, <3>1 DEF Opened
    <2> QED
      BY <1>4, <1>5, <2>1, <2>2
  <1>6. ASSUME NEW y \in Threads, pc'[y] = "rd_gets" PROVE Opened(at[y])'
    <2>1. Opened(at[y]) /\ at'[y] = at[y]
      BY <1>1, <1>6 DEF OpenedInv
    <2> QED
      BY <1>1, <2>1 DEF Opened
  <1>7. OpenedInv'
    BY <1>1, <1>3, <1>5, <1>6 DEF OpenedInv
  <1>8. Later
    BY <1>1, <1>2, <1>3, <1>4 DEF Later
  <1> QED
    BY <1>7, <1>8

\* Only a pump in fgets() that gets a line takes from a session, from the one it
\* is reading.
LEMMA TakenBy ==
    ASSUME TypeOK, NEW q \in Pumps, Start(q) \/ LegacyStart(q) \/ PumpStep(q)
    PROVE  \/ UNCHANGED <<taken, stuck>>
           \/ /\ pc[q] = "rd_gets" /\ handed' = handed
              /\ \E l \in Lines : GetsLine(q, l) /\ Receive(q, Delivered(q, l), at[q] \in stuck)
  <1>1. CASE ReadGets(q) \/ UpdateGets(q)
    BY <1>1 DEF ReadGets, UpdateGets, GetsEnd, sourceRest
  <1>2. CASE ~(ReadGets(q) \/ UpdateGets(q))
    <2>1. UNCHANGED <<taken, stuck>>
      BY <1>2 DEF Receive, Start, LegacyStart, Begin, PumpStep, StringUpdate, StreamUpdate, ReadCheck, UpdateCheck,
         FileUpdate, ContainerCheck, ContainerRemove, PassEnd, WriteOne, LegacyWriteOne, WritePrint, writeRest, lineVars
    <2> QED
      BY <2>1
  <1> QED
    BY <1>1, <1>2

\* The line is the next of that session; its FILE moves past it, or is stuck.
LEMMA TakenAt ==
    ASSUME TypeOK, NEW q \in Pumps, NEW l, pc[q] = "rd_gets", GetsLine(q, l)
    PROVE  /\ \A s \in Sessions \ {at[q]} : taken'[s] = taken[s] /\ (s \in stuck' <=> s \in stuck)
           /\ l = <<at[q], taken[at[q]] + 1>>
           /\ \/ taken'[at[q]] = taken[at[q]] + 1 /\ at[q] \notin stuck'
              \/ taken'[at[q]] = taken[at[q]] /\ at[q] \in stuck'
  <1>1. taken \in [Sessions -> 0..MaxLines]
    BY DEF TypeOK, TerminalType, SessionType
  <1>2. at[q] \in Sessions
    BY DEF TypeOK, TerminalType, SessionType, ThreadType, FilePc, Threads
  <1> QED
    BY <1>1, <1>2 DEF GetsLine

\* So every step keeps OpenedInv, and what is over stays so.
LEMMA OpenedStep ==
    ASSUME TypeOK, OpenedInv, [Next]_vars
    PROVE  OpenedInv' /\ Later
  <1>1. ASSUME UNCHANGED <<pc, at, fh, term, taken>> PROVE OpenedInv' /\ Later
    BY <1>1 DEF OpenedInv, Opened, Later, Made
  <1>2. CASE UNCHANGED vars
    BY <1>1, <1>2 DEF vars, terminalVars, nodeVars, sessionVars, lineVars
  <1>3. ASSUME NEW s \in Sessions, Uses(s) PROVE OpenedInv' /\ Later
    BY <1>1, <1>3 DEF Uses, Type, Leave, nodeVars, sessionVars, lineVars
  <1>4. CASE Produce \/ CloseContainer
    BY <1>1, <1>4 DEF Produce, CloseContainer, boxRest, terminalVars, nodeVars, sessionVars, lineVars
  <1>5. ASSUME NEW c \in Controllers, NEW t \in Terminals, Begins(c, t) PROVE OpenedInv' /\ Later
    <2>1. c \in Threads
      BY DEF Threads
    <2>2. PICK l \in {"op_fork", "ha_lock", "ha_close"} : Moved(c, l, t, at[c])
      BY <1>5, <2>1, Paths DEF Begins
    <2>3. UNCHANGED <<term, taken>> /\ fh' \in {fh, [fh EXCEPT ![t] = NoFile]}
      BY <1>5 DEF Begins, OpenBegin, CloseBegin, Construct, Drop, nodeVars, sessionVars, lineVars
    <2>4. \A w \in Terminals : fh'[w] \in {fh[w], NoFile}
      BY <2>3 DEF TypeOK, TerminalType, NodeType
    <2> QED
      BY <2>1, <2>2, <2>3, <2>4, OpenedMove
  <1>6. ASSUME NEW x \in Threads, Opens(x) PROVE OpenedInv' /\ Later
    <2>0. UNCHANGED lineVars /\ (Forks(x) \/ ForkFails(x) \/ (pc[x] = "op_fopen" /\ Fopens(x)))
      BY <1>6, OpenEffects
    <2>1. taken' = taken
      BY <2>0 DEF lineVars
    <2>2. CASE ForkFails(x)
      <3>1. Moved(x, "idle", NoTerminal, at[x]) /\ UNCHANGED <<fh, term>>
        BY <2>2 DEF ForkFails
      <3>2. \A w \in Terminals : fh'[w] \in {fh[w], NoFile}
        BY <3>1
      <3> QED
        BY <2>1, <3>1, <3>2, OpenedMove
    <2> QED
      BY <2>0, <2>1, <2>2, OpenedFork, OpenedFile
  <1>7. ASSUME NEW x \in Threads, Halts(x) PROVE OpenedInv' /\ Later
    <2>1. PICK l \in {"ha_close", "ha_null", "ha_kill"} : Moved(x, l, on[x], at[x])
      BY <1>7, Paths DEF Halts
    <2>2. UNCHANGED <<term, taken>> /\ fh' \in {fh, [fh EXCEPT ![on[x]] = NoFile]}
      BY <1>7 DEF Halts, HaltLock, HaltClose, HaltNull, nodeVars, sessionVars, lineVars
    <2>3. \A w \in Terminals : fh'[w] \in {fh[w], NoFile}
      BY <2>2 DEF TypeOK, TerminalType, NodeType
    <2> QED
      BY <2>1, <2>2, <2>3, OpenedMove
  <1>8. ASSUME NEW x \in Threads, HaltReturn(x) PROVE OpenedInv' /\ Later
    <2>1. UNCHANGED <<term, fh, taken>>
      BY <1>8, ReturnEffects DEF lineVars
    <2>3. PICK l, v : l \in {"idle", "wr"} /\ Moved(x, l, NoTerminal, v)
      BY <1>8, ReturnMoves
    <2>4. \A w \in Terminals : fh'[w] \in {fh[w], NoFile}
      BY <2>1
    <2> QED
      BY <2>1, <2>3, <2>4, OpenedMove
  <1>9. ASSUME NEW p \in Pumps, Start(p) \/ LegacyStart(p) \/ PumpStep(p) PROVE OpenedInv' /\ Later
    <2>0. p \in Threads
      BY DEF Threads
    <2>1. Effects(p)
      BY <1>9, PumpEffects
    <2>2. UNCHANGED <<term, fh>> /\ \A w \in Terminals : fh'[w] \in {fh[w], NoFile}
      BY <2>1 DEF Effects, sameVars, sessionVars, nodeVars
    <2>3. \A s \in Sessions \ Made : taken'[s] = taken[s]
      <3>1. ASSUME pc[p] = "rd_gets" PROVE at[p] \in Made
        BY <2>0, <3>1 DEF TypeOK, TerminalType, ThreadType, FilePc
      <3>2. taken' = taken \/ (pc[p] = "rd_gets" /\ \E l \in Lines : GetsLine(p, l))
        BY <1>9, TakenBy
      <3> QED
        BY <3>1, <3>2, TakenAt
    <2>4. \E l, u, v : Moved(p, l, u, v) /\ l # "op_fopen" /\ (l = "rd_gets" => Opened(v))
      <3>1. CASE Rests(p) \/ Quits(p)
        BY <3>1 DEF Rests, Quits, FilePc
      <3>2. CASE Takes(p)
        <4>1. PICK l \in {"rd_gets", "wr_print"}, t \in Terminals : fh[t] # NoFile /\ Moved(p, l, t, fh[t])
          BY <3>2 DEF Takes
        <4>2. Opened(fh[t])
          BY <4>1 DEF OpenedInv
        <4> QED
          BY <4>1, <4>2
      <3> QED
        BY <2>1, <3>1, <3>2 DEF Effects
    <2>5. PICK l, u, v : Moved(p, l, u, v) /\ l # "op_fopen" /\ (l = "rd_gets" => Opened(v))
      BY <2>4
    <2> QED
      BY <2>0, <2>2, <2>3, <2>5, OpenedMove
  <1> QED
    BY <1>2, <1>3, <1>4, <1>5, <1>6, <1>7, <1>8, <1>9, Movers

\* Of session s, pump p has written places 1 to n and no other.
Has(p, s, n) ==
    /\ \A i \in DOMAIN handed[p] : handed[p][i][1] = s => handed[p][i][2] \in 1..n
    /\ \A m \in 1..n : \E i \in DOMAIN handed[p] : handed[p][i] = <<s, m>>
Last(p) == handed[p][Len(handed[p])]

\* There is one such n,
LEMMA HasOne ==
    ASSUME NEW p, NEW s, NEW n \in Nat, NEW m \in Nat, Has(p, s, n), Has(p, s, m)
    PROVE  n = m
  <1>1. ASSUME NEW a \in Nat, NEW b \in Nat, Has(p, s, a), Has(p, s, b), a < b PROVE FALSE
    <2>1. b \in 1..b
      BY <1>1
    <2>2. PICK i \in DOMAIN handed[p] : handed[p][i] = <<s, b>>
      BY <1>1, <2>1 DEF Has
    <2>3. b \in 1..a
      BY <1>1, <2>2 DEF Has
    <2> QED
      BY <1>1, <2>3
  <1> QED
    BY <1>1

\* and if the last line is one of s, it is the one in place n.
LEMMA LastPlace ==
    ASSUME TypeOK, NEW p \in Pumps, Ordered(p), NEW s, NEW n \in Nat, Has(p, s, n),
           handed[p] # <<>>, Last(p)[1] = s
    PROVE  Last(p) = <<s, n>> /\ n > 0
  <1>1. handed[p] \in Seq(Lines) /\ Len(handed[p]) \in DOMAIN handed[p] /\ DOMAIN handed[p] = 1..Len(handed[p])
    BY DEF TypeOK, PumpType
  <1>2. Last(p)[2] \in 1..n
    BY <1>1 DEF Has, Last
  <1>3. n \in 1..n
    BY <1>2
  <1>4. PICK k \in DOMAIN handed[p] : handed[p][k] = <<s, n>>
    BY <1>3 DEF Has
  <1>5. CASE k = Len(handed[p])
    BY <1>2, <1>4, <1>5 DEF Last
  <1>6. CASE k # Len(handed[p])
    <2>1. k \in 1..(Len(handed[p]) - 1)
      BY <1>1, <1>6
    <2>2. \A i \in 1..(Len(handed[p]) - 1) : handed[p][i][1] = Last(p)[1] => handed[p][i][2] < Last(p)[2]
      BY <1>1 DEF Ordered, Last
    <2>3. handed[p][k][2] < Last(p)[2]
      BY <1>4, <2>1, <2>2
    <2> QED
      BY <1>2, <1>4, <2>3
  <1> QED
    BY <1>5, <1>6

\* A line of s that is written next is in order.
LEMMA HasNext ==
    ASSUME TypeOK, NEW p \in Pumps, Ordered(p), OnTerminal(p), job' = job,
           NEW s, NEW n \in Nat, Has(p, s, n), handed'[p] = Append(handed[p], <<s, n + 1>>)
    PROVE  /\ Ordered(p)'
           /\ Has(p, s, n + 1)'
           /\ \A u, m : u # s /\ Has(p, u, m) => Has(p, u, m)'
           /\ Last(p)' = <<s, n + 1>> /\ handed'[p] # <<>>
           /\ \A i \in DOMAIN handed'[p] : \/ handed'[p][i][1] = s
                                           \/ i \in DOMAIN handed[p] /\ handed'[p][i] = handed[p][i]
  <1>1. PICK k : k = Len(handed[p])
    OBVIOUS
  <1>2. /\ k \in Nat /\ DOMAIN handed[p] = 1..k /\ DOMAIN handed'[p] = 1..(k + 1) /\ Len(handed'[p]) = k + 1
        /\ handed'[p][k + 1] = <<s, n + 1>>
        /\ \A i \in 1..k : handed'[p][i] = handed[p][i]
    <2>1. handed[p] \in Seq(Lines)
      BY DEF TypeOK, PumpType
    <2> QED
      BY <1>1, <2>1
  <1>3. First(p) = 1 /\ First(p)' = 1
    BY DEF First, OnTerminal
  <1>4. Ordered(p)'
    <2>1. SUFFICES ASSUME NEW i \in 1..(k + 1)
                   PROVE  /\ 1 <= handed'[p][i][2]
                          /\ \A j \in 1..(i - 1) : handed'[p][j][1] = handed'[p][i][1] => handed'[p][j][2] < handed'[p][i][2]
                          /\ \A m \in 1..(handed'[p][i][2] - 1) : \E j \in 1..(i - 1) : handed'[p][j] = <<handed'[p][i][1], m>>
      BY <1>2, <1>3 DEF Ordered
    <2>2. CASE i \in 1..k
      <3>1. handed'[p][i] = handed[p][i] /\ 1..(i - 1) \subseteq 1..k
        BY <1>2, <2>2
      <3>2. /\ 1 <= handed[p][i][2]
            /\ \A j \in 1..(i - 1) : handed[p][j][1] = handed[p][i][1] => handed[p][j][2] < handed[p][i][2]
            /\ \A m \in 1..(handed[p][i][2] - 1) : \E j \in 1..(i - 1) : handed[p][j] = <<handed[p][i][1], m>>
        BY <1>2, <1>3, <2>2 DEF Ordered
      <3>3. \A j \in 1..(i - 1) : handed'[p][j] = handed[p][j]
        BY <1>2, <3>1
      <3> QED
        BY <3>1, <3>2, <3>3
    <2>3. CASE i = k + 1
      <3>1. handed'[p][i][1] = s /\ handed'[p][i][2] = n + 1 /\ i - 1 = k /\ n + 1 - 1 = n
        BY <1>2, <2>3
      <3>2. ASSUME NEW j \in 1..k, handed'[p][j][1] = s PROVE handed'[p][j][2] < n + 1
        <4>1. handed'[p][j] = handed[p][j] /\ handed[p][j][2] \in 1..n
          BY <1>2, <3>2 DEF Has
        <4>2. \A w \in 1..n : w < n + 1
          OBVIOUS
        <4> QED
          BY <4>1, <4>2
      <3>3. \A m \in 1..n : \E j \in 1..k : handed'[p][j] = <<s, m>>
        BY <1>2 DEF Has
      <3>4. PICK w : w = handed'[p][i]
        OBVIOUS
      <3>5. w[1] = s /\ w[2] = n + 1
        BY <3>1, <3>4
      <3>6. w[2] - 1 = n /\ 1 <= w[2] /\ 1..(i - 1) = 1..k
        BY <3>1, <3>5
      <3> QED
        BY <3>2, <3>3, <3>4, <3>5, <3>6
    <2>4. i \in 1..k \/ i = k + 1
      BY <1>2
    <2> QED
      BY <2>2, <2>3, <2>4
  <1>5. Has(p, s, n + 1)'
    <2>1. ASSUME NEW i \in DOMAIN handed'[p], handed'[p][i][1] = s PROVE handed'[p][i][2] \in 1..(n + 1)
      <3>1. CASE i \in 1..k
        <4>1. handed[p][i][2] \in 1..n
          BY <1>2, <2>1, <3>1 DEF Has
        <4> QED
          BY <1>2, <3>1, <4>1
      <3>2. CASE i \notin 1..k
        <4>1. i = k + 1 /\ handed'[p][i] = <<s, n + 1>>
          BY <1>2, <2>1, <3>2
        <4> QED
          BY <4>1
      <3> QED
        BY <3>1, <3>2
    <2>2. ASSUME NEW m \in 1..(n + 1) PROVE \E i \in DOMAIN handed'[p] : handed'[p][i] = <<s, m>>
      <3>1. CASE m \in 1..n
        <4>1. PICK i \in 1..k : handed[p][i] = <<s, m>>
          BY <1>2, <3>1 DEF Has
        <4>2. i \in DOMAIN handed'[p] /\ handed'[p][i] = handed[p][i]
          BY <1>2
        <4> QED
          BY <4>1, <4>2
      <3>2. CASE m = n + 1
        <4>1. k + 1 \in DOMAIN handed'[p] /\ handed'[p][k + 1] = <<s, m>>
          BY <1>2, <3>2
        <4> QED
          BY <4>1
      <3>3. m \in 1..n \/ m = n + 1
        OBVIOUS
      <3> QED
        BY <3>1, <3>2, <3>3
    <2> QED
      BY <2>1, <2>2 DEF Has
  <1>6. ASSUME NEW u, NEW m, u # s, Has(p, u, m) PROVE Has(p, u, m)'
    <2>1. ASSUME NEW i \in DOMAIN handed'[p], handed'[p][i][1] = u PROVE handed'[p][i][2] \in 1..m
      BY <1>2, <1>6, <2>1 DEF Has
    <2>2. ASSUME NEW j \in 1..m PROVE \E i \in DOMAIN handed'[p] : handed'[p][i] = <<u, j>>
      <3>1. PICK i \in 1..k : handed[p][i] = <<u, j>>
        BY <1>2, <1>6 DEF Has
      <3>2. i \in DOMAIN handed'[p] /\ handed'[p][i] = handed[p][i]
        BY <1>2
      <3> QED
        BY <3>1, <3>2
    <2> QED
      BY <2>1, <2>2 DEF Has
  <1>7. Last(p)' = <<s, n + 1>> /\ handed'[p] # <<>>
    BY <1>2 DEF Last
  <1>8. \A i \in DOMAIN handed'[p] : \/ handed'[p][i][1] = s
                                     \/ i \in DOMAIN handed[p] /\ handed'[p][i] = handed[p][i]
    BY <1>2
  <1> QED
    BY <1>4, <1>5, <1>6, <1>7, <1>8

\* The pump that reads a terminal.  It may hold the last line for good (Holds);
\* a line waits to be written (Waits); a session is its terminal's (Mine) and may
\* have ended for it (Dead), or be none it is busy with now (Elsewhere).
Holds(p) == ~legacy /\ job.kind[p] = "stream"
Waits(p, l) == pc[p] \in {"wr", "wr_print"} /\ next[p] = 1 /\ val[p] = <<l>>
Mine(p, s) == s \in Made /\ term[s] = job.from[p]
Dead(p, s) == Opened(s) /\ fh[job.from[p]] # s /\ ~(pc[p] = "rd_gets" /\ at[p] = s)
Elsewhere(p, s) == (pc[p] = "rd_gets" /\ at[p] # s) \/ \E l \in Lines : Waits(p, l) /\ l[1] # s

\* If it has written n lines of a session, then what was taken from that is n
\* lines too; or one more, which waits; or, if the FILE is stuck at the last one
\* written, one less: that one will be read again, if any.
Balance(p, s, n) ==
    \/ taken[s] = n /\ (s \in stuck <=> Waits(p, <<s, n + 1>>))
    \/ taken[s] = n + 1 /\ s \notin stuck /\ Waits(p, <<s, n + 1>>)
    \/ /\ taken[s] + 1 = n /\ s \in stuck /\ ~Waits(p, <<s, n + 1>>)
       /\ Dead(p, s) \/ (Last(p)[1] = s /\ ~Elsewhere(p, s))
Account(p, s) == \E n \in Nat : Has(p, s, n) /\ Balance(p, s, n)

\* What waits is the next line of its session or the last line once more.
Awaited(p, l) ==
    /\ Mine(p, l[1]) /\ Opened(l[1])
    /\ \/ l[2] > 0 /\ Has(p, l[1], l[2] - 1)
       \/ handed[p] # <<>> /\ l = Last(p) /\ p \in again
Held(p) == handed[p] # <<>> /\ val[p] = <<Last(p)>>
Shape(p) ==
    /\ pc[p] \notin {"co_remove", "op_fork", "op_fopen"}
    /\ pc[p] \in {"up", "rd_check", "rd_gets"} => on[p] = job.from[p]
    /\ \A i \in DOMAIN handed[p] : Mine(p, handed[p][i][1]) /\ Opened(handed[p][i][1])
    /\ pc[p] \in {"wr", "wr_print"} =>
         \/ next[p] = 1 /\ val[p] \in {<<>>, <<Void>>}
         \/ \E l \in Lines : Waits(p, l) /\ Awaited(p, l)
         \/ next[p] = 2 /\ Held(p)
    /\ pc[p] \notin {"wr", "wr_print"} => next[p] = 1 /\ (val[p] = <<>> \/ (Holds(p) /\ Held(p)))
Reader(p) == Shape(p) /\ \A s \in Sessions : Mine(p, s) => Account(p, s)

\* A step of another thread, by which nothing is taken from its sessions.
LEMMA ReaderOther ==
    ASSUME TypeOK, TypeOK', OpenedInv, Later, NEW p \in Pumps, Reader(p), UNCHANGED <<job, legacy>>,
           pc'[p] = pc[p], on'[p] = on[p], at'[p] = at[p],
           val'[p] = val[p], next'[p] = next[p], handed'[p] = handed[p], p \in again' <=> p \in again,
           \A s \in Sessions : Mine(p, s) \/ s \notin Made => taken'[s] = taken[s] /\ (s \in stuck' <=> s \in stuck)
    PROVE  Reader(p)'
  <1>1. /\ \A s, n : Has(p, s, n)' <=> Has(p, s, n)
        /\ \A l : Waits(p, l)' <=> Waits(p, l)
        /\ \A s : Elsewhere(p, s)' <=> Elsewhere(p, s)
        /\ Last(p)' = Last(p) /\ Holds(p)' = Holds(p) /\ Held(p)' = Held(p)
    BY DEF Has, Waits, Elsewhere, Last, Holds, Held
  <1>2. \A s : Mine(p, s) => Mine(p, s)' /\ (Opened(s) => Opened(s)') /\ s \in Sessions
    BY DEF Mine, Later, TypeOK, TerminalType, SessionType
  <1>3. Shape(p)'
    <2>1. /\ pc'[p] \notin {"co_remove", "op_fork", "op_fopen"}
          /\ pc'[p] \in {"up", "rd_check", "rd_gets"} => on'[p] = job'.from[p]
          /\ pc'[p] \notin {"wr", "wr_print"} => next'[p] = 1 /\ (val'[p] = <<>> \/ (Holds(p)' /\ Held(p)'))
      BY <1>1 DEF Reader, Shape
    <2>2. ASSUME NEW i \in DOMAIN handed'[p] PROVE (Mine(p, handed[p][i][1]) /\ Opened(handed[p][i][1]))'
      <3>1. PICK s : s = handed[p][i][1]
        OBVIOUS
      <3>2. Mine(p, s) /\ Opened(s)
        BY <2>2, <3>1 DEF Reader, Shape
      <3>3. Mine(p, s)' /\ Opened(s)' /\ handed'[p][i][1] = s
        BY <1>2, <3>1, <3>2
      <3> QED
        BY <3>3 DEF Mine, Opened
    <2>3. ASSUME NEW l \in Lines, Awaited(p, l) PROVE Awaited(p, l)'
      <3>1. Mine(p, l[1])' /\ Opened(l[1])' /\ Mine(p, l[1])
        BY <1>2, <2>3 DEF Awaited
      <3> QED
        BY <1>1, <2>3, <3>1 DEF Awaited
    <2>4. pc'[p] \in {"wr", "wr_print"} =>
            \/ next'[p] = 1 /\ val'[p] \in {<<>>, <<Void>>}
            \/ \E l \in Lines : Waits(p, l)' /\ Awaited(p, l)'
            \/ next'[p] = 2 /\ Held(p)'
      BY <1>1, <2>3 DEF Reader, Shape
    <2> QED
      BY <2>1, <2>2, <2>4 DEF Shape
  <1>4. ASSUME NEW s \in Sessions, Mine(p, s)' PROVE Account(p, s)'
    <2>1. CASE s \in Made
      <3>1. Mine(p, s)
        BY <1>4, <2>1 DEF Mine, Later
      <3>2. PICK n \in Nat : Has(p, s, n) /\ Balance(p, s, n)
        BY <3>1 DEF Reader, Account
      <3>3. job.from[p] \in Terminals /\ (Dead(p, s) => Dead(p, s)')
        BY <2>1, JobType DEF Dead, Later
      <3>4. taken'[s] = taken[s] /\ (s \in stuck' <=> s \in stuck)
        BY <3>1
      <3>5. Balance(p, s, n)'
        BY <1>1, <3>2, <3>3, <3>4 DEF Balance
      <3> QED
        BY <1>1, <3>2, <3>5 DEF Account
    <2>2. CASE s \notin Made
      <3>1. taken'[s] = 0 /\ s \notin stuck'
        BY <2>2 DEF OpenedInv, TypeOK, TerminalType, SessionType
      <3>2. Has(p, s, 0)
        BY <2>2 DEF Has, Reader, Shape, Mine
      <3>3. ~Waits(p, <<s, 0 + 1>>)
        <4>1. SUFFICES ASSUME Waits(p, <<s, 0 + 1>>) PROVE FALSE
          OBVIOUS
        <4>2. PICK l : l = <<s, 0 + 1>>
          OBVIOUS
        <4>3. s # -1 /\ val[p] = <<l>> /\ next[p] = 1 /\ pc[p] \in {"wr", "wr_print"}
          BY <4>1, <4>2 DEF Waits, Sessions
        <4>4. val[p] # <<>> /\ val[p] # <<Void>>
          BY <4>2, <4>3 DEF Void
        <4>5. PICK k \in Lines : val[p] = <<k>> /\ Mine(p, k[1])
          BY <4>3, <4>4 DEF Reader, Shape, Waits, Awaited
        <4> QED
          BY <2>2, <4>2, <4>3, <4>5 DEF Mine
      <3>4. Balance(p, s, 0)'
        BY <1>1, <3>1, <3>3 DEF Balance
      <3> QED
        BY <1>1, <3>2, <3>4 DEF Account
    <2> QED
      BY <2>1, <2>2
  <1> QED
    BY <1>3, <1>4 DEF Reader

\* A step of the pump by which it takes and writes nothing: what waits goes on
\* waiting, and what it holds may wait again.
LEMMA ReaderMove ==
    ASSUME TypeOK, Later, NEW p \in Pumps, Reader(p), term' = term,
           UNCHANGED <<job, legacy, handed, taken, stuck>>,
           Shape(p)',
           \A l : Waits(p, l) => Waits(p, l)',
           \A l \in Lines : Waits(p, l)' => Waits(p, l) \/ (handed[p] # <<>> /\ l = Last(p)),
           pc'[p] = "rd_gets" => at'[p] = fh'[job.from[p]]
    PROVE  Reader(p)'
  <1>1. (\A s, n : Has(p, s, n)' <=> Has(p, s, n)) /\ Last(p)' = Last(p)
    BY DEF Has, Last
  <1>2. ASSUME NEW s \in Sessions, Mine(p, s)' PROVE Account(p, s)'
    <2>1. Mine(p, s) /\ s \in Made
      BY <1>2 DEF Mine, Made
    <2>2. PICK n \in Nat : Has(p, s, n) /\ Balance(p, s, n)
      BY <2>1 DEF Reader, Account
    <2>3. ~(handed[p] # <<>> /\ <<s, n + 1>> = Last(p))
      <3>1. SUFFICES ASSUME handed[p] # <<>>, <<s, n + 1>> = Last(p) PROVE FALSE
        OBVIOUS
      <3>2. Len(handed[p]) \in DOMAIN handed[p]
        BY <3>1 DEF TypeOK, PumpType
      <3>3. n + 1 \in 1..n
        BY <2>2, <3>1, <3>2 DEF Has, Last
      <3> QED
        BY <3>3
    <2>4. Waits(p, <<s, n + 1>>)' => Waits(p, <<s, n + 1>>)
      <3>1. SUFFICES ASSUME Waits(p, <<s, n + 1>>)', ~Waits(p, <<s, n + 1>>) PROVE FALSE
        OBVIOUS
      <3>2. PICK l : l = <<s, n + 1>>
        OBVIOUS
      <3>3. val'[p] = <<l>> /\ next'[p] = 1 /\ pc'[p] \in {"wr", "wr_print"}
        BY <3>1, <3>2 DEF Waits
      <3>4. l # Void
        BY <3>2 DEF Sessions, Void
      <3>5. PICK k \in Lines : val'[p] = <<k>>
        BY <3>3, <3>4 DEF Shape, Waits
      <3>6. l \in Lines
        BY <3>3, <3>5
      <3> QED
        BY <2>3, <3>1, <3>2, <3>6
    <2>5. Dead(p, s) => Dead(p, s)'
      <3>1. job.from[p] \in Terminals
        BY JobType
      <3> QED
        BY <2>1, <3>1 DEF Dead, Later
    <2>6. ASSUME n > 0, Last(p)[1] = s, ~Elsewhere(p, s) PROVE ~Elsewhere(p, s)' \/ Dead(p, s)'
      <3>1. Opened(s)
        <4>0. 1 \in 1..n
          BY <2>6
        <4>1. PICK i \in DOMAIN handed[p] : handed[p][i] = <<s, 1>>
          BY <2>2, <4>0 DEF Has
        <4>2. PICK k : k = handed[p][i]
          OBVIOUS
        <4>3. Opened(k[1]) /\ k[1] = s
          BY <4>1, <4>2 DEF Reader, Shape
        <4> QED
          BY <4>3
      <3>2. CASE pc'[p] = "rd_gets" /\ at'[p] # s
        BY <2>1, <3>1, <3>2 DEF Dead, Later
      <3>3. ASSUME NEW l \in Lines, Waits(p, l)', l[1] # s PROVE FALSE
        BY <2>6, <3>3 DEF Elsewhere
      <3> QED
        BY <3>2, <3>3 DEF Elsewhere
    <2>7. CASE taken[s] = n /\ (s \in stuck <=> Waits(p, <<s, n + 1>>))
      BY <1>1, <2>2, <2>4, <2>7 DEF Account, Balance
    <2>8. CASE taken[s] = n + 1 /\ s \notin stuck /\ Waits(p, <<s, n + 1>>)
      BY <1>1, <2>2, <2>8 DEF Account, Balance
    <2>9. CASE /\ taken[s] + 1 = n /\ s \in stuck /\ ~Waits(p, <<s, n + 1>>)
               /\ Dead(p, s) \/ (Last(p)[1] = s /\ ~Elsewhere(p, s))
      <3>1. n > 0
        <4>1. taken[s] \in Nat
          BY Bounds DEF TypeOK, TerminalType, SessionType
        <4> QED
          BY <2>9, <4>1
      <3>2. Dead(p, s)' \/ (Last(p)'[1] = s /\ ~Elsewhere(p, s)')
        BY <1>1, <2>5, <2>6, <2>9, <3>1
      <3> QED
        BY <1>1, <2>2, <2>4, <2>9, <3>2 DEF Account, Balance
    <2> QED
      BY <2>2, <2>7, <2>8, <2>9 DEF Balance
  <1> QED
    BY <1>2 DEF Reader

\* What has been written is of the pump's sessions, and stays so.
LEMMA HandedMove ==
    ASSUME Later, NEW p \in Pumps, Reader(p), UNCHANGED <<job, legacy, handed>>
    PROVE  /\ \A i \in DOMAIN handed'[p] : (Mine(p, handed[p][i][1]) /\ Opened(handed[p][i][1]))'
           /\ Holds(p)' = Holds(p) /\ Last(p)' = Last(p)
           /\ \A s, n : Has(p, s, n)' <=> Has(p, s, n)
           /\ \A s : Mine(p, s) => Mine(p, s)' /\ (Opened(s) => Opened(s)')
  <1>1. (\A s, n : Has(p, s, n)' <=> Has(p, s, n)) /\ Last(p)' = Last(p) /\ Holds(p)' = Holds(p)
    BY DEF Has, Last, Holds
  <1>2. \A s : Mine(p, s) => Mine(p, s)' /\ (Opened(s) => Opened(s)')
    BY DEF Mine, Later
  <1>3. ASSUME NEW i \in DOMAIN handed'[p] PROVE (Mine(p, handed[p][i][1]) /\ Opened(handed[p][i][1]))'
    <2>1. PICK s : s = handed[p][i][1]
      OBVIOUS
    <2>2. Mine(p, s)' /\ Opened(s)' /\ handed'[p][i][1] = s
      BY <1>2, <1>3, <2>1 DEF Reader, Shape
    <2> QED
      BY <2>2 DEF Mine, Opened
  <1> QED
    BY <1>1, <1>2, <1>3

\* So does what waits, if nothing is taken or written, unless it has waited before.
LEMMA ShapeMove ==
    ASSUME Later, NEW p \in Pumps, Reader(p), UNCHANGED <<job, legacy, handed, taken, stuck>>
    PROVE  /\ \A i \in DOMAIN handed'[p] : (Mine(p, handed[p][i][1]) /\ Opened(handed[p][i][1]))'
           /\ Holds(p)' = Holds(p) /\ Last(p)' = Last(p)
           /\ \A l \in Lines : Awaited(p, l) /\ (p \in again => p \in again') => Awaited(p, l)'
  <1>1. ASSUME NEW l \in Lines, Awaited(p, l), p \in again => p \in again' PROVE Awaited(p, l)'
    <2>1. Mine(p, l[1])' /\ Opened(l[1])'
      BY <1>1, HandedMove DEF Awaited
    <2> QED
      BY <1>1, <2>1, HandedMove DEF Awaited
  <1> QED
    BY <1>1, HandedMove

\* It goes on without a new value.
LEMMA ReaderGoes ==
    ASSUME TypeOK, Later, NEW p \in Pumps, Reader(p), term' = term,
           UNCHANGED <<job, legacy, handed, taken, stuck>>,
           val'[p] = val[p], next'[p] = next[p], pc[p] \notin {"wr", "wr_print"},
           NEW l \in PumpPc \cup ChangePc \cup {"ha_lock"}, NEW t, NEW v, Moved(p, l, t, v),
           l \notin {"wr", "wr_print", "co_remove", "op_fork", "op_fopen"},
           l \in {"up", "rd_check", "rd_gets"} => t = job.from[p],
           l = "rd_gets" => v = fh'[job.from[p]]
    PROVE  Reader(p)'
  <1>1. pc'[p] = l /\ on'[p] = t /\ at'[p] = v
    BY MovedTo DEF Threads
  <1>2. \A k : ~Waits(p, k) /\ ~Waits(p, k)'
    BY <1>1 DEF Waits
  <1>3. next'[p] = 1 /\ (val'[p] = <<>> \/ (Holds(p)' /\ Held(p)'))
    BY ShapeMove DEF Reader, Shape, Held
  <1>4. Shape(p)'
    BY <1>1, <1>3, ShapeMove DEF Shape
  <1> QED
    BY <1>1, <1>2, <1>4, ReaderMove

\* It gets nothing, or what it holds.
LEMMA ReaderGot ==
    ASSUME TypeOK, Later, NEW p \in Pumps, Reader(p), term' = term,
           UNCHANGED <<job, legacy, handed, taken, stuck>>,
           pc[p] \notin {"wr", "wr_print"},
           NEW vals, Got(p, vals),
           vals \in {<<>>, <<Void>>} \/ (Holds(p) /\ vals = val[p] /\ p \in again')
    PROVE  Reader(p)'
  <1>0. handed[p] \in Seq(Lines) /\ Void \notin Lines
    BY DEF TypeOK, PumpType, Void, Lines
  <1>1. pc'[p] = "wr" /\ val'[p] = vals /\ next'[p] = 1
    BY DEF Got, Enter, Goto, TypeOK, PumpType, Threads
  <1>2. \A k : ~Waits(p, k)
    BY DEF Waits
  <1>3. \/ vals \in {<<>>, <<Void>>}
        \/ Holds(p) /\ handed[p] # <<>> /\ vals = <<Last(p)>> /\ p \in again'
    BY DEF Reader, Shape, Held
  <1>4. ASSUME NEW k \in Lines, Waits(p, k)' PROVE handed[p] # <<>> /\ k = Last(p)
    <2>1. vals = <<k>>
      BY <1>1, <1>4 DEF Waits
    <2>2. k # Void
      BY <1>0
    <2> QED
      BY <1>3, <2>1, <2>2
  <1>5. ASSUME Holds(p), handed[p] # <<>>, vals = <<Last(p)>>, p \in again'
        PROVE  \E k \in Lines : Waits(p, k)' /\ Awaited(p, k)'
    <2>1. PICK k : k = Last(p)
      OBVIOUS
    <2>2. Len(handed[p]) \in DOMAIN handed[p] /\ k \in Lines
      BY <1>0, <1>5, <2>1 DEF Last
    <2>3. Mine(p, k[1])' /\ Opened(k[1])'
      BY <2>1, <2>2, HandedMove DEF Reader, Shape, Last
    <2>4. Awaited(p, k)'
      BY <1>5, <2>1, <2>3, ShapeMove DEF Awaited
    <2>5. Waits(p, k)'
      BY <1>1, <1>5, <2>1 DEF Waits
    <2> QED
      BY <2>2, <2>4, <2>5
  <1>6. Shape(p)'
    BY <1>1, <1>3, <1>5, ShapeMove DEF Shape
  <1> QED
    BY <1>1, <1>2, <1>4, <1>6, ReaderMove

\* It is through with a value.
LEMMA ReaderEnds ==
    ASSUME TypeOK, Later, NEW p \in Pumps, Reader(p), term' = term,
           UNCHANGED <<job, legacy, handed, taken, stuck>>, PassEnd(p), pc'[p] # "done"
    PROVE  Reader(p)'
  <1>0. /\ val \in [Pumps -> Seq(Lines \cup {Void})] /\ next \in [Pumps -> Nat \ {0}]
        /\ pc \in [Threads -> Labels] /\ on \in [Threads -> Terminals \cup {NoTerminal}] /\ p \in Threads
    BY DEF TypeOK, PumpType, TerminalType, ThreadType, Labels, Threads
  <1>1. pc[p] = "wr" /\ next[p] > Len(val[p]) /\ pc'[p] = "up" /\ on'[p] = job.from[p] /\ next'[p] = 1
    BY <1>0 DEF PassEnd, Pass, Enter, Goto
  <1>a. ASSUME NEW w, next[p] = 1 PROVE val[p] # <<w>>
    <2>1. SUFFICES ASSUME val[p] = <<w>> PROVE FALSE
      OBVIOUS
    <2>2. Len(val[p]) = 1
      BY <2>1
    <2> QED
      BY <1>1, <1>a, <2>2
  <1>2. val'[p] = IF Holds(p) THEN val[p] ELSE <<>>
    BY <1>0 DEF PassEnd, Holds
  <1>3. val[p] = <<>> \/ Held(p)
    BY <1>1, <1>a DEF Reader, Shape, Waits
  <1>4. val'[p] = <<>> \/ (Holds(p)' /\ Held(p)')
    BY <1>2, <1>3, ShapeMove DEF Held
  <1>5. (\A k : ~Waits(p, k)) /\ \A k : ~Waits(p, k)'
    BY <1>1, <1>a DEF Waits
  <1>6. Shape(p)'
    BY <1>1, <1>4, ShapeMove DEF Shape
  <1> QED
    BY <1>1, <1>5, <1>6, ReaderMove

\* It takes the FILE to write to.
LEMMA ReaderWrites ==
    ASSUME TypeOK, Later, NEW p \in Pumps, Reader(p), term' = term,
           UNCHANGED <<job, legacy, handed, taken, stuck, val, next, again>>, pc[p] = "wr", pc'[p] = "wr_print"
    PROVE  Reader(p)'
  <1>1. \A k : Waits(p, k)' <=> Waits(p, k)
    BY DEF Waits
  <1>2. (next'[p] = next[p]) /\ (val'[p] = val[p]) /\ (Held(p)' <=> Held(p))
    BY ShapeMove DEF Held
  <1>3. \/ next'[p] = 1 /\ val'[p] \in {<<>>, <<Void>>}
        \/ \E k \in Lines : Waits(p, k)' /\ Awaited(p, k)'
        \/ next'[p] = 2 /\ Held(p)'
    BY <1>1, <1>2, ShapeMove DEF Reader, Shape
  <1>4. Shape(p)'
    BY <1>3, ShapeMove DEF Shape
  <1> QED
    BY <1>1, <1>4, ReaderMove

\* It gets a line of the session it reads: the next one, or, if the FILE was
\* stuck, the last once more.
LEMMA ReaderGets ==
    ASSUME TypeOK, OpenedInv, Owned, Later, NEW p \in Pumps, Ordered(p), Reader(p),
           term' = term, UNCHANGED <<job, legacy, handed>>, pc[p] = "rd_gets",
           NEW l \in Lines, GetsLine(p, l), Receive(p, Delivered(p, l), at[p] \in stuck)
    PROVE  Reader(p)'
  <1>1. PICK s : s = at[p]
    OBVIOUS
  <1>2. /\ s \in Made /\ s \in Sessions /\ Mine(p, s) /\ Opened(s)
        /\ taken[s] \in Nat /\ p \in Threads
    <2>1. p \in Threads
      BY DEF Threads
    <2>2. s \in Made /\ s \in Sessions /\ taken[s] \in Nat
      BY <1>1, <2>1, Bounds DEF TypeOK, TerminalType, ThreadType, SessionType, FilePc
    <2>3. on[p] = job.from[p] /\ term[s] = on[p] /\ Opened(s)
      BY <1>1, <2>1 DEF Reader, Shape, Owned, OpenedInv, FilePc
    <2> QED
      BY <2>1, <2>2, <2>3 DEF Mine
  <1>3. /\ l = <<s, taken[s] + 1>>
        /\ \A u \in Sessions \ {s} : taken'[u] = taken[u] /\ (u \in stuck' <=> u \in stuck)
        /\ \/ taken'[s] = taken[s] + 1 /\ s \notin stuck'
           \/ taken'[s] = taken[s] /\ s \in stuck'
    BY <1>1, TakenAt
  <1>4. /\ pc'[p] = "wr" /\ val'[p] = <<l>> /\ next'[p] = 1
    <2>1. Delivered(p, l) = <<l>>
      BY DEF Delivered, Void, Lines
    <2> QED
      BY <1>2, <2>1 DEF Receive, Got, Enter, Goto, TypeOK, PumpType
  <1>5. (\A k : ~Waits(p, k)) /\ \A k : Waits(p, k)' <=> k = l
    BY <1>4 DEF Waits
  <1>6. PICK n \in Nat : Has(p, s, n) /\ Balance(p, s, n)
    BY <1>2 DEF Reader, Account
  <1>7. \/ taken[s] = n
        \/ taken[s] + 1 = n /\ s \in stuck /\ Last(p)[1] = s
    BY <1>1, <1>5, <1>6 DEF Balance, Dead
  <1>8. ASSUME taken[s] + 1 = n, Last(p)[1] = s PROVE handed[p] # <<>> /\ Last(p) = l
    <2>1. n \in 1..n
      BY <1>2, <1>8
    <2>2. handed[p] # <<>>
      BY <1>6, <2>1 DEF Has
    <2> QED
      BY <1>3, <1>6, <1>8, <2>2, LastPlace
  <1>9. Awaited(p, l)'
    <2>1. Mine(p, l[1])' /\ Opened(l[1])' /\ l[1] = s
      BY <1>2, <1>3, HandedMove
    <2>2. CASE taken[s] = n
      <3>1. l[2] > 0 /\ l[2] - 1 = n
        BY <1>2, <1>3, <2>2
      <3>2. Has(p, l[1], l[2] - 1)'
        BY <1>6, <2>1, <3>1, HandedMove
      <3> QED
        BY <2>1, <3>1, <3>2 DEF Awaited
    <2>3. CASE taken[s] + 1 = n /\ s \in stuck /\ Last(p)[1] = s
      <3>1. p \in again'
        BY <1>1, <2>3 DEF Receive
      <3>2. handed'[p] # <<>> /\ l = Last(p)'
        BY <1>8, <2>3, HandedMove
      <3> QED
        BY <2>1, <3>1, <3>2 DEF Awaited
    <2> QED
      BY <1>7, <2>2, <2>3
  <1>10. Account(p, s)'
    <2>1. CASE taken[s] = n
      <3>1. l = <<s, n + 1>>
        BY <1>3, <2>1
      <3>2. Balance(p, s, n)'
        BY <1>2, <1>3, <1>5, <2>1, <3>1 DEF Balance
      <3> QED
        BY <1>6, <3>2, HandedMove DEF Account
    <2>2. CASE taken[s] + 1 = n /\ s \in stuck /\ Last(p)[1] = s
      <3>1. l = <<s, n>> /\ l # <<s, n + 1>>
        BY <1>2, <1>3, <2>2
      <3>2. ~Elsewhere(p, s)'
        BY <1>4, <1>5, <3>1 DEF Elsewhere
      <3>3. ~Waits(p, <<s, n + 1>>)'
        BY <1>5, <3>1
      <3>4. Balance(p, s, n)'
        BY <1>2, <1>3, <2>2, <3>1, <3>2, <3>3, HandedMove DEF Balance
      <3> QED
        BY <1>6, <3>4, HandedMove DEF Account
    <2> QED
      BY <1>7, <2>1, <2>2
  <1>11. ASSUME NEW u \in Sessions, Mine(p, u), u # s PROVE Account(p, u)'
    <2>1. PICK m \in Nat : Has(p, u, m) /\ Balance(p, u, m)
      BY <1>11 DEF Reader, Account
    <2>2. ~Waits(p, <<u, m + 1>>)'
      BY <1>3, <1>5, <1>11
    <2>3. (taken[u] = m /\ u \notin stuck) \/ (taken[u] + 1 = m /\ u \in stuck /\ Dead(p, u))
      BY <1>1, <1>5, <1>11, <2>1 DEF Balance, Elsewhere
    <2>4. Dead(p, u) => Dead(p, u)'
      BY <1>4, <1>11, JobType DEF Dead, Later, Mine
    <2>5. Balance(p, u, m)'
      BY <1>3, <1>11, <2>2, <2>3, <2>4 DEF Balance
    <2> QED
      BY <2>1, <2>5, HandedMove DEF Account
  <1>12. \A u \in Sessions : Mine(p, u)' => Mine(p, u)
    BY DEF Mine, Made
  <1>13. Shape(p)'
    BY <1>4, <1>5, <1>9, HandedMove DEF Shape
  <1> QED
    BY <1>10, <1>11, <1>12, <1>13 DEF Reader

\* It writes what waits; only the last line, once more, is not counted.
LEMMA ReaderPrints ==
    ASSUME TypeOK, Later, NEW p \in Pumps, OnTerminal(p), Ordered(p), Reader(p),
           term' = term, UNCHANGED <<job, legacy, taken, stuck>>, WritePrint(p)
    PROVE  Ordered(p)' /\ Reader(p)'
  <1>0. /\ val \in [Pumps -> Seq(Lines \cup {Void})] /\ next \in [Pumps -> Nat \ {0}]
        /\ handed \in [Pumps -> Seq(Lines)] /\ p \in Threads /\ Void \notin Lines
    BY DEF TypeOK, PumpType, Threads, Void, Lines
  <1>1. pc[p] = "wr_print" /\ next[p] \in 1..Len(val[p]) /\ val[p][next[p]] \in Lines
    BY <1>0 DEF WritePrint, TypeOK, PumpType
  <1>2. pc'[p] = "wr" /\ val'[p] = val[p] /\ next'[p] = next[p] + 1
    BY <1>0 DEF WritePrint, Enter, Goto, TypeOK, PumpType
  <1>3. PICK l \in Lines : Waits(p, l) /\ Awaited(p, l)
    <2>1. val[p] # <<>>
      BY <1>1
    <2>2. next[p] = 1 => val[p] # <<Void>>
      BY <1>0, <1>1
    <2>3. next[p] = 2 => \A w : val[p] # <<w>>
      <3>1. SUFFICES ASSUME next[p] = 2, NEW w, val[p] = <<w>> PROVE FALSE
        OBVIOUS
      <3>2. Len(val[p]) = 1
        BY <3>1
      <3> QED
        BY <1>1, <3>1, <3>2
    <2> QED
      BY <1>1, <2>1, <2>2, <2>3 DEF Reader, Shape, Held
  <1>4. next[p] = 1 /\ val[p] = <<l>> /\ val[p][next[p]] = l /\ next'[p] = 2
    BY <1>2, <1>3 DEF Waits
  <1>5. handed'[p] = IF MayRepeat(p, l) THEN handed[p] ELSE Append(handed[p], l)
    <2>1. handed' = IF MayRepeat(p, l) THEN handed ELSE [handed EXCEPT ![p] = Append(@, l)]
      BY <1>4 DEF WritePrint
    <2> QED
      BY <1>0, <2>1
  <1>6. MayRepeat(p, l) <=> handed[p] # <<>> /\ l = Last(p) /\ p \in again
    BY DEF MayRepeat, Last
  <1>7. \A k : ~Waits(p, k)'
    BY <1>4 DEF Waits
  <1>8. \A s : Mine(p, s) <=> Mine(p, s)'
    BY DEF Mine, Made
  <1>9. \A s : Mine(p, s) /\ Dead(p, s) => Dead(p, s)'
    BY <1>2, JobType DEF Dead, Later, Mine
  <1>10. CASE MayRepeat(p, l)
    <2>1. handed'[p] = handed[p] /\ handed[p] # <<>> /\ l = Last(p)
      BY <1>5, <1>6, <1>10
    <2>2. (\A s, n : Has(p, s, n)' <=> Has(p, s, n)) /\ Last(p)' = Last(p)
      BY <2>1 DEF Has, Last
    <2>3. Ordered(p)'
      <3>1. First(p)' = First(p)
        BY DEF First
      <3> QED
        BY <2>1, <3>1 DEF Ordered
    <2>4. Shape(p)'
      <3>1. Held(p)'
        BY <1>2, <1>4, <2>1, <2>2 DEF Held
      <3>2. ASSUME NEW i \in DOMAIN handed'[p] PROVE (Mine(p, handed[p][i][1]) /\ Opened(handed[p][i][1]))'
        <4>1. PICK s : s = handed[p][i][1]
          OBVIOUS
        <4>2. Mine(p, s) /\ Opened(s) /\ handed'[p][i][1] = s
          BY <2>1, <3>2, <4>1 DEF Reader, Shape
        <4>3. Mine(p, s)' /\ Opened(s)'
          BY <4>2 DEF Mine, Later
        <4> QED
          BY <4>2, <4>3 DEF Mine, Opened
      <3> QED
        BY <1>2, <1>4, <3>1, <3>2 DEF Shape
    <2>5. ASSUME NEW s \in Sessions, Mine(p, s) PROVE Account(p, s)'
      <3>1. PICK n \in Nat : Has(p, s, n) /\ Balance(p, s, n)
        BY <2>5 DEF Reader, Account
      <3>2. l # <<s, n + 1>>
        <4>1. SUFFICES ASSUME Last(p)[1] = s PROVE l # <<s, n + 1>>
          BY <2>1
        <4>2. l = <<s, n>>
          BY <2>1, <3>1, <4>1, LastPlace
        <4> QED
          BY <4>2
      <3>3. ~Waits(p, <<s, n + 1>>)
        BY <1>4, <3>2 DEF Waits
      <3>4. ~Elsewhere(p, s)'
        BY <1>2, <1>7 DEF Elsewhere
      <3>5. Balance(p, s, n)'
        BY <1>7, <1>9, <2>2, <2>5, <3>1, <3>3, <3>4 DEF Balance
      <3> QED
        BY <2>2, <3>1, <3>5 DEF Account
    <2> QED
      BY <1>8, <2>3, <2>4, <2>5 DEF Reader
  <1>11. CASE ~MayRepeat(p, l)
    <2>0. PICK s : s = l[1]
      OBVIOUS
    <2>1. PICK n \in Nat : l = <<s, n + 1>> /\ Has(p, s, n)
      <3>1. l[2] > 0 /\ Has(p, l[1], l[2] - 1)
        BY <1>3, <1>6, <1>11 DEF Awaited
      <3>2. l = <<l[1], l[2]>> /\ l[2] \in Nat
        BY Bounds DEF Lines
      <3>3. l[2] - 1 \in Nat /\ l[2] - 1 + 1 = l[2]
        BY <3>1, <3>2
      <3> QED
        BY <2>0, <3>1, <3>2, <3>3
    <2>2. handed'[p] = Append(handed[p], <<s, n + 1>>)
      BY <1>5, <1>11, <2>1
    <2>3. /\ Ordered(p)'
          /\ Has(p, s, n + 1)'
          /\ \A u, m : u # s /\ Has(p, u, m) => Has(p, u, m)'
          /\ Last(p)' = <<s, n + 1>> /\ handed'[p] # <<>>
          /\ \A i \in DOMAIN handed'[p] : \/ handed'[p][i][1] = s
                                          \/ i \in DOMAIN handed[p] /\ handed'[p][i] = handed[p][i]
      BY <2>1, <2>2, HasNext
    <2>4. Mine(p, s) /\ Opened(s) /\ s \in Sessions
      BY <1>3, <2>0 DEF Awaited, Mine, TypeOK, TerminalType, SessionType
    <2>5. Shape(p)'
      <3>1. Held(p)'
        BY <1>2, <1>4, <2>1, <2>3 DEF Held
      <3>2. ASSUME NEW i \in DOMAIN handed'[p] PROVE (Mine(p, handed[p][i][1]) /\ Opened(handed[p][i][1]))'
        <4>1. PICK u : u = handed'[p][i][1]
          OBVIOUS
        <4>2. Mine(p, u) /\ Opened(u)
          BY <2>3, <2>4, <3>2, <4>1 DEF Reader, Shape
        <4>3. Mine(p, u)' /\ Opened(u)'
          BY <4>2 DEF Mine, Later
        <4> QED
          BY <4>1, <4>3 DEF Mine, Opened
      <3> QED
        BY <1>2, <1>4, <3>1, <3>2 DEF Shape
    <2>6. Account(p, s)'
      <3>1. PICK m \in Nat : Has(p, s, m) /\ Balance(p, s, m)
        BY <2>4 DEF Reader, Account
      <3>2. m = n
        BY <2>1, <3>1, HasOne
      <3>3. taken[s] \in Nat /\ Waits(p, <<s, n + 1>>)
        BY <1>3, <2>1, <2>4, Bounds DEF TypeOK, TerminalType, SessionType
      <3>4. (taken[s] = n + 1 /\ s \notin stuck) \/ (taken[s] = n /\ s \in stuck)
        BY <3>1, <3>2, <3>3 DEF Balance
      <3>5. ~Elsewhere(p, s)'
        BY <1>2, <1>7 DEF Elsewhere
      <3>6. Last(p)'[1] = s
        BY <2>3
      <3>7. Balance(p, s, n + 1)'
        BY <1>7, <3>3, <3>4, <3>5, <3>6 DEF Balance
      <3> QED
        BY <2>3, <3>7 DEF Account
    <2>7. ASSUME NEW u \in Sessions, Mine(p, u), u # s PROVE Account(p, u)'
      <3>1. PICK m \in Nat : Has(p, u, m) /\ Balance(p, u, m)
        BY <2>7 DEF Reader, Account
      <3>2. ~Waits(p, <<u, m + 1>>) /\ Elsewhere(p, u)
        BY <1>3, <2>0, <2>1, <2>7 DEF Waits, Elsewhere
      <3>3. (taken[u] = m /\ u \notin stuck) \/ (taken[u] + 1 = m /\ u \in stuck /\ Dead(p, u)')
        BY <1>9, <2>7, <3>1, <3>2 DEF Balance
      <3>4. Balance(p, u, m)'
        BY <1>7, <3>3 DEF Balance
      <3> QED
        BY <2>3, <2>7, <3>1, <3>4 DEF Account
    <2> QED
      BY <1>8, <2>3, <2>5, <2>6, <2>7 DEF Reader
  <1> QED
    BY <1>10, <1>11

\* A pump on a terminal keeps its lines in order, and its account while it runs.
Lined(p) == Ordered(p) /\ (pc[p] \notin {"done", "thrown"} => Reader(p))

\* Whatever does not write leaves the order alone.
LEMMA OrderedSame ==
    ASSUME NEW p, Ordered(p), job' = job, handed'[p] = handed[p]
    PROVE  Ordered(p)'
  <1>1. First(p)' = First(p)
    BY DEF First
  <1> QED
    BY <1>1 DEF Ordered

\* The steps of the pump itself,
LEMMA ReaderOwn ==
    ASSUME TypeOK, OpenedInv, Owned, Later, NEW p \in Pumps, OnTerminal(p), Lined(p),
           Start(p) \/ LegacyStart(p) \/ PumpStep(p)
    PROVE  Lined(p)'
  <1>0. /\ UNCHANGED <<job, legacy, term, fh>> /\ p \in Threads
        /\ at = [at EXCEPT ![p] = at[p]]
    BY PumpEffects DEF Effects, sameVars, sessionVars, nodeVars, Threads, TypeOK, TerminalType, ThreadType
  <1>1. pc[p] \notin {"done", "thrown"} /\ Ordered(p) /\ Reader(p)
    <2>1. pc[p] \notin {"done", "thrown"}
      BY DEF Receive, Start, LegacyStart, Begin, PumpStep, StringUpdate, StreamUpdate, ReadCheck, ReadGets, UpdateCheck, UpdateGets,
         FileUpdate, ContainerCheck, ContainerRemove, PassEnd, WriteOne, LegacyWriteOne, WritePrint
    <2> QED
      BY <2>1 DEF Lined
  <1>2. /\ job.kind[p] \in {"read", "string", "stream"} /\ pc[p] # "co_remove"
        /\ pc[p] \in {"up", "rd_check", "rd_gets"} => on[p] = job.from[p]
    BY <1>1 DEF OnTerminal, Reader, Shape
  <1>3. ASSUME NEW l, Moves(p, l) PROVE Moved(p, l, on[p], at[p]) /\ UNCHANGED <<val, next>>
    BY <1>3, Ways DEF Moves
  <1>4. Delivered(p, Void) \in {<<>>, <<Void>>}
    BY DEF Delivered
  <1>5. CASE WritePrint(p)
    BY <1>0, <1>1, <1>5, ReaderPrints DEF WritePrint, writeRest, Lined
  <1>6. ASSUME Reader(p)' \/ pc'[p] \in {"done", "thrown"}, handed' = handed PROVE Lined(p)'
    BY <1>0, <1>1, <1>6, OrderedSame DEF Lined
  <1>7. CASE Start(p) \/ LegacyStart(p)
    <2>1. pc[p] = "idle" /\ Moved(p, "up", job.from[p], at[p]) /\ UNCHANGED <<val, next, handed, taken, stuck>>
      BY <1>0, <1>7 DEF Start, LegacyStart, Begin, Pass, Enter, Goto, Moved, lineVars, pumpVars
    <2>2. Reader(p)'
      BY <1>0, <1>1, <2>1, ReaderGoes DEF PumpPc
    <2> QED
      BY <1>6, <2>1, <2>2
  <1>8. CASE StringUpdate(p) \/ StreamUpdate(p)
    <2>1. /\ pc[p] = "up" /\ UNCHANGED <<handed, taken, stuck>>
          /\ \/ Got(p, <<>>)
             \/ Holds(p) /\ Got(p, val[p]) /\ p \in again'
             \/ Moves(p, "rd_check")
      BY <1>8 DEF Receive, StringUpdate, StreamUpdate, sourceRest, Holds
    <2>2. CASE Moves(p, "rd_check")
      <3>1. Moved(p, "rd_check", job.from[p], at[p]) /\ UNCHANGED <<val, next>>
        BY <1>2, <1>3, <2>1, <2>2
      <3>2. Reader(p)'
        BY <1>0, <1>1, <2>1, <3>1, ReaderGoes DEF PumpPc
      <3> QED
        BY <1>6, <2>1, <3>2
    <2>3. CASE Got(p, <<>>) \/ (Holds(p) /\ Got(p, val[p]) /\ p \in again')
      BY <1>0, <1>1, <1>6, <2>1, <2>3, ReaderGot
    <2> QED
      BY <2>1, <2>2, <2>3
  <1>9. CASE ReadCheck(p) \/ UpdateCheck(p)
    <2>1. /\ pc[p] \in {"up", "rd_check"} /\ UNCHANGED <<handed, taken, stuck>>
          /\ \/ Got(p, Delivered(p, Void)) \/ Got(p, <<>>)
             \/ Pick(p, "rd_gets") /\ UNCHANGED <<val, next>>
      BY <1>9 DEF Receive, ReadCheck, UpdateCheck, sourceRest
    <2>2. CASE Pick(p, "rd_gets") /\ UNCHANGED <<val, next>>
      <3>1. Moved(p, "rd_gets", job.from[p], fh'[job.from[p]])
        BY <1>0, <1>2, <2>1, <2>2, Ways
      <3>2. UNCHANGED <<handed, taken, stuck, val, next>> /\ pc[p] \notin {"wr", "wr_print"}
        BY <2>1, <2>2
      <3>3. Reader(p)'
        BY <1>0, <1>1, <3>1, <3>2, ReaderGoes DEF PumpPc
      <3> QED
        BY <1>6, <3>2, <3>3
    <2>3. CASE Got(p, Delivered(p, Void)) \/ Got(p, <<>>)
      BY <1>0, <1>1, <1>4, <1>6, <2>1, <2>3, ReaderGot
    <2> QED
      BY <2>1, <2>2, <2>3
  <1>10. CASE ReadGets(p) \/ UpdateGets(p)
    <2>1. /\ pc[p] = "rd_gets" /\ handed' = handed
          /\ \/ \E l \in Lines : GetsLine(p, l) /\ Receive(p, Delivered(p, l), at[p] \in stuck)
             \/ GetsEnd(p) /\ (Moves(p, "ha_lock") \/ Moves(p, "ha_close"))
      BY <1>10 DEF ReadGets, UpdateGets, sourceRest
    <2>2. ASSUME NEW l \in Lines, GetsLine(p, l), Receive(p, Delivered(p, l), at[p] \in stuck) PROVE Reader(p)'
      BY <1>0, <1>1, <2>1, <2>2, ReaderGets
    <2>3. ASSUME NEW l \in {"ha_lock", "ha_close"}, GetsEnd(p), Moves(p, l) PROVE Reader(p)'
      <3>1. UNCHANGED <<taken, stuck, val, next>> /\ Moved(p, l, on[p], at[p])
        BY <1>3, <2>3 DEF GetsEnd
      <3> QED
        BY <1>0, <1>1, <2>1, <3>1, ReaderGoes DEF ChangePc, HaltPc
    <2> QED
      BY <1>6, <2>1, <2>2, <2>3
  <1>11. CASE PassEnd(p)
    <2>1. UNCHANGED <<handed, taken, stuck>>
      BY <1>11 DEF PassEnd, writeRest
    <2>2. pc'[p] # "done" => Reader(p)'
      BY <1>0, <1>1, <1>11, <2>1, ReaderEnds
    <2> QED
      BY <1>6, <2>1, <2>2
  <1>12. CASE WriteOne(p) \/ LegacyWriteOne(p)
    <2>1. pc[p] = "wr" /\ UNCHANGED <<handed, taken, stuck, val, next, again>>
      BY <1>12 DEF WriteOne, LegacyWriteOne, writeRest, pumpVars
    <2>2. pc' \in {[pc EXCEPT ![p] = "thrown"], [pc EXCEPT ![p] = "wr_print"]}
      BY <1>12 DEF WriteOne, LegacyWriteOne, NotOpen, TakeFile, Enter, Goto
    <2>3. pc'[p] \in {"thrown", "wr_print"}
      BY <1>0, <2>2 DEF TypeOK, PumpType
    <2>4. pc'[p] = "wr_print" => Reader(p)'
      BY <1>0, <1>1, <2>1, ReaderWrites
    <2> QED
      BY <1>6, <2>1, <2>3, <2>4
  <1>13. ~(FileUpdate(p) \/ ContainerCheck(p) \/ ContainerRemove(p))
    BY <1>2 DEF Receive, FileUpdate, ContainerCheck, ContainerRemove
  <1> QED
    BY <1>5, <1>7, <1>8, <1>9, <1>10, <1>11, <1>12, <1>13 DEF PumpStep

\* those in which it halts the terminal at its end,
LEMMA ReaderHalts ==
    ASSUME TypeOK, Later, NEW p \in Pumps, OnTerminal(p), Lined(p),
           (Halts(p) /\ UNCHANGED programVars) \/ HaltReturn(p)
    PROVE  Lined(p)'
  <1>1. CASE Halts(p) /\ UNCHANGED programVars
    <2>1. /\ UNCHANGED <<job, legacy, term, taken, stuck, val, next, handed>>
          /\ pc[p] \in {"ha_lock", "ha_close", "ha_null"}
      BY <1>1 DEF Halts, HaltLock, HaltClose, HaltNull, lineVars, sessionVars, programVars, pumpVars
    <2>2. PICK l \in {"ha_close", "ha_null", "ha_kill"} : Moved(p, l, on[p], at[p])
      BY <1>1, Paths DEF Halts, Threads
    <2>3. Ordered(p) /\ Reader(p)
      BY <2>1 DEF Lined
    <2>4. Reader(p)'
      BY <2>1, <2>2, <2>3, ReaderGoes DEF ChangePc, HaltPc
    <2> QED
      BY <2>1, <2>3, <2>4, OrderedSame DEF Lined
  <1>2. CASE HaltReturn(p)
    <2>1. UNCHANGED <<job, legacy, term, taken, stuck, handed>> /\ pc[p] = "ha_kill" /\ p \in Threads
      BY <1>2, ReturnEffects DEF lineVars, Threads
    <2>2. Got(p, Delivered(p, Void))
      BY <1>2, <2>1, ReturnEffects, ThreadAssumption
    <2>3. Ordered(p) /\ Reader(p) /\ Delivered(p, Void) \in {<<>>, <<Void>>}
      BY <2>1 DEF Lined, Delivered
    <2>4. Reader(p)'
      BY <2>1, <2>2, <2>3, ReaderGot
    <2> QED
      BY <2>1, <2>3, <2>4, OrderedSame DEF Lined
  <1> QED
    BY <1>1, <1>2

\* No two pumps read one terminal: of two, each would get some of the lines.
OneReader ==
    \A j \in Jobs : \A p, q \in Pumps :
        /\ {j.kind[p], j.kind[q]} \subseteq {"read", "string", "stream"}
        /\ j.from[p] = j.from[q]
        => p = q

\* What holds of every pump: on a terminal, of none, and with it of the rest.
InLine(p) ==
    /\ OnTerminal(p) => Lined(p)
    /\ job.kind[p] = "none" => pc[p] = "idle" /\ handed[p] = <<>>
LineInv == OpenedInv /\ \A p \in Pumps : InLine(p)

\* A step that is not the pump's, and takes nothing from its terminal,
LEMMA LineSame ==
    ASSUME TypeOK, TypeOK', OpenedInv, Later, NEW p \in Pumps, InLine(p), UNCHANGED <<job, legacy>>,
           pc'[p] = pc[p], on'[p] = on[p], at'[p] = at[p],
           val'[p] = val[p], next'[p] = next[p], handed'[p] = handed[p], p \in again' <=> p \in again,
           \A s \in Sessions : (OnTerminal(p) /\ Mine(p, s)) \/ s \notin Made
                               => taken'[s] = taken[s] /\ (s \in stuck' <=> s \in stuck)
    PROVE  InLine(p)'
  <1>1. OnTerminal(p)' = OnTerminal(p)
    BY DEF OnTerminal
  <1>2. ASSUME OnTerminal(p) PROVE Lined(p)'
    <2>1. Ordered(p)'
      BY <1>2, OrderedSame DEF InLine, Lined
    <2>2. ASSUME pc'[p] \notin {"done", "thrown"} PROVE Reader(p)'
      <3>1. Reader(p)
        BY <1>2, <2>2 DEF InLine, Lined
      <3>2. \A s \in Sessions : Mine(p, s) \/ s \notin Made => taken'[s] = taken[s] /\ (s \in stuck' <=> s \in stuck)
        BY <1>2
      <3> QED
        BY <3>1, <3>2, ReaderOther
    <2> QED
      BY <2>1, <2>2 DEF Lined
  <1> QED
    BY <1>1, <1>2 DEF InLine

\* such as one of a controller.
LEMMA LineMove ==
    ASSUME TypeOK, TypeOK', OpenedInv, Later, NEW p \in Pumps, InLine(p), UNCHANGED <<job, legacy, taken, stuck>>,
           NEW x \in Threads \ {p}, NEW l, NEW u, NEW v, Moved(x, l, u, v),
           val'[p] = val[p], next'[p] = next[p], handed'[p] = handed[p], p \in again' <=> p \in again
    PROVE  InLine(p)'
  <1>1. pc'[p] = pc[p] /\ on'[p] = on[p] /\ at'[p] = at[p]
    BY MovedTo DEF Threads
  <1> QED
    BY <1>1, LineSame

\* A pump takes lines only of the terminal that it reads.
LEMMA LineTaken ==
    ASSUME TypeOK, Owned, FlowInv, NEW q \in Pumps, InLine(q), pc[q] = "rd_gets"
    PROVE  OnTerminal(q) /\ at[q] \in Made /\ term[at[q]] = job.from[q]
  <1>1. q \in Threads
    BY DEF Threads
  <1>2. OnTerminal(q)
    <2>1. job.kind[q] # "none"
      BY DEF InLine
    <2>2. ~HasSource(q)
      BY DEF FlowInv, Flow
    <2> QED
      BY <2>1, <2>2, JobType DEF Kinds, HasSource, OnTerminal
  <1>3. on[q] = job.from[q]
    BY <1>2 DEF InLine, Lined, Reader, Shape
  <1>4. term[at[q]] = on[q]
    BY <1>1 DEF Owned, FilePc
  <1>5. at[q] \in Made
    BY <1>1 DEF TypeOK, TerminalType, ThreadType, FilePc
  <1> QED
    BY <1>2, <1>3, <1>4, <1>5

\* The steps of the pumps keep the lines in order,
LEMMA LinePump ==
    ASSUME OneReader, TypeOK, TypeOK', Owned, FlowInv, LineInv, Later,
           NEW q \in Pumps, Start(q) \/ LegacyStart(q) \/ PumpStep(q), NEW p \in Pumps
    PROVE  InLine(p)'
  <1>1. UNCHANGED <<job, legacy>> /\ Effects(q) /\ InLine(q) /\ InLine(p) /\ OpenedInv
    BY PumpEffects DEF Effects, sameVars, LineInv
  <1>2. CASE p = q
    <2>1. OnTerminal(p)' = OnTerminal(p)
      BY <1>1 DEF OnTerminal
    <2>2. OnTerminal(p) => Lined(p)'
      BY <1>1, <1>2, ReaderOwn DEF InLine
    <2>3. job.kind[p] # "none"
      BY <1>1, <1>2 DEF Receive, InLine, Start, LegacyStart, Begin, PumpStep, StringUpdate, StreamUpdate, ReadCheck, ReadGets,
         UpdateCheck, UpdateGets, FileUpdate, ContainerCheck, ContainerRemove, PassEnd, WriteOne, LegacyWriteOne, WritePrint
    <2> QED
      BY <1>1, <2>1, <2>2, <2>3 DEF InLine
  <1>3. CASE p # q
    <2>1. val'[p] = val[p] /\ next'[p] = next[p] /\ handed'[p] = handed[p] /\ (p \in again' <=> p \in again)
      BY <1>3, PumpOwn
    <2>2. q \in Threads \ {p} /\ p \in Threads \ {q}
      BY <1>3 DEF Threads
    <2>3. \E l, u, v : Moved(q, l, u, v)
      BY <1>1 DEF Effects, Rests, Takes, Quits
    <2>4. pc'[p] = pc[p] /\ on'[p] = on[p] /\ at'[p] = at[p]
      BY <2>2, <2>3, MovedTo
    <2>5. ASSUME NEW s \in Sessions, (OnTerminal(p) /\ Mine(p, s)) \/ s \notin Made
          PROVE  taken'[s] = taken[s] /\ (s \in stuck' <=> s \in stuck)
      <3>1. CASE UNCHANGED <<taken, stuck>>
        BY <3>1
      <3>2. ASSUME NEW l \in Lines, pc[q] = "rd_gets", GetsLine(q, l) PROVE taken'[s] = taken[s] /\ (s \in stuck' <=> s \in stuck)
        <4>1. OnTerminal(q) /\ at[q] \in Made /\ term[at[q]] = job.from[q]
          BY <1>1, <3>2, LineTaken
        <4>2. OnTerminal(p) => job.from[p] # job.from[q]
          BY <1>3, <4>1 DEF OneReader, OnTerminal, TypeOK, PumpType
        <4>3. s # at[q]
          BY <2>5, <4>1, <4>2 DEF Mine
        <4> QED
          BY <3>2, <4>3, TakenAt
      <3> QED
        BY <3>1, <3>2, TakenBy
    <2> QED
      BY <1>1, <2>1, <2>4, <2>5, LineSame
  <1> QED
    BY <1>2, <1>3

\* and so do those of open(), close() and halt(),
LEMMA LineChange ==
    ASSUME TypeOK, TypeOK', LineInv, Later, NEW p \in Pumps, NEW x \in Threads,
           ((Opens(x) \/ Halts(x)) /\ UNCHANGED programVars) \/ HaltReturn(x)
    PROVE  InLine(p)'
  <1>0. OpenedInv /\ InLine(p) /\ p \in Threads
    BY DEF LineInv, Threads
  <1>1. CASE Opens(x) /\ UNCHANGED programVars
    <2>1. pc[x] \in {"op_fork", "op_fopen"}
      BY <1>1, OpenEffects
    <2>2. \E l, u, v : Moved(x, l, u, v)
      BY <1>1, OpenEffects DEF Forks, ForkFails, Fopens
    <2>3. UNCHANGED <<job, legacy, taken, stuck, val, next, handed, again>>
      BY <1>1, OpenEffects DEF lineVars, programVars, pumpVars
    <2>4. CASE x # p
      BY <1>0, <2>2, <2>3, <2>4, LineMove
    <2>5. CASE x = p
      <3>1. ~OnTerminal(p)
        BY <1>0, <2>1, <2>5 DEF InLine, Lined, Reader, Shape
      <3> QED
        BY <1>0, <2>1, <2>3, <2>5, <3>1 DEF InLine, OnTerminal
    <2> QED
      BY <2>4, <2>5
  <1>2. CASE (Halts(x) /\ UNCHANGED programVars) \/ HaltReturn(x)
    <2>1. pc[x] \in {"ha_lock", "ha_close", "ha_null", "ha_kill"}
      BY <1>2, Paths, ReturnEffects DEF Halts
    <2>2. \E l, u, v : Moved(x, l, u, v)
      BY <1>2, Paths, ReturnMoves DEF Halts
    <2>3. UNCHANGED <<job, legacy, taken, stuck, handed>>
      <3>1. CASE Halts(x) /\ UNCHANGED programVars
        BY <3>1 DEF Halts, HaltLock, HaltClose, HaltNull, lineVars, programVars, pumpVars
      <3>2. CASE HaltReturn(x)
        BY <3>2, ReturnEffects DEF lineVars
      <3> QED
        BY <1>2, <3>1, <3>2
    <2>4. CASE x # p
      <3>1. UNCHANGED <<val, next, again>> \/ \E vals : Receive(x, vals, FALSE)
        BY <1>2, ReturnEffects DEF programVars, pumpVars
      <3>2. val'[p] = val[p] /\ next'[p] = next[p] /\ (p \in again' <=> p \in again)
        BY <2>4, <3>1 DEF Receive, Got, TypeOK, PumpType
      <3> QED
        BY <1>0, <2>2, <2>3, <2>4, <3>2, LineMove
    <2>5. CASE x = p
      <3>1. job.kind[p] # "none"
        BY <1>0, <2>1, <2>5 DEF InLine
      <3>2. OnTerminal(p) => Lined(p)'
        BY <1>0, <1>2, <2>5, ReaderHalts DEF InLine
      <3> QED
        BY <2>3, <3>1, <3>2 DEF InLine, OnTerminal
    <2> QED
      BY <2>4, <2>5
  <1> QED
    BY <1>1, <1>2

\* Every step keeps the lines in order,
LEMMA LineStep ==
    ASSUME OneReader, TypeOK, TypeOK', TerminalInv, FlowInv, LineInv, [Next]_vars
    PROVE  LineInv'
  <1>1. OpenedInv /\ Owned /\ OpenedInv' /\ Later
    BY OpenedStep DEF LineInv, TerminalInv
  <1>2. SUFFICES ASSUME NEW p \in Pumps PROVE InLine(p)'
    BY <1>1 DEF LineInv
  <1>3. InLine(p) /\ p \in Threads
    BY DEF LineInv, Threads
  <1>4. ASSUME UNCHANGED <<job, legacy, pc, on, at, pumpVars, taken, stuck>> PROVE InLine(p)'
    BY <1>1, <1>3, <1>4, LineSame DEF pumpVars
  <1>5. CASE UNCHANGED vars
    BY <1>4, <1>5 DEF vars, terminalVars, lineVars
  <1>6. ASSUME NEW s \in Sessions, Uses(s), UNCHANGED programVars PROVE InLine(p)'
    <2>1. UNCHANGED <<job, legacy, pc, on, at, pumpVars, taken, stuck>>
      BY <1>6 DEF Uses, Type, Leave, programVars, lineVars
    <2> QED
      BY <1>4, <2>1
  <1>7. CASE Produce \/ CloseContainer
    BY <1>4, <1>7 DEF Produce, CloseContainer, boxRest, terminalVars, lineVars
  <1>8. ASSUME NEW c \in Controllers, NEW t \in Terminals, Begins(c, t), UNCHANGED programVars PROVE InLine(p)'
    <2>1. c \in Threads \ {p}
      BY ThreadAssumption DEF Threads
    <2>2. PICK l \in {"op_fork", "ha_lock", "ha_close"} : Moved(c, l, t, at[c])
      BY <1>8, <2>1, Paths DEF Begins
    <2>3. UNCHANGED <<job, legacy, taken, stuck, val, next, handed, again>>
      BY <1>8 DEF Begins, OpenBegin, CloseBegin, Construct, Drop, lineVars, programVars, pumpVars
    <2> QED
      BY <1>1, <1>3, <2>1, <2>2, <2>3, LineMove
  <1> QED
    BY <1>1, <1>5, <1>6, <1>7, <1>8, Movers, LinePump, LineChange

\* of which there are none at the start.
LEMMA LineInit == Init => LineInv
  <1> SUFFICES ASSUME Init PROVE LineInv
    OBVIOUS
  <1>1. /\ TypeOK /\ Made = {} /\ DOMAIN <<>> = {}
        /\ \A x \in Threads : pc[x] = "idle"
        /\ \A t \in Terminals : fh[t] = NoFile
        /\ \A s \in Sessions : taken[s] = 0
        /\ \A p \in Pumps : pc[p] = "idle" /\ val[p] = <<>> /\ next[p] = 1 /\ handed[p] = <<>>
    BY InitType DEF Init, TerminalInit, Made, Threads
  <1>2. OpenedInv
    BY <1>1 DEF OpenedInv
  <1>3. ASSUME NEW p \in Pumps PROVE InLine(p)
    <2>1. Ordered(p)
      BY <1>1 DEF Ordered
    <2>2. Shape(p)
      BY <1>1 DEF Shape
    <2>3. \A s \in Sessions : ~Mine(p, s)
      BY <1>1 DEF Mine
    <2> QED
      BY <1>1, <2>1, <2>2, <2>3 DEF InLine, Lined, Reader
  <1> QED
    BY <1>2, <1>3 DEF LineInv

\* THEOREM.  What a pump has written of a session, a container or a file is what
\* was typed or added there, in order and with nothing left out, if every source
\* has one pump; whatever is opened, closed, forked in vain or torn meanwhile.
THEOREM InOrderCorrect ==
    ASSUME OneSource, OneReader
    PROVE  Spec => []InOrder
  <1> DEFINE IInv == TypeOK /\ TerminalInv /\ FlowInv /\ LineInv
  <1>1. Init => IInv
    BY InitType, TerminalInvInit, FlowInit, LineInit
  <1>2. IInv /\ [Next]_vars => IInv'
    BY TypeStep, TypeStutter, TerminalInvStep, FlowStep, LineStep
  <1>3. IInv => InOrder
    <2>1. SUFFICES ASSUME IInv, NEW p \in Pumps PROVE Ordered(p)
      BY DEF InOrder
    <2>2. InLine(p) /\ (HasSource(p) => Flow(p)) /\ job.kind[p] \in Kinds
      BY <2>1, JobType DEF LineInv, FlowInv
    <2>3. CASE OnTerminal(p)
      BY <2>2, <2>3 DEF InLine, Lined
    <2>4. CASE job.kind[p] = "none"
      BY <2>2, <2>4 DEF InLine, Ordered
    <2>5. CASE HasSource(p)
      <3>1. /\ \A i \in 1..Len(handed[p]) : handed[p][i] = <<0, First(p) + i - 1>>
            /\ DOMAIN handed[p] = 1..Len(handed[p]) /\ Len(handed[p]) \in Nat /\ First(p) \in Nat
        BY <2>1, <2>2, <2>5 DEF Flow, TypeOK, PumpType, First
      <3>2. SUFFICES ASSUME NEW i \in DOMAIN handed[p]
                     PROVE  LET l == handed[p][i] IN
                            /\ First(p) <= l[2]
                            /\ \A k \in 1..(i - 1) : handed[p][k][1] = l[1] => handed[p][k][2] < l[2]
                            /\ \A n \in First(p)..(l[2] - 1) : \E k \in 1..(i - 1) : handed[p][k] = <<l[1], n>>
        BY DEF Ordered
      <3>3. i \in 1..Len(handed[p]) /\ handed[p][i][1] = 0 /\ handed[p][i][2] = First(p) + i - 1
        BY <3>1
      <3>4. \A k \in 1..(i - 1) : handed[p][k] = <<0, First(p) + k - 1>>
        BY <3>1, <3>3
      <3>5. \A n \in First(p)..(First(p) + i - 2) : n - First(p) + 1 \in 1..(i - 1)
        <4>1. First(p) \in Nat /\ i \in Nat
          BY <3>1, <3>3
        <4> QED
          BY <4>1
      <3>6. \A n \in First(p)..(First(p) + i - 2) : \E k \in 1..(i - 1) : handed[p][k] = <<0, n>>
        <4>1. SUFFICES ASSUME NEW n \in First(p)..(First(p) + i - 2) PROVE \E k \in 1..(i - 1) : handed[p][k] = <<0, n>>
          OBVIOUS
        <4>2. handed[p][n - First(p) + 1] = <<0, First(p) + (n - First(p) + 1) - 1>>
          BY <3>4, <3>5
        <4>3. First(p) + (n - First(p) + 1) - 1 = n
          BY <3>1
        <4> QED
          BY <3>5, <4>2, <4>3
      <3>7. First(p) <= handed[p][i][2] /\ handed[p][i][2] - 1 = First(p) + i - 2
        BY <3>1, <3>3
      <3>8. \A k \in 1..(i - 1) : handed[p][k][2] < handed[p][i][2]
        <4>1. SUFFICES ASSUME NEW k \in 1..(i - 1) PROVE handed[p][k][2] < handed[p][i][2]
          OBVIOUS
        <4>2. handed[p][k][2] = First(p) + k - 1
          BY <3>4
        <4> QED
          BY <3>1, <3>3, <4>2
      <3> QED
        BY <3>3, <3>6, <3>7, <3>8
    <2> QED
      BY <2>2, <2>3, <2>4, <2>5 DEF Kinds, HasSource, OnTerminal
  <1> QED
    BY <1>1, <1>2, <1>3, PTL DEF Spec
=============================================================================
