---------------------------- MODULE TerminalNode ----------------------------
(***************************************************************************)
(* A terminal is one FILE on a pseudo terminal and the xterm process that   *)
(* open() forks to show it.  This module has both generations of it: the    *)
(* TerminalNode, which is opened, closed and opened again, and whose halt() *)
(* is locked, and the TerminalStream of v0 (legacy), a value that opens in  *)
(* its constructor and halts at end of file or when it is dropped.          *)
(*                                                                         *)
(* A fork that succeeds begins a session; the FILE opened for it and the    *)
(* xterm have its number.  No process is waited for, so a pid is never used *)
(* again and it does not matter when a dead xterm is killed.  kill() with   *)
(* the -1 of a failed fork kills all processes of the user but, on Linux,   *)
(* the caller.  Whatever a use of a FILE after fclose() may do ends the     *)
(* program.  A line is a pair: the session it is typed in, and its place    *)
(* among the lines typed there.  What is printed on an xterm does not come  *)
(* back, so it is not recorded.                                             *)
(***************************************************************************)
EXTENDS Integers, Sequences, Functions

CONSTANTS
    Terminals,
    Controllers,   \* threads that open and close
    Pumps,         \* threads that read and write
    NoTerminal,
    Free,          \* nobody
    MaxSessions,   \* bound: forks that succeed
    MaxLines,      \* bound: lines typed
    MaxRepeats     \* bound: lines of a session returned once more

Threads == Controllers \cup Pumps
Sessions == 1..MaxSessions
NoFile == 0
NoPid == 0
ForkFailed == -1
Lines == (0..MaxSessions) \X (0..MaxLines)
Void == <<-1, 0>>                       \* what a reader gets at end of file

ASSUME ThreadAssumption ==
    Controllers \cap Pumps = {} /\ Free \notin Threads /\ NoTerminal \notin Terminals
ASSUME TerminalBounds == {MaxSessions, MaxLines, MaxRepeats} \subseteq Nat

VARIABLES
    legacy,      \* which generation the program uses
    born,        \* legacy: terminals constructed and not dropped
    fh,          \* _fh
    xterm_pid,   \* _xterm_pid
    mtx,         \* who has _mtx
    \* the sessions
    term,        \* the terminals they were made for, in order
    files,       \* those whose FILE is open
    alive,       \* those whose xterm runs
    typed,       \* lines typed
    taken,       \* lines read
    torn,        \* those whose FILE is written to under a reader
    repeats,     \* lines returned twice
    stuck,       \* those whose FILE has not moved past the last line it returned
    \* the threads
    pc,
    on,          \* the terminal a thread works on
    at,          \* the session it works on, its copy of _fh
    \* history
    unopened,    \* sessions whose fopen() failed
    crossed,     \* terminals where an open or halt met another one
    cut,         \* terminals that were halted under a reader or writer
    ended        \* "no", or why the program ended

nodeVars == <<born, fh, xterm_pid, mtx>>
lineVars == <<typed, taken, torn, repeats, stuck>>
sessionVars == <<term, files, alive, unopened>>
terminalVars == <<legacy, nodeVars, lineVars, sessionVars, pc, on, at,
                  crossed, cut, ended>>

HaltPc == {"ha_close", "ha_null", "ha_kill"}
ChangePc == {"op_fork", "op_fopen"} \cup HaltPc
Made == DOMAIN term

\* Where a thread works on a terminal, and where on a session of it.
WorkPc == ChangePc \cup {"ha_lock", "up", "co_remove", "rd_check", "rd_gets", "wr_print"}
FilePc == {"op_fopen", "rd_gets", "wr_print"}

NodeType ==
    /\ legacy \in BOOLEAN
    /\ born \in SUBSET Terminals
    /\ fh \in [Terminals -> {NoFile} \cup Made]
    /\ xterm_pid \in [Terminals -> {ForkFailed, NoPid} \cup Made]
    /\ mtx \in [Terminals -> Threads \cup {Free}]
    /\ \A t \in Terminals : mtx[t] # Free => pc[mtx[t]] \in HaltPc /\ on[mtx[t]] = t
SessionType ==
    /\ term \in Seq(Terminals) /\ Made \subseteq Sessions
    /\ {files, alive, torn, stuck, unopened} \subseteq SUBSET Made
    /\ {typed, taken} \subseteq [Sessions -> 0..MaxLines]
    /\ repeats \in [Sessions -> 0..MaxRepeats]
    /\ {crossed, cut} \subseteq SUBSET Terminals
    /\ ended \in {"no", "memory"}
ThreadType ==
    /\ on \in [Threads -> Terminals \cup {NoTerminal}]
    /\ at \in [Threads -> {NoFile} \cup Made]
    /\ \A x \in Threads : pc[x] \in WorkPc => on[x] \in Terminals
    /\ \A x \in Threads : pc[x] \in FilePc => at[x] \in Made

TerminalType == NodeType /\ SessionType /\ ThreadType

TerminalInit ==
    /\ legacy \in BOOLEAN
    /\ born = {} /\ crossed = {} /\ cut = {}
    /\ fh = [t \in Terminals |-> NoFile]
    /\ xterm_pid = [t \in Terminals |-> NoPid]
    /\ mtx = [t \in Terminals |-> Free]
    /\ term = <<>>
    /\ files = {} /\ alive = {} /\ torn = {} /\ stuck = {} /\ unopened = {}
    /\ typed = [s \in Sessions |-> 0]
    /\ taken = typed
    /\ repeats = typed
    /\ pc = [x \in Threads |-> "idle"]
    /\ on = [x \in Threads |-> NoTerminal]
    /\ at = [x \in Threads |-> NoFile]
    /\ ended = "no"

Goto(x, label) == pc' = [pc EXCEPT ![x] = label]
Enter(x, t, label) == Goto(x, label) /\ on' = [on EXCEPT ![x] = t]
Forget(x) == at' = [at EXCEPT ![x] = NoFile]
Return(c) == Enter(c, NoTerminal, "idle")

\* Threads in the middle of open() or halt(), and in stdio, of a terminal.
Changing(t) == {x \in Threads : on[x] = t /\ pc[x] \in ChangePc}
Using(t) == {x \in Threads : on[x] = t /\ pc[x] \in {"rd_gets", "wr_print"}}

\* x begins to open or halt t.
Cross(x, t) == crossed' = crossed \cup {u \in {t} : Changing(u) \ {x} # {}}

\* What a use of a FILE that is closed does: nothing, or the end.
Undefined == ended' \in {ended, "memory"}

-----------------------------------------------------------------------------
(* open() of the current generation; no lock                                *)

\* Mutant of OpenBegin: the check for an open terminal is gone.
OpenAgain(c, t) ==
    /\ ~legacy /\ pc[c] = "idle"
    /\ Cross(c, t)
    /\ Enter(c, t, "op_fork")
    /\ UNCHANGED <<legacy, nodeVars, lineVars, sessionVars, at, cut, ended>>

\* open() returns at once if there is a FILE.
OpenBegin(c, t) ==
    /\ ~legacy /\ pc[c] = "idle"
    /\ fh[t] = NoFile
    /\ Cross(c, t)
    /\ Enter(c, t, "op_fork")
    /\ UNCHANGED <<legacy, nodeVars, lineVars, sessionVars, at, cut, ended>>

\* fork() makes an xterm; or it fails, or a call for the pseudo terminal
\* before it does, which throws.
Fork(c, pid, fails) ==
    \/ /\ Len(term) < MaxSessions
       /\ term' = Append(term, on[c])
       /\ alive' = alive \cup {Len(term) + 1}
       /\ xterm_pid' = [xterm_pid EXCEPT ![on[c]] = Len(term) + 1]
       /\ at' = [at EXCEPT ![c] = Len(term) + 1]
       /\ Enter(c, on[c], "op_fopen")
    \/ /\ fails
       /\ xterm_pid' \in {xterm_pid, [xterm_pid EXCEPT ![on[c]] = pid]}
       /\ Return(c)
       /\ UNCHANGED <<term, alive, at>>

\* fopen() gives a FILE, or none: certainly if the xterm is gone.
Fopen(c, fails) ==
    /\ \/ /\ at[c] \in alive
          /\ files' = files \cup {at[c]}
          /\ fh' = [fh EXCEPT ![on[c]] = at[c]]
          /\ UNCHANGED unopened
       \/ /\ fails \/ at[c] \notin alive
          /\ fh' = [fh EXCEPT ![on[c]] = NoFile]
          /\ unopened' = unopened \cup {at[c]}
          /\ UNCHANGED files
    /\ Return(c)
    /\ Forget(c)

OpenFork(c, fails) ==
    /\ ~legacy /\ pc[c] = "op_fork"
    /\ Fork(c, ForkFailed, fails)
    /\ UNCHANGED <<legacy, born, fh, mtx, lineVars, files, unopened, crossed, cut, ended>>

OpenFopen(c, fails) ==
    /\ ~legacy /\ pc[c] = "op_fopen"
    /\ Fopen(c, fails)
    /\ UNCHANGED <<legacy, born, xterm_pid, mtx, lineVars, term, alive,
                   crossed, cut, ended>>

\* close() is halt().
CloseBegin(c, t) ==
    /\ ~legacy /\ pc[c] = "idle"
    /\ Enter(c, t, "ha_lock")
    /\ UNCHANGED <<legacy, nodeVars, lineVars, sessionVars, at, crossed, cut, ended>>

-----------------------------------------------------------------------------
(* The TerminalStream of v0                                                 *)

\* Its constructor: an object without a FILE yet.
Construct(c, t) ==
    /\ legacy /\ pc[c] = "idle"
    /\ t \notin born /\ Changing(t) = {}
    /\ fh' = [fh EXCEPT ![t] = NoFile]
    /\ Enter(c, t, "op_fork")
    /\ UNCHANGED <<legacy, born, xterm_pid, mtx, lineVars, sessionVars, at, crossed, cut, ended>>

\* If the constructor throws there is no object, and nothing to destroy.
ConstructFork(c, fails) ==
    /\ legacy /\ pc[c] = "op_fork"
    /\ Fork(c, NoPid, fails)
    /\ UNCHANGED <<legacy, born, fh, mtx, lineVars, files, unopened, crossed, cut, ended>>

ConstructFopen(c, fails) ==
    /\ legacy /\ pc[c] = "op_fopen"
    /\ Fopen(c, fails)
    /\ born' = born \cup {on[c]}
    /\ UNCHANGED <<legacy, xterm_pid, mtx, lineVars, term, alive, crossed, cut, ended>>

\* The destructor, once no thread has a reference to the value.
Drop(c, t) ==
    /\ legacy /\ pc[c] = "idle"
    /\ t \in born
    /\ \A p \in Pumps : pc[p] \in {"idle", "done", "thrown"}
    /\ born' = born \ {t}
    /\ Enter(c, t, "ha_close")
    /\ UNCHANGED <<legacy, fh, xterm_pid, mtx, lineVars, sessionVars, at, crossed, cut, ended>>

-----------------------------------------------------------------------------
(* halt()                                                                   *)

\* The lock; v0 has none, and begins at the FILE.
HaltLock(x) ==
    LET t == on[x] IN
    /\ pc[x] = "ha_lock"
    /\ mtx[t] = Free
    /\ mtx' = [mtx EXCEPT ![t] = x]
    /\ Cross(x, t)
    /\ Goto(x, "ha_close")
    /\ UNCHANGED <<legacy, born, fh, xterm_pid, lineVars, sessionVars, on, at, cut, ended>>

\* fclose(), if there is a FILE; of one that is closed already, undefined.
HaltClose(x) ==
    LET t == on[x] IN
    /\ pc[x] = "ha_close"
    /\ files' = files \ {fh[t]}
    /\ cut' = cut \cup {u \in {t} : fh[u] # NoFile /\ Using(u) \ {x} # {}}
    /\ IF fh[t] \in files \cup {NoFile} THEN UNCHANGED ended ELSE Undefined
    /\ Goto(x, "ha_null")
    /\ UNCHANGED <<legacy, nodeVars, lineVars, term, alive, unopened, on, at, crossed>>

\* Mutant of HaltNull: the pointer is kept.
HaltKeep(x) ==
    /\ pc[x] = "ha_null"
    /\ Goto(x, "ha_kill")
    /\ UNCHANGED <<legacy, nodeVars, lineVars, sessionVars, on, at, crossed, cut, ended>>

HaltNull(x) ==
    /\ pc[x] = "ha_null"
    /\ fh' = [fh EXCEPT ![on[x]] = NoFile]
    /\ Goto(x, "ha_kill")
    /\ UNCHANGED <<legacy, born, xterm_pid, mtx, lineVars, sessionVars, on, at, crossed, cut, ended>>

\* The xterms that run after kill(): all but the terminal's own, or, with the
\* -1 of fork(), none.
Spared(t) == IF xterm_pid[t] = ForkFailed THEN {} ELSE alive \ {xterm_pid[t]}

\* Mutant of Kill: an explicit lock() whose unlock() is forgotten.
KillLocked(x) ==
    LET t == on[x] IN
    /\ pc[x] = "ha_kill"
    /\ alive' = Spared(t)
    /\ xterm_pid' = [xterm_pid EXCEPT ![t] = NoPid]
    /\ UNCHANGED mtx

\* Kill the xterm and unlock.
Kill(x) ==
    LET t == on[x] IN
    /\ pc[x] = "ha_kill"
    /\ alive' = Spared(t)
    /\ xterm_pid' = [xterm_pid EXCEPT ![t] = NoPid]
    /\ mtx' = [mtx EXCEPT ![t] = IF @ = x THEN Free ELSE @]

-----------------------------------------------------------------------------
(* Reading and writing, on the terminal on[p]                               *)

\* Take the FILE for stdio.
Pick(p, label) ==
    /\ at' = [at EXCEPT ![p] = fh[on[p]]]
    /\ cut' = cut \cup {u \in {on[p]} : fh[u] \notin files}
    /\ Enter(p, on[p], label)

\* fgets_unlocked() returns line l; of a FILE that another thread has written
\* to meanwhile, perhaps without moving past it.
GetsLine(p, l) ==
    LET s == at[p] IN
    /\ taken[s] < typed[s]
    /\ l = <<s, taken[s] + 1>>
    /\ \/ /\ taken' = [taken EXCEPT ![s] = @ + 1]
          /\ stuck' = stuck \ {s}
          /\ UNCHANGED repeats
       \/ /\ s \in torn /\ repeats[s] < MaxRepeats
          /\ repeats' = [repeats EXCEPT ![s] = @ + 1]
          /\ stuck' = stuck \cup {s}
          /\ UNCHANGED taken
    /\ torn' = torn \ {s}
    /\ IF s \in files THEN UNCHANGED ended ELSE Undefined

\* It returns null when the xterm is gone and everything typed is read.
GetsEnd(p) ==
    LET s == at[p] IN
    /\ s \notin alive
    /\ taken[s] = typed[s] \/ s \notin files
    /\ IF s \in files THEN UNCHANGED ended ELSE Undefined
    /\ torn' = torn \ {s}
    /\ UNCHANGED <<taken, repeats, stuck>>

\* fprintf() and fflush().  It tears a reader that waits on the same FILE.
Fprintf(p) ==
    LET s == at[p] IN
    /\ torn' = torn \cup {u \in {s} : \E q \in Pumps \ {p} : pc[q] = "rd_gets" /\ at[q] = s}
    /\ IF s \in files THEN UNCHANGED ended ELSE Undefined

-----------------------------------------------------------------------------
(* The user of an xterm, who types n lines at most.                         *)

Type(s, n) ==
    /\ s \in alive \cap files
    /\ typed[s] < MaxLines /\ FoldFunction(+, 0, typed) < n
    /\ typed' = [typed EXCEPT ![s] = @ + 1]
    /\ UNCHANGED <<legacy, nodeVars, taken, torn, repeats, stuck, sessionVars, pc, on, at,
                   crossed, cut, ended>>

\* The window is closed, or xterm could not be started at all.
Leave(s) ==
    /\ s \in alive
    /\ alive' = alive \ {s}
    /\ UNCHANGED <<legacy, nodeVars, lineVars, term, files, unopened, pc, on, at,
                   crossed, cut, ended>>
=============================================================================
