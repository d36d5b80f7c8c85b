---------------------------- MODULE TextFileNode ----------------------------
(***************************************************************************)
(* TextFileNode: a text file read line by line, and in tail mode waited on  *)
(* with a FileWatcher when the end is reached.  close() holds _mtx, and     *)
(* do_read() holds it to copy _fh and _tail_mode and to close the file;     *)
(* open(), follow(), do_write() and connected() never take it, and fgets(), *)
(* clearerr() and the wait run on copies outside it.                        *)
(*                                                                         *)
(* The file is a sequence of characters of which only being a newline       *)
(* matters; what a read returns is the interval of positions it consumed.   *)
(* The stdio library and the kernel are external: a FILE that was closed    *)
(* may be handed out again by a later fopen(), the end-of-file flag is      *)
(* sticky until clearerr(), and a write to an "a+" stream moves its         *)
(* position to the end of the file.                                         *)
(***************************************************************************)
EXTENDS FileWatcher

CONSTANTS
    Readers, Writers, Control,   \* threads in do_read, do_write, and the rest
    Files, NoFile,               \* FILE objects; NoFile is the null pointer
    NoThread,
    Bufsz,                       \* BUFSZ - 1: characters fgets() returns at most
    MaxChars,                    \* bound: length of the file
    MaxCalls                     \* bound: calls of open, close and follow

Threads == Readers \cup Writers \cup Control

ASSUME ThreadAssumption ==
    /\ Readers \cap Writers = {}
    /\ Readers \cap Control = {}
    /\ Writers \cap Control = {}
    /\ NoThread \notin Threads
ASSUME FileAssumption == NoFile \notin Files
ASSUME BoundAssumption == {Bufsz, MaxChars} \subseteq Nat \ {0} /\ MaxCalls \in Nat

VARIABLES
    \* the node
    mtx,         \* the thread that holds _mtx
    fh,          \* _fh
    tail_mode,   \* _tail_mode
    \* stdio and the file
    opened,      \* the FILE objects that are open
    off,         \* position of a FILE
    eof,         \* end-of-file flag of a FILE
    file,        \* the file: for each character, whether it is a newline
    \* the threads
    pc,          \* where each thread is
    fcopy,       \* fh_copy of a reader
    tcopy,       \* tail_mode_copy of a reader
    icopy,       \* inotify_fd_copy of a reader in wait_event()
    mode,        \* new_mode of follow()
    \* history
    calls,       \* calls of open, close and follow so far
    watched_at,  \* length of the file when the watch was set up
    misuse,      \* TRUE once stdio was given a FILE that is not open
    raced        \* TRUE once open() or follow() overlapped a do_read()

nodeVars == <<mtx, fh, tail_mode>>
fileVars == <<opened, off, eof, file>>
readVars == <<fcopy, tcopy, icopy>>
histVars == <<calls, watched_at, misuse, raced>>
vars == <<watcherVars, nodeVars, fileVars, pc, readVars, mode, histVars>>

ForgetPc == {"rd_null", "fl_null"}
ReadPc == {"rd_copy", "rd_gets", "rd_end", "rd_fclose", "rd_clear", "rd_check",
           "rd_poll", "rd_fail", "fl_fclose", "rd_unwatch"} \cup ForgetPc
WritePc == {"wr_put"}
OpenFollowPc == {"op_fopen", "op_watch", "op_null", "fo_watch", "fo_set"}
ClosePc == {"cl_lock", "cl_watch", "cl_fclose", "cl_clear"}
ControlPc == OpenFollowPc \cup ClosePc

NodeType ==
    /\ mtx \in Threads \cup {NoThread}
    /\ fh \in Files \cup {NoFile}
    /\ tail_mode \in BOOLEAN
FileType ==
    /\ opened \in SUBSET Files
    /\ off \in [Files -> 0..MaxChars]
    /\ eof \in [Files -> BOOLEAN]
    /\ file \in Seq(BOOLEAN) /\ Len(file) <= MaxChars
    /\ \A f \in opened : off[f] <= Len(file)
ThreadType ==
    /\ pc \in [Threads -> {"idle"} \cup ReadPc \cup WritePc \cup ControlPc]
    /\ fcopy \in [Readers -> Files \cup {NoFile}]
    /\ tcopy \in [Readers -> BOOLEAN]
    /\ icopy \in [Readers -> Inos \cup {NoIno}]
    /\ mode \in [Control -> BOOLEAN]
    /\ \A r \in Readers : pc[r] = "rd_gets" => fcopy[r] # NoFile
    /\ \A r \in Readers : pc[r] = "rd_poll" => icopy[r] # NoIno
HistoryType ==
    /\ calls \in 0..MaxCalls
    /\ watched_at \in 0..MaxChars
    /\ misuse \in BOOLEAN
    /\ raced \in BOOLEAN

TypeOK == WatcherType /\ NodeType /\ FileType /\ ThreadType /\ HistoryType

\* A file of one unterminated character, one line, or nothing.
Init ==
    /\ WatcherInit
    /\ mtx = NoThread
    /\ fh = NoFile
    /\ tail_mode = FALSE
    /\ opened = {}
    /\ off = [f \in Files |-> 0]
    /\ eof = [f \in Files |-> FALSE]
    /\ file \in {<<>>, <<FALSE>>, <<TRUE>>}
    /\ pc = [t \in Threads |-> "idle"]
    /\ fcopy = [r \in Readers |-> NoFile]
    /\ tcopy = [r \in Readers |-> FALSE]
    /\ icopy = [r \in Readers |-> NoIno]
    /\ mode = [t \in Control |-> FALSE]
    /\ calls = 0
    /\ watched_at = 0
    /\ misuse = FALSE
    /\ raced = FALSE

Goto(t, label) == pc' = [pc EXCEPT ![t] = label]

Lock(t) == mtx = NoThread /\ mtx' = t
Unlock(t) == mtx = t /\ mtx' = NoThread

\* fclose(): the FILE may be handed out again.
Fclose(f) == opened' = opened \ {f}

Call(t, label) ==
    /\ pc[t] = "idle"
    /\ calls < MaxCalls
    /\ calls' = calls + 1
    /\ Goto(t, label)

\* open() or follow() begins: is a reader inside do_read()?
Overlap == raced' = (raced \/ \E r \in Readers : pc[r] # "idle")

-----------------------------------------------------------------------------
(* open(): no lock.  Whatever _fh held is forgotten, not closed.            *)

OpenBegin(t) ==
    /\ Call(t, "op_fopen")
    /\ Overlap
    /\ fh' = NoFile
    /\ UNCHANGED <<watcherVars, mtx, tail_mode, fileVars, readVars, mode,
                   watched_at, misuse>>

\* Mutant of OpenFile: tail mode is forgotten, nothing is watched.
OpenFileUnwatched(t) ==
    /\ pc[t] = "op_fopen"
    /\ \E f \in Files \ opened :
         /\ opened' = opened \cup {f}
         /\ off' = [off EXCEPT ![f] = 0]
         /\ eof' = [eof EXCEPT ![f] = FALSE]
         /\ fh' = f
    /\ Goto(t, "idle")
    /\ UNCHANGED <<watcherVars, mtx, tail_mode, file, readVars, mode, histVars>>

OpenFile(t) ==
    /\ pc[t] = "op_fopen"
    /\ \/ \E f \in Files \ opened :
            /\ opened' = opened \cup {f}
            /\ off' = [off EXCEPT ![f] = 0]
            /\ eof' = [eof EXCEPT ![f] = FALSE]
            /\ fh' = f
            /\ Goto(t, IF tail_mode THEN "op_watch" ELSE "idle")
       \/ \* fopen() fails and open() throws
          /\ fh' = NoFile
          /\ Goto(t, "idle")
          /\ UNCHANGED <<opened, off, eof>>
    /\ UNCHANGED <<watcherVars, mtx, tail_mode, file, readVars, mode, histVars>>

\* If the watch cannot be set up the file is closed again and open() throws.
OpenWatch(t) ==
    /\ pc[t] = "op_watch"
    /\ \/ /\ AddWatch
          /\ watched_at' = Len(file)
          /\ Goto(t, "idle")
          /\ UNCHANGED <<opened, misuse>>
       \/ /\ AddWatchFails
          /\ Fclose(fh)
          /\ misuse' = (misuse \/ fh \notin opened)
          /\ Goto(t, "op_null")
          /\ UNCHANGED watched_at
    /\ UNCHANGED <<nodeVars, off, eof, file, readVars, mode, calls, raced>>

OpenForget(t) ==
    /\ pc[t] = "op_null"
    /\ fh' = NoFile
    /\ Goto(t, "idle")
    /\ UNCHANGED <<watcherVars, mtx, tail_mode, fileVars, readVars, mode, histVars>>

-----------------------------------------------------------------------------
(* follow(): no lock.  The watch is set up before _tail_mode says so, and   *)
(* taken down before _tail_mode says so.                                    *)

FollowBegin(t) ==
    /\ \E new_mode \in BOOLEAN :
         /\ mode' = [mode EXCEPT ![t] = new_mode]
         /\ Call(t, IF \/ new_mode /\ ~tail_mode /\ fh # NoFile
                       \/ ~new_mode /\ tail_mode
                    THEN "fo_watch" ELSE "fo_set")
    /\ Overlap
    /\ UNCHANGED <<watcherVars, nodeVars, fileVars, readVars, watched_at, misuse>>

FollowWatch(t) ==
    /\ pc[t] = "fo_watch"
    /\ \/ /\ mode[t]
          /\ AddWatch
          /\ watched_at' = Len(file)
          /\ Goto(t, "fo_set")
       \/ /\ mode[t]
          /\ AddWatchFails
          /\ Goto(t, "idle")
          /\ UNCHANGED watched_at
       \/ /\ ~mode[t]
          /\ RemoveWatch
          /\ Goto(t, "fo_set")
          /\ UNCHANGED watched_at
    /\ UNCHANGED <<nodeVars, fileVars, readVars, mode, calls, misuse, raced>>

FollowSet(t) ==
    /\ pc[t] = "fo_set"
    /\ tail_mode' = mode[t]
    /\ Goto(t, "idle")
    /\ UNCHANGED <<watcherVars, mtx, fh, fileVars, readVars, mode, histVars>>

-----------------------------------------------------------------------------
(* close(): under the lock, but readers and writers on copies see it happen *)
(* step by step.                                                            *)

CloseBegin(t) ==
    /\ Call(t, "cl_lock")
    /\ UNCHANGED <<watcherVars, nodeVars, fileVars, readVars, mode,
                   watched_at, misuse, raced>>

CloseLock(t) ==
    /\ pc[t] = "cl_lock"
    /\ Lock(t)
    /\ Goto(t, "cl_watch")
    /\ UNCHANGED <<watcherVars, fh, tail_mode, fileVars, readVars, mode, histVars>>

CloseWatch(t) ==
    /\ pc[t] = "cl_watch"
    /\ RemoveWatch
    /\ Goto(t, "cl_fclose")
    /\ UNCHANGED <<nodeVars, fileVars, readVars, mode, histVars>>

CloseFile(t) ==
    /\ pc[t] = "cl_fclose"
    /\ Fclose(fh)
    /\ misuse' = (misuse \/ (fh # NoFile /\ fh \notin opened))
    /\ Goto(t, "cl_clear")
    /\ UNCHANGED <<watcherVars, nodeVars, off, eof, file, readVars, mode,
                   calls, watched_at, raced>>

CloseFinish(t) ==
    /\ pc[t] = "cl_clear"
    /\ fh' = NoFile
    /\ tail_mode' = FALSE
    /\ Unlock(t)
    /\ Goto(t, "idle")
    /\ UNCHANGED <<watcherVars, fileVars, readVars, mode, histVars>>

-----------------------------------------------------------------------------
(* do_read()                                                                *)

\* The first check; a node that is not open returns "" at once.
ReadBegin(r) ==
    /\ pc[r] = "idle"
    /\ mtx = NoThread
    /\ fh # NoFile
    /\ raced' = (raced \/ \E t \in Control : pc[t] \in OpenFollowPc)
    /\ Goto(r, "rd_copy")
    /\ UNCHANGED <<watcherVars, nodeVars, fileVars, readVars, mode,
                   calls, watched_at, misuse>>

Return(r) ==
    /\ Goto(r, "idle")
    /\ fcopy' = [fcopy EXCEPT ![r] = NoFile]
    /\ tcopy' = [tcopy EXCEPT ![r] = FALSE]
    /\ icopy' = [icopy EXCEPT ![r] = NoIno]

\* The top of the loop: copy _fh and _tail_mode under the lock.
ReadCopy(r) ==
    /\ pc[r] = "rd_copy"
    /\ mtx = NoThread
    /\ \/ /\ fh # NoFile
          /\ fcopy' = [fcopy EXCEPT ![r] = fh]
          /\ tcopy' = [tcopy EXCEPT ![r] = tail_mode]
          /\ Goto(r, "rd_gets")
          /\ UNCHANGED icopy
       \/ /\ fh = NoFile
          /\ Return(r)
    /\ UNCHANGED <<watcherVars, nodeVars, fileVars, mode, histVars>>

\* fgets() stops after position e of the file: at the first newline, when
\* the buffer is full, or at the end of the file.
LineEnd(f, e) ==
    /\ e \in (off[f] + 1)..Len(file)
    /\ e <= off[f] + Bufsz
    /\ \A i \in (off[f] + 1)..(e - 1) : ~file[i]
    /\ file[e] \/ e = off[f] + Bufsz \/ e = Len(file)

\* fgets() on the copy, without the lock: a line, or null at the end of the
\* file or if the FILE is no longer open.
ReadGets(r) ==
    LET f == fcopy[r] IN
    /\ pc[r] = "rd_gets"
    /\ \/ \E e \in 1..MaxChars :
            /\ f \in opened
            /\ ~eof[f]
            /\ LineEnd(f, e)
            /\ off' = [off EXCEPT ![f] = e]
            /\ eof' = [eof EXCEPT ![f] = ~file[e] /\ e # off[f] + Bufsz]
            /\ Return(r)
       \/ /\ f \notin opened \/ eof[f] \/ off[f] = Len(file)
          /\ eof' = [eof EXCEPT ![f] = TRUE]
          /\ Goto(r, IF tcopy[r] THEN "rd_clear" ELSE "rd_end")
          /\ UNCHANGED <<off, readVars>>
    /\ misuse' = (misuse \/ f \notin opened)
    /\ UNCHANGED <<watcherVars, nodeVars, opened, file, mode, calls, watched_at, raced>>

\* Normal mode, end of file: lock, and close _fh if it is not null; it need
\* not be the FILE that has ended.
ReadEnd(r) ==
    /\ pc[r] = "rd_end"
    /\ mtx = NoThread
    /\ \/ /\ fh # NoFile
          /\ mtx' = r
          /\ Goto(r, "rd_fclose")
          /\ UNCHANGED readVars
       \/ /\ fh = NoFile
          /\ Return(r)
          /\ UNCHANGED mtx
    /\ UNCHANGED <<watcherVars, fh, tail_mode, fileVars, mode, histVars>>

\* Mutant of ReadFclose: nothing is closed.
ReadFcloseLeaks(r) ==
    /\ pc[r] \in {"rd_fclose", "fl_fclose"}
    /\ Goto(r, IF pc[r] = "rd_fclose" THEN "rd_null" ELSE "fl_null")
    /\ UNCHANGED <<watcherVars, nodeVars, fileVars, readVars, mode, histVars>>

\* The file is closed and then forgotten, under the lock, here at the end of
\* the file and in the handler of an exception: open() takes no lock, and may
\* come between the check, the two statements and each use of _fh in them.
ReadFclose(r) ==
    /\ pc[r] \in {"rd_fclose", "fl_fclose"}
    /\ Fclose(fh)
    /\ misuse' = (misuse \/ fh \notin opened)
    /\ Goto(r, IF pc[r] = "rd_fclose" THEN "rd_null" ELSE "fl_null")
    /\ UNCHANGED <<watcherVars, nodeVars, off, eof, file, readVars, mode,
                   calls, watched_at, raced>>

ReadForget(r) ==
    /\ pc[r] \in ForgetPc
    /\ fh' = NoFile
    /\ \/ /\ pc[r] = "rd_null"
          /\ Unlock(r)
          /\ Return(r)
       \/ /\ pc[r] = "fl_null"
          /\ Goto(r, "rd_unwatch")
          /\ UNCHANGED <<mtx, readVars>>
    /\ UNCHANGED <<watcherVars, tail_mode, fileVars, mode, histVars>>

\* Mutant of ReadClear: no clearerr().
ReadClearNot(r) ==
    /\ pc[r] = "rd_clear"
    /\ Goto(r, "rd_check")
    /\ UNCHANGED <<watcherVars, nodeVars, fileVars, readVars, mode, histVars>>

\* Tail mode: clear the flag on the copy, without the lock.
ReadClear(r) ==
    /\ pc[r] = "rd_clear"
    /\ eof' = [eof EXCEPT ![fcopy[r]] = FALSE]
    /\ misuse' = (misuse \/ fcopy[r] \notin opened)
    /\ Goto(r, "rd_check")
    /\ UNCHANGED <<watcherVars, nodeVars, opened, off, file, readVars, mode,
                   calls, watched_at, raced>>

\* Mutant of ReadCheck: wait on whatever _inotify_fd is.
ReadCheckNot(r) ==
    /\ pc[r] = "rd_check"
    /\ icopy' = [icopy EXCEPT ![r] = inotify_fd]
    /\ Goto(r, "rd_poll")
    /\ UNCHANGED <<watcherVars, nodeVars, fileVars, fcopy, tcopy, mode, histVars>>

\* wait_event() throws if there is no watch.
ReadCheck(r) ==
    /\ pc[r] = "rd_check"
    /\ \/ /\ Active
          /\ icopy' = [icopy EXCEPT ![r] = inotify_fd]
          /\ Goto(r, "rd_poll")
       \/ /\ ~Active
          /\ Goto(r, "rd_fail")
          /\ UNCHANGED icopy
    /\ UNCHANGED <<watcherVars, nodeVars, fileVars, fcopy, tcopy, mode, histVars>>

\* The read() that wait_event() repeats until it returns events, or EBADF
\* because the watch was removed: then do_read() returns "".
ReadPoll(r) ==
    /\ pc[r] = "rd_poll"
    /\ \/ /\ TakeEvents(icopy[r])
          /\ Goto(r, "rd_copy")
          /\ icopy' = [icopy EXCEPT ![r] = NoIno]
          /\ UNCHANGED <<fcopy, tcopy>>
       \/ /\ Gone(icopy[r])
          /\ Return(r)
          /\ UNCHANGED watcherVars
    /\ UNCHANGED <<nodeVars, fileVars, mode, histVars>>

\* The handler of that exception: lock, close the file if there is one, remove
\* the watch and throw again.
ReadFail(r) ==
    /\ pc[r] = "rd_fail"
    /\ Lock(r)
    /\ Goto(r, IF fh # NoFile THEN "fl_fclose" ELSE "rd_unwatch")
    /\ UNCHANGED <<watcherVars, fh, tail_mode, fileVars, readVars, mode, histVars>>

ReadUnwatch(r) ==
    /\ pc[r] = "rd_unwatch"
    /\ RemoveWatch
    /\ Unlock(r)
    /\ Return(r)
    /\ UNCHANGED <<fh, tail_mode, fileVars, mode, histVars>>

-----------------------------------------------------------------------------
(* do_write(): no lock; _fh is read again for fprintf() and fflush().       *)

\* A node that is not open throws.
WriteBegin(w) ==
    /\ pc[w] = "idle"
    /\ fh # NoFile
    /\ Len(file) < MaxChars
    /\ Goto(w, "wr_put")
    /\ UNCHANGED <<watcherVars, nodeVars, fileVars, readVars, mode, histVars>>

\* One character more at the end of the file; whoever watches it is told.
Grow ==
    \E newline \in BOOLEAN :
        /\ Len(file) < MaxChars
        /\ file' = Append(file, newline)
        /\ Notify(NoName)

WritePut(w) ==
    /\ pc[w] = "wr_put"
    /\ \/ /\ fh \in opened
          /\ Grow
          /\ off' = [off EXCEPT ![fh] = Len(file')]
       \/ /\ fh \notin opened \/ Len(file) = MaxChars
          /\ UNCHANGED <<watcherVars, off, file>>
    /\ misuse' = (misuse \/ fh \notin opened)
    /\ Goto(w, "idle")
    /\ UNCHANGED <<nodeVars, opened, eof, readVars, mode, calls, watched_at, raced>>

\* Some other program appends to the file.
Appended ==
    /\ Grow
    /\ UNCHANGED <<nodeVars, opened, off, eof, pc, readVars, mode, histVars>>

-----------------------------------------------------------------------------
ReaderStep(r) ==
    \/ ReadCopy(r) \/ ReadGets(r) \/ ReadEnd(r) \/ ReadFclose(r) \/ ReadForget(r)
    \/ ReadClear(r) \/ ReadCheck(r) \/ ReadPoll(r) \/ ReadFail(r) \/ ReadUnwatch(r)
ControlStep(t) ==
    \/ OpenFile(t) \/ OpenWatch(t) \/ OpenForget(t) \/ FollowWatch(t) \/ FollowSet(t)
    \/ CloseLock(t) \/ CloseWatch(t) \/ CloseFile(t) \/ CloseFinish(t)
ControlCall(t) == OpenBegin(t) \/ FollowBegin(t) \/ CloseBegin(t)

Next ==
    \/ \E r \in Readers : ReadBegin(r) \/ ReaderStep(r)
    \/ \E w \in Writers : WriteBegin(w) \/ WritePut(w)
    \/ \E t \in Control : ControlCall(t) \/ ControlStep(t)
    \/ Appended

Spec == Init /\ [][Next]_vars

\* A thread inside a call keeps running whenever it can; nobody has to call.
Fairness ==
    /\ \A r \in Readers : WF_vars(ReaderStep(r))
    /\ \A w \in Writers : WF_vars(WritePut(w))
    /\ \A t \in Control : WF_vars(ControlStep(t))

FairSpec == Spec /\ Fairness
-----------------------------------------------------------------------------
(* Properties                                                               *)

\* As long as only close() overlaps reads, an open file in tail mode is
\* watched whenever nobody is in the middle of open(), close() or follow():
\* whatever readers did that failed or ended meanwhile, the next one at the
\* end of the file has something to wait on.
TailIsWatched ==
    (~raced /\ tail_mode /\ fh # NoFile /\ \A t \in Control : pc[t] = "idle")
        => watching

\* An open file is lost in two ways only: the node is opened once more without
\* close(), or a reader that has closed its own file forgets the one that an
\* open() without a lock has put in its place meanwhile.  No race of readers
\* that end or fail with each other, with close() or with follow() loses it.
LostOnlyByReopen ==
    [][\A f \in opened : (f = fh /\ f \in opened' /\ fh' # f) =>
            \/ \E t \in Control : OpenBegin(t)
            \/ raced /\ \E r \in Readers : ReadForget(r)]_vars

\* As long as only close() overlaps reads, a character appended after the
\* watch was set up wakes the reader that waits: nothing is lost between the
\* end of file that fgets() saw and the wait, however the append falls.
AppendWakes ==
    \A r \in Readers :
        (pc[r] = "rd_poll" /\ watched_at < Len(file) /\ off[fcopy[r]] < Len(file))
            ~> (pc[r] # "rd_poll" \/ raced)

\* As long as only close() overlaps reads, no reader stays inside do_read()
\* while the node stays closed, wherever close() caught it.
ClosedEndsRead == \A r \in Readers : []<>(pc[r] = "idle" \/ fh # NoFile \/ raced)

\* What AppendWakes and ClosedEndsRead rest on: as long as only close() overlaps
\* reads, a reader that waits has events to read if a character came after its
\* watch that it has not read, and an instance that is closed once the node is.
\* The event may have come, and the flag of stdio been set, at any time before; an
\* instance has a name that another may have by now.
WaiterIsWoken ==
    ~raced => \A r \in Readers : pc[r] = "rd_poll" =>
        /\ fh = NoFile => Gone(icopy[r])
        /\ watched_at < Len(file) /\ off[fcopy[r]] < Len(file) =>
              Gone(icopy[r]) \/ Ready(icopy[r])

\* The comment on do_read() says "In tail mode, waits for new data using
\* inotify when EOF is reached": a reader does not go on waiting while the
\* open file has characters it has not read.
WaitsOnlyAtEnd ==
    \A r \in Readers :
        (pc[r] = "rd_poll" /\ off[fcopy[r]] < Len(file))
            ~> (pc[r] # "rd_poll" \/ raced)

\* The header says that tail mode "forces the design to be thread safe": a
\* read that close() overtakes does not use the FILE that close() closed.
NoUseAfterClose == misuse => raced
=============================================================================
