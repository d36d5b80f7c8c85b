------------------------- MODULE TextFileNodeProofs ------------------------
(* What holds of TextFileNode for every choice of its constants.            *)
EXTENDS TextFileNode, FileWatcherProofs, SequenceTheorems

\* The bounds are natural numbers, and a file may have a character.
LEMMA Bounds == Bufsz \in Nat \ {0} /\ MaxChars \in Nat \ {0} /\ MaxCalls \in Nat
  BY BoundAssumption

\* Where a thread can be.
Labels == {"idle"} \cup ReadPc \cup WritePc \cup ControlPc

-----------------------------------------------------------------------------
(* Types                                                                    *)

\* A step moves one thread, and the threads have one role each.
LEMMA Moves ==
    ASSUME ThreadType, NEW t \in Threads, NEW l \in Labels, Goto(t, l)
    PROVE  /\ pc' \in [Threads -> Labels]
           /\ pc'[t] = l
           /\ \A u \in Threads \ {t} : pc'[u] = pc[u]
           /\ t \in Control => \A r \in Readers : pc'[r] = pc[r]
           /\ t \notin Control => \A u \in Control : pc'[u] = pc[u]
           /\ t \in Writers => \A r \in Readers : pc'[r] = pc[r]
           /\ t \in Readers => \A r \in Readers \ {t} : pc'[r] = pc[r]
  <1>1. /\ pc' \in [Threads -> Labels]
        /\ pc'[t] = l
        /\ \A u \in Threads \ {t} : pc'[u] = pc[u]
    BY DEF ThreadType, Goto, Labels
  <1>2. /\ \A r \in Readers : \A w \in Writers : r # w
        /\ \A r \in Readers : \A c \in Control : r # c
    BY ThreadAssumption
  <1> QED
    BY <1>1, <1>2 DEF Threads

\* What is watched, and the inotify instance, change only as FileWatcher says.
LEMMA WatcherTypeStep ==
    ASSUME TypeOK, OneInstance, Next
    PROVE  WatcherType' /\ OneInstance'
  <1>1. ASSUME NEW r \in Readers, ReadBegin(r) \/ ReaderStep(r)
        PROVE  RemoveWatch \/ (\E i \in Inos : TakeEvents(i)) \/ UNCHANGED watcherVars
    <2>1. pc[r] = "rd_poll" => icopy[r] \in Inos
      BY DEF TypeOK, ThreadType
    <2> QED
      BY <1>1, <2>1 DEF ReadBegin, ReaderStep, ReadCopy, ReadGets, ReadEnd, ReadFclose, ReadForget, ReadClear,
         ReadCheck, ReadPoll, ReadFail, ReadUnwatch
  <1>2. ASSUME NEW w \in Writers, WriteBegin(w) \/ WritePut(w)
        PROVE  (\E e \in Event : Notify(e)) \/ UNCHANGED watcherVars
    BY <1>2 DEF WriteBegin, WritePut, Grow, Event
  <1>3. ASSUME NEW t \in Control, ControlCall(t) \/ ControlStep(t)
        PROVE  AddWatch \/ RemoveWatch \/ UNCHANGED watcherVars
    BY <1>3 DEF ControlCall, OpenBegin, FollowBegin, CloseBegin, ControlStep, OpenFile, OpenWatch, OpenForget,
       FollowWatch, FollowSet, CloseLock, CloseWatch, CloseFile, CloseFinish, AddWatchFails
  <1>4. CASE Appended
    BY <1>4, WatcherKeeps DEF Appended, Grow, Event, TypeOK
  <1> QED
    BY <1>1, <1>2, <1>3, <1>4, WatcherKeeps DEF Next, TypeOK

\* A reader keeps the types.
LEMMA ReaderTypeStep ==
    ASSUME TypeOK, NEW r \in Readers, ReadBegin(r) \/ ReaderStep(r)
    PROVE  NodeType' /\ FileType' /\ ThreadType' /\ HistoryType'
  <1> USE DEF TypeOK
  <1>0. r \in Threads /\ pc \in [Threads -> Labels]
        /\ \A q \in Readers \ {r} : q \in Threads
    BY DEF Threads, ThreadType, Labels
  <1>1. NodeType'
    BY <1>0 DEF ReadBegin, ReaderStep, ReadCopy, ReadGets, ReadEnd, ReadFclose, ReadForget, ReadClear,
       ReadCheck, ReadPoll, ReadFail, ReadUnwatch, Lock, Unlock, nodeVars, NodeType
  <1>2. HistoryType'
    BY DEF ReadBegin, ReaderStep, ReadCopy, ReadGets, ReadEnd, ReadFclose, ReadForget, ReadClear,
       ReadCheck, ReadPoll, ReadFail, ReadUnwatch, histVars, HistoryType
  <1>3. FileType'
    <2>1. CASE ReadGets(r)
      <3> DEFINE f == fcopy[r]
      <3>1. CASE eof' = [eof EXCEPT ![f] = TRUE] /\ off' = off
        BY <2>1, <3>1 DEF ReadGets, FileType
      <3>2. CASE \E e \in 1..MaxChars :
                   /\ f \in opened /\ LineEnd(f, e)
                   /\ off' = [off EXCEPT ![f] = e]
                   /\ eof' = [eof EXCEPT ![f] = ~file[e] /\ e # off[f] + Bufsz]
        <4>1. PICK e \in 1..MaxChars :
                   /\ f \in opened /\ LineEnd(f, e)
                   /\ off' = [off EXCEPT ![f] = e]
                   /\ eof' = [eof EXCEPT ![f] = ~file[e] /\ e # off[f] + Bufsz]
          BY <3>2
        <4>2. e \in 0..MaxChars /\ e <= Len(file)
          BY <4>1, Bounds DEF LineEnd, FileType
        <4>3. off' \in [Files -> 0..MaxChars]
          BY <4>1, <4>2 DEF FileType
        <4>4. eof' \in [Files -> BOOLEAN]
          BY <4>1 DEF FileType
        <4>5. opened' = opened /\ file' = file
          BY <2>1 DEF ReadGets
        <4>6. \A g \in opened : off'[g] <= Len(file)
          BY <4>1, <4>2 DEF FileType
        <4> QED
          BY <4>3, <4>4, <4>5, <4>6 DEF FileType
      <3> QED
        BY <2>1, <3>1, <3>2 DEF ReadGets
    <2>2. CASE ~ReadGets(r)
      BY <2>2 DEF ReadBegin, ReaderStep, ReadCopy, ReadEnd, ReadFclose, ReadForget, ReadClear,
         ReadCheck, ReadPoll, ReadFail, ReadUnwatch, Fclose, fileVars, FileType
    <2> QED
      BY <2>1, <2>2
  <1>4. ThreadType'
    <2>0. mode' = mode
      BY DEF ReadBegin, ReaderStep, ReadCopy, ReadGets, ReadEnd, ReadFclose, ReadForget, ReadClear,
         ReadCheck, ReadPoll, ReadFail, ReadUnwatch
    <2>1. PICK l \in Labels : Goto(r, l)
      BY DEF ReadBegin, ReaderStep, ReadCopy, ReadGets, ReadEnd, ReadFclose, ReadForget, ReadClear,
         ReadCheck, ReadPoll, ReadFail, ReadUnwatch, Return, Labels, ReadPc, ForgetPc
    <2>2. pc' \in [Threads -> Labels] /\ pc'[r] = l /\ \A q \in Readers \ {r} : pc'[q] = pc[q]
      BY <1>0, <2>1, Moves
    <2>3. CASE Return(r)
      <3>1. pc'[r] = "idle"
        BY <1>0, <2>3 DEF Return, Goto
      <3> QED
        BY <2>0, <2>2, <2>3, <3>1 DEF Return, ThreadType, Labels
    <2>4. CASE UNCHANGED readVars /\ pc'[r] \notin {"rd_gets", "rd_poll"}
      BY <2>0, <2>2, <2>4 DEF readVars, ThreadType, Labels
    <2>5. CASE ReadCopy(r)
      <3>1. CASE Return(r)
        BY <2>3, <3>1
      <3>2. CASE /\ fh # NoFile
                 /\ fcopy' = [fcopy EXCEPT ![r] = fh]
                 /\ tcopy' = [tcopy EXCEPT ![r] = tail_mode]
                 /\ Goto(r, "rd_gets")
                 /\ UNCHANGED icopy
        <4>1. pc'[r] = "rd_gets"
          BY <1>0, <3>2 DEF Goto
        <4> QED
          BY <2>0, <2>2, <3>2, <4>1 DEF ThreadType, NodeType, Labels
      <3> QED
        BY <2>5, <3>1, <3>2 DEF ReadCopy
    <2>6. CASE ReadCheck(r)
      <3>1. CASE Active /\ icopy' = [icopy EXCEPT ![r] = inotify_fd] /\ Goto(r, "rd_poll")
        <4>1. pc'[r] = "rd_poll"
          BY <1>0, <3>1 DEF Goto
        <4>2. inotify_fd \in Inos /\ inotify_fd # NoIno
          BY <3>1 DEF Active, WatcherType
        <4> QED
          BY <2>0, <2>2, <2>6, <3>1, <4>1, <4>2 DEF ReadCheck, ThreadType, Labels
      <3>2. CASE ~Active /\ Goto(r, "rd_fail") /\ UNCHANGED icopy
        <4>1. pc'[r] = "rd_fail"
          BY <1>0, <3>2 DEF Goto
        <4> QED
          BY <2>0, <2>2, <2>6, <3>2, <4>1 DEF ReadCheck, ThreadType, Labels
      <3> QED
        BY <2>6, <3>1, <3>2 DEF ReadCheck
    <2>7. CASE ReadPoll(r)
      <3>1. CASE Return(r)
        BY <2>3, <3>1
      <3>2. CASE /\ Goto(r, "rd_copy")
                 /\ icopy' = [icopy EXCEPT ![r] = NoIno]
                 /\ UNCHANGED <<fcopy, tcopy>>
        <4>1. pc'[r] = "rd_copy"
          BY <1>0, <3>2 DEF Goto
        <4> QED
          BY <2>0, <2>2, <3>2, <4>1 DEF ThreadType, Labels
      <3> QED
        BY <2>7, <3>1, <3>2 DEF ReadPoll
    <2>8. CASE ~Return(r) /\ ~ReadCopy(r) /\ ~ReadCheck(r) /\ ~ReadPoll(r)
      <3>1. UNCHANGED readVars
        BY <2>8 DEF ReadBegin, ReaderStep, ReadGets, ReadEnd, ReadFclose, ReadForget, ReadClear, ReadFail,
           ReadUnwatch
      <3>2. pc'[r] \notin {"rd_gets", "rd_poll"}
        BY <1>0, <2>8 DEF ReadBegin, ReaderStep, ReadGets, ReadEnd, ReadFclose, ReadForget, ReadClear,
           ReadFail, ReadUnwatch, Goto
      <3> QED
        BY <2>4, <3>1, <3>2
    <2> QED
      BY <2>3, <2>5, <2>6, <2>7, <2>8
  <1> QED
    BY <1>1, <1>2, <1>3, <1>4

\* So does a writer, and whoever appends to the file.
LEMMA WriterTypeStep ==
    ASSUME TypeOK, (\E w \in Writers : WriteBegin(w) \/ WritePut(w)) \/ Appended
    PROVE  NodeType' /\ FileType' /\ ThreadType' /\ HistoryType'
  <1> USE DEF TypeOK
  <1>1. NodeType' /\ HistoryType'
    BY DEF WriteBegin, WritePut, Appended, nodeVars, histVars, NodeType, HistoryType
  <1>2. Grow => file' \in Seq(BOOLEAN) /\ Len(file') <= MaxChars /\ Len(file) <= Len(file')
                /\ Len(file') \in 0..MaxChars
    <2> SUFFICES ASSUME Grow
                 PROVE  file' \in Seq(BOOLEAN) /\ Len(file') <= MaxChars /\ Len(file) <= Len(file')
                        /\ Len(file') \in 0..MaxChars
      OBVIOUS
    <2>1. PICK b \in BOOLEAN : file' = Append(file, b) /\ Len(file) < MaxChars
      BY DEF Grow
    <2>2. file' \in Seq(BOOLEAN) /\ Len(file') = Len(file) + 1
      BY <2>1 DEF FileType
    <2> QED
      BY <2>1, <2>2, Bounds DEF FileType
  <1>3. FileType'
    <2>1. CASE UNCHANGED <<opened, off, eof, file>>
      BY <2>1 DEF FileType
    <2>2. CASE Appended
      <3>1. \A f \in opened : off[f] <= Len(file')
        BY <1>2, <2>2 DEF Appended, FileType
      <3> QED
        BY <1>2, <2>2, <3>1 DEF Appended, FileType
    <2>3. CASE /\ Grow /\ UNCHANGED <<opened, eof>> /\ fh \in opened
               /\ off' = [off EXCEPT ![fh] = Len(file')]
      <3>1. off' \in [Files -> 0..MaxChars]
        BY <1>2, <2>3 DEF FileType
      <3>2. \A f \in opened : off'[f] <= Len(file')
        BY <1>2, <2>3 DEF FileType
      <3> QED
        BY <1>2, <2>3, <3>1, <3>2 DEF FileType
    <2> QED
      BY <2>1, <2>2, <2>3 DEF WriteBegin, WritePut, fileVars
  <1>4. ThreadType'
    <2>1. UNCHANGED <<readVars, mode>>
      BY DEF WriteBegin, WritePut, Appended
    <2>2. pc' \in [Threads -> Labels] /\ \A r \in Readers : pc'[r] = pc[r]
      BY Moves DEF WriteBegin, WritePut, Appended, Threads, Labels, WritePc, ThreadType
    <2> QED
      BY <2>1, <2>2 DEF readVars, ThreadType, Labels
  <1> QED
    BY <1>1, <1>3, <1>4

\* So does a thread that opens, follows or closes.
LEMMA ControlTypeStep ==
    ASSUME TypeOK, NEW t \in Control, ControlCall(t) \/ ControlStep(t)
    PROVE  NodeType' /\ FileType' /\ ThreadType' /\ HistoryType'
  <1> USE DEF TypeOK
  <1>0. t \in Threads
    BY DEF Threads
  <1>1. NodeType'
    BY <1>0 DEF ControlCall, OpenBegin, FollowBegin, CloseBegin, ControlStep, OpenFile, OpenWatch, OpenForget,
       FollowWatch, FollowSet, CloseLock, CloseWatch, CloseFile, CloseFinish, Lock, Unlock,
       nodeVars, NodeType, ThreadType
  <1>2. FileType'
    <2>1. CASE OpenFile(t)
      <3>1. CASE \E f \in Files \ opened :
                   /\ opened' = opened \cup {f}
                   /\ off' = [off EXCEPT ![f] = 0]
                   /\ eof' = [eof EXCEPT ![f] = FALSE]
        <4>1. PICK f \in Files \ opened :
                   /\ opened' = opened \cup {f}
                   /\ off' = [off EXCEPT ![f] = 0]
                   /\ eof' = [eof EXCEPT ![f] = FALSE]
          BY <3>1
        <4>2. off' \in [Files -> 0..MaxChars]
          BY <4>1, Bounds DEF FileType
        <4>3. \A g \in opened' : off'[g] <= Len(file)
          BY <4>1 DEF FileType
        <4> QED
          BY <2>1, <4>1, <4>2, <4>3 DEF OpenFile, FileType
      <3>2. CASE UNCHANGED <<opened, off, eof>>
        BY <2>1, <3>2 DEF OpenFile, FileType
      <3> QED
        BY <2>1, <3>1, <3>2 DEF OpenFile
    <2>2. CASE ~OpenFile(t)
      BY <2>2 DEF ControlCall, OpenBegin, FollowBegin, CloseBegin, ControlStep, OpenWatch, OpenForget,
       FollowWatch, FollowSet, CloseLock, CloseWatch, CloseFile, CloseFinish, Fclose,
       fileVars, FileType
    <2> QED
      BY <2>1, <2>2
  <1>3. ThreadType'
    <2>1. PICK l \in Labels : Goto(t, l)
      BY DEF ControlCall, OpenBegin, FollowBegin, CloseBegin, Call, ControlStep, OpenFile, OpenWatch, OpenForget,
       FollowWatch, FollowSet, CloseLock, CloseWatch, CloseFile, CloseFinish, Labels, ControlPc,
       OpenFollowPc, ClosePc
    <2>2. pc' \in [Threads -> Labels] /\ \A r \in Readers : pc'[r] = pc[r]
      BY <1>0, <2>1, Moves
    <2>3. readVars' = readVars
      BY DEF ControlCall, OpenBegin, FollowBegin, CloseBegin, ControlStep, OpenFile, OpenWatch, OpenForget,
       FollowWatch, FollowSet, CloseLock, CloseWatch, CloseFile, CloseFinish
    <2>4. mode' \in [Control -> BOOLEAN]
      BY DEF ControlCall, OpenBegin, FollowBegin, CloseBegin, ControlStep, OpenFile, OpenWatch, OpenForget,
       FollowWatch, FollowSet, CloseLock, CloseWatch, CloseFile, CloseFinish, ThreadType
    <2> QED
      BY <2>2, <2>3, <2>4 DEF readVars, ThreadType, Labels
  <1>4. HistoryType'
    <2>1. calls' \in 0..MaxCalls
      BY Bounds DEF ControlCall, OpenBegin, FollowBegin, CloseBegin, Call, ControlStep, OpenFile,
       OpenWatch, OpenForget, FollowWatch, FollowSet, CloseLock, CloseWatch, CloseFile, CloseFinish, histVars,
       HistoryType
    <2>2. Len(file) \in 0..MaxChars
      BY DEF FileType
    <2>3. watched_at' \in 0..MaxChars
      BY <2>2 DEF ControlCall, OpenBegin, FollowBegin, CloseBegin, ControlStep, OpenFile, OpenWatch, OpenForget,
       FollowWatch, FollowSet, CloseLock, CloseWatch, CloseFile, CloseFinish, histVars, HistoryType
    <2>4. misuse' \in BOOLEAN /\ raced' \in BOOLEAN
      BY DEF ControlCall, OpenBegin, FollowBegin, CloseBegin, Overlap, ControlStep, OpenFile,
       OpenWatch, OpenForget, FollowWatch, FollowSet, CloseLock, CloseWatch, CloseFile, CloseFinish, histVars,
       HistoryType
    <2> QED
      BY <2>1, <2>3, <2>4 DEF HistoryType
  <1> QED
    BY <1>1, <1>2, <1>3, <1>4

\* Types, with what they need to be inductive.
TypeInv == TypeOK /\ OneInstance

\* The node starts with its types,
LEMMA TypeInit == Init => TypeInv
  <1> SUFFICES ASSUME Init PROVE TypeInv
    OBVIOUS
  <1>1. WatcherType /\ OneInstance
    BY WatcherStart DEF Init
  <1>2. NodeType
    BY DEF Init, NodeType
  <1>3. file \in Seq(BOOLEAN) /\ Len(file) \in {0, 1}
    <2>1. CASE file = <<>>
      BY <2>1
    <2>2. CASE file \in {<<FALSE>>, <<TRUE>>}
      <3>1. PICK b \in BOOLEAN : file = <<b>>
        BY <2>2
      <3> QED
        BY <3>1
    <2> QED
      BY <2>1, <2>2 DEF Init
  <1>4. FileType
    <2>1. opened = {}
      BY DEF Init
    <2>2. off \in [Files -> 0..MaxChars]
      BY Bounds DEF Init
    <2>3. eof \in [Files -> BOOLEAN]
      BY DEF Init
    <2>4. Len(file) <= MaxChars
      BY <1>3, Bounds
    <2> QED
      BY <1>3, <2>1, <2>2, <2>3, <2>4 DEF FileType
  <1>5. ThreadType
    BY DEF Init, ThreadType, Threads
  <1>6. HistoryType
    <2>1. calls \in 0..MaxCalls /\ watched_at \in 0..MaxChars
      BY Bounds DEF Init
    <2>2. misuse \in BOOLEAN /\ raced \in BOOLEAN
      BY DEF Init
    <2> QED
      BY <2>1, <2>2 DEF HistoryType
  <1> QED
    BY <1>1, <1>2, <1>4, <1>5, <1>6 DEF TypeInv, TypeOK

\* and every step keeps them.
LEMMA TypeStep == TypeInv /\ [Next]_vars => TypeInv'
  <1> SUFFICES ASSUME TypeInv, [Next]_vars PROVE TypeInv'
    OBVIOUS
  <1>1. CASE Next
    BY <1>1, WatcherTypeStep, ReaderTypeStep, WriterTypeStep, ControlTypeStep
    DEF Next, TypeInv, TypeOK
  <1>2. CASE UNCHANGED vars
    <2> USE <1>2 DEF vars, watcherVars, nodeVars, fileVars, readVars, histVars, TypeInv, TypeOK
    <2>1. WatcherType' /\ OneInstance'
      BY WatcherKeeps
    <2>2. NodeType' /\ FileType' /\ ThreadType' /\ HistoryType'
      BY DEF NodeType, FileType, ThreadType, HistoryType
    <2> QED
      BY <2>1, <2>2
  <1> QED
    BY <1>1, <1>2

\* In every reachable state every variable has its type: among others, no FILE
\* that is open is past the end of the file, and no reader polls -1.
THEOREM TypeCorrect == Spec => []TypeOK
  <1>1. TypeInv => TypeOK
    BY DEF TypeInv
  <1> QED
    BY <1>1, TypeInit, TypeStep, PTL DEF Spec

-----------------------------------------------------------------------------
(* What one thread at a time that opens, follows or closes brings about     *)

\* A program opens, closes and follows a node from one thread at a time.
OneControl == \A t, u \in Control : t = u

\* While the node is being opened it has no file, and when close() or a failing
\* open() forgets its file that is closed.
Handed == \A t \in Control :
    /\ pc[t] = "op_fopen" => fh = NoFile
    /\ pc[t] \in {"op_null", "cl_clear"} => fh \notin opened

\* As long as nobody opens or follows under a reader, there is no reader while
\* somebody opens or follows.
Apart == ~raced =>
    \A t \in Control, r \in Readers : pc[t] \in OpenFollowPc => pc[r] = "idle"

\* A reader forgets the file only after it has closed it, and takes the watch
\* down only after it has forgotten it.
Unhanded == ~raced => \A r \in Readers :
    /\ pc[r] \in ForgetPc => fh \notin opened
    /\ pc[r] = "rd_unwatch" => fh = NoFile

\* close() has done nothing yet while it waits for the lock.
Settled == \A t \in Control : pc[t] \in {"idle", "cl_lock"}

\* follow() turns tail mode on over a watched file, and fails over a file that
\* is not in tail mode.
Followed == ~raced =>
    /\ tail_mode /\ fh # NoFile /\ Settled => watching
    /\ \A t \in Control : pc[t] = "fo_set" /\ mode[t] /\ fh # NoFile => watching
    /\ \A t \in Control : pc[t] = "fo_watch" /\ mode[t] => ~tail_mode

\* The inductive invariant.
IInv == TypeInv /\ Handed /\ Apart /\ Unhanded /\ Followed

\* The labels, for the provers to tell apart.
LEMMA Roles ==
    /\ "idle" \notin OpenFollowPc
    /\ {"cl_lock", "cl_watch", "cl_fclose", "cl_clear"} \cap OpenFollowPc = {}
    /\ {"op_fopen", "op_watch", "op_null", "fo_watch", "fo_set"} = OpenFollowPc
  BY DEF OpenFollowPc

\* A reader of an idle node starts only if it sees nobody open or follow; a
\* reader leaves the file and the watch as they are, or drops them.
LEMMA ReaderFacts ==
    ASSUME TypeOK, NEW r \in Readers, ReadBegin(r) \/ ReaderStep(r)
    PROVE  /\ tail_mode' = tail_mode /\ mode' = mode
           /\ \A t \in Control : pc'[t] = pc[t]
           /\ \A q \in Readers \ {r} : pc'[q] = pc[q]
           /\ opened' \subseteq opened
           /\ \/ fh' = fh
              \/ fh' = NoFile /\ ReadForget(r)
           /\ raced => raced'
           /\ pc[r] # "idle" \/ raced' \/ \A t \in Control : pc[t] \notin OpenFollowPc
           /\ pc'[r] = "rd_unwatch" => fh' = NoFile
           /\ pc'[r] \in ForgetPc => fh' \notin opened'
           /\ watching' = watching \/ pc[r] = "rd_unwatch"
  <1>0. r \in Threads /\ ThreadType
    BY DEF Threads, TypeOK
  <1>1. PICK l \in Labels : Goto(r, l)
    BY DEF ReadBegin, ReaderStep, ReadCopy, ReadGets, ReadEnd, ReadFclose, ReadForget, ReadClear,
       ReadCheck, ReadPoll, ReadFail, ReadUnwatch, Return, Labels, ReadPc, ForgetPc
  <1>2. /\ pc'[r] = l
        /\ \A t \in Control : pc'[t] = pc[t]
        /\ \A q \in Readers \ {r} : pc'[q] = pc[q]
    <2>1. r \notin Control
      BY ThreadAssumption
    <2> QED
      BY <1>0, <1>1, <2>1, Moves
  <1>3. tail_mode' = tail_mode /\ mode' = mode
    BY DEF ReadBegin, ReaderStep, ReadCopy, ReadGets, ReadEnd, ReadFclose, ReadForget, ReadClear,
       ReadCheck, ReadPoll, ReadFail, ReadUnwatch, nodeVars
  <1>4. /\ opened' \subseteq opened
        /\ \/ fh' = fh
           \/ fh' = NoFile /\ ReadForget(r)
    BY DEF ReadBegin, ReaderStep, ReadCopy, ReadGets, ReadEnd, ReadFclose, ReadForget, ReadClear,
       ReadCheck, ReadPoll, ReadFail, ReadUnwatch, nodeVars, fileVars, Fclose
  <1>5. /\ raced => raced'
        /\ pc[r] # "idle" \/ raced' \/ \A t \in Control : pc[t] \notin OpenFollowPc
    <2>1. CASE ReadBegin(r)
      <3>1. raced' = (raced \/ \E t \in Control : pc[t] \in OpenFollowPc)
        BY <2>1 DEF ReadBegin
      <3> QED
        BY <3>1, Zenon
    <2>2. CASE ReaderStep(r)
      <3>1. raced' = raced
        BY <2>2 DEF ReaderStep, ReadCopy, ReadGets, ReadEnd, ReadFclose, ReadForget, ReadClear,
           ReadCheck, ReadPoll, ReadFail, ReadUnwatch, histVars
      <3>2. pc[r] # "idle"
        BY <2>2 DEF ReaderStep, ReadCopy, ReadGets, ReadEnd, ReadFclose, ReadForget, ReadClear,
           ReadCheck, ReadPoll, ReadFail, ReadUnwatch
      <3> QED
        BY <3>1, <3>2
    <2> QED
      BY <2>1, <2>2
  <1>6. pc'[r] = "rd_unwatch" => fh' = NoFile
    BY <1>0 DEF ReadBegin, ReaderStep, ReadCopy, ReadGets, ReadEnd, ReadFclose, ReadForget, ReadClear,
       ReadCheck, ReadPoll, ReadFail, ReadUnwatch, Return, Goto, ThreadType
  <1>8. pc'[r] \in ForgetPc => fh' \notin opened'
    BY <1>0 DEF ReadBegin, ReaderStep, ReadCopy, ReadGets, ReadEnd, ReadFclose, ReadForget, ReadClear,
       ReadCheck, ReadPoll, ReadFail, ReadUnwatch, Return, Goto, ThreadType, ForgetPc, Fclose, nodeVars
  <1>7. watching' = watching \/ pc[r] = "rd_unwatch"
    BY DEF ReadBegin, ReaderStep, ReadCopy, ReadGets, ReadEnd, ReadFclose, ReadForget, ReadClear,
       ReadCheck, ReadPoll, ReadFail, ReadUnwatch, TakeEvents, watcherVars
  <1> QED
    BY <1>2, <1>3, <1>4, <1>5, <1>6, <1>7, <1>8

\* A writer touches none of what the invariant speaks of.
LEMMA WriterFacts ==
    ASSUME TypeOK, (\E w \in Writers : WriteBegin(w) \/ WritePut(w)) \/ Appended
    PROVE  /\ UNCHANGED <<fh, tail_mode, opened, mode, raced, watching>>
           /\ \A t \in Control : pc'[t] = pc[t]
           /\ \A r \in Readers : pc'[r] = pc[r]
  <1>1. UNCHANGED <<fh, tail_mode, opened, mode, raced, watching>>
    BY DEF WriteBegin, WritePut, Appended, Grow, Notify, nodeVars, fileVars, histVars, watcherVars
  <1>2. \A t \in Control : t \notin Writers
    BY ThreadAssumption
  <1>3. ThreadType
    BY DEF TypeOK
  <1> QED
    BY <1>1, <1>2, <1>3, Moves DEF WriteBegin, WritePut, Appended, Threads, Labels, WritePc

\* A thread that opens, follows or closes moves no reader.
LEMMA ControlFacts ==
    ASSUME TypeOK, NEW t \in Control, ControlCall(t) \/ ControlStep(t)
    PROVE  /\ \A r \in Readers : pc'[r] = pc[r]
           /\ raced => raced'
           /\ pc[t] = "idle" /\ pc'[t] \in OpenFollowPc /\ ~raced'
                => \A r \in Readers : pc[r] = "idle"
           /\ pc'[t] \in OpenFollowPc => pc[t] = "idle" \/ pc[t] \in OpenFollowPc
  <1>0. t \in Threads /\ ThreadType
    BY DEF Threads, TypeOK
  <1>1. PICK l \in Labels : Goto(t, l)
    BY DEF ControlCall, OpenBegin, FollowBegin, CloseBegin, Call, ControlStep, OpenFile, OpenWatch, OpenForget,
       FollowWatch, FollowSet, CloseLock, CloseWatch, CloseFile, CloseFinish, Labels, ControlPc,
       OpenFollowPc, ClosePc
  <1>2. pc'[t] = l /\ \A r \in Readers : pc'[r] = pc[r]
    BY <1>0, <1>1, Moves
  <1>3. raced => raced'
    BY DEF ControlCall, OpenBegin, FollowBegin, CloseBegin, Overlap, ControlStep, OpenFile,
       OpenWatch, OpenForget, FollowWatch, FollowSet, CloseLock, CloseWatch, CloseFile, CloseFinish, histVars
  <1>4. pc[t] = "idle" /\ pc'[t] \in OpenFollowPc /\ ~raced'
          => \A r \in Readers : pc[r] = "idle"
    <2>1. CASE OpenBegin(t) \/ FollowBegin(t)
      BY <2>1 DEF OpenBegin, FollowBegin, Overlap
    <2>2. CASE CloseBegin(t)
      BY <1>0, <2>2, Roles DEF CloseBegin, Call, Goto, ThreadType
    <2>3. CASE ControlStep(t)
      BY <2>3 DEF ControlStep, OpenFile, OpenWatch, OpenForget, FollowWatch, FollowSet, CloseLock, CloseWatch,
         CloseFile, CloseFinish
    <2> QED
      BY <2>1, <2>2, <2>3 DEF ControlCall
  <1>5. pc'[t] \in OpenFollowPc => pc[t] = "idle" \/ pc[t] \in OpenFollowPc
    <2>1. CASE ControlCall(t)
      BY <2>1 DEF ControlCall, OpenBegin, FollowBegin, CloseBegin, Call
    <2>2. CASE ControlStep(t)
      BY <1>0, <2>2, Roles DEF ControlStep, OpenFile, OpenWatch, OpenForget, FollowWatch, FollowSet, CloseLock,
         CloseWatch, CloseFile, CloseFinish, Goto, ThreadType
    <2> QED
      BY <2>1, <2>2
  <1> QED
    BY <1>2, <1>3, <1>4, <1>5

\* While the node is opened nobody else touches it, and so its file is known.
LEMMA HandedStep ==
    ASSUME OneControl, TypeInv, Handed, Next
    PROVE  Handed'
  <1> USE DEF TypeInv
  <1>0. ThreadType /\ \A t \in Control : t \in Threads
    BY DEF TypeOK, Threads
  <1>1. ASSUME NEW r \in Readers, ReadBegin(r) \/ ReaderStep(r) PROVE Handed'
    <2>1. /\ \A t \in Control : pc'[t] = pc[t]
          /\ opened' \subseteq opened
          /\ fh' = fh \/ fh' = NoFile
          /\ NoFile \notin opened
      BY <1>1, ReaderFacts, FileAssumption DEF TypeOK, FileType
    <2> QED
      BY <2>1 DEF Handed
  <1>2. CASE (\E w \in Writers : WriteBegin(w) \/ WritePut(w)) \/ Appended
    BY <1>2, WriterFacts DEF Handed
  <1>3. ASSUME NEW t \in Control, ControlCall(t) \/ ControlStep(t) PROVE Handed'
    <2>1. SUFFICES /\ pc'[t] = "op_fopen" => fh' = NoFile
                   /\ pc'[t] \in {"op_null", "cl_clear"} => fh' \notin opened'
      BY <2>1 DEF Handed, OneControl
    <2>2. pc'[t] = "op_fopen" => OpenBegin(t)
      BY <1>0, <1>3 DEF ControlCall, OpenBegin, FollowBegin, CloseBegin, Call, ControlStep, OpenFile,
         OpenWatch, OpenForget, FollowWatch, FollowSet, CloseLock, CloseWatch, CloseFile, CloseFinish, Goto,
         ThreadType
    <2>3. pc'[t] \in {"op_null", "cl_clear"} => CloseFile(t) \/ (OpenWatch(t) /\ Fclose(fh))
      BY <1>0, <1>3 DEF ControlCall, OpenBegin, FollowBegin, CloseBegin, Call, ControlStep, OpenFile,
         OpenWatch, OpenForget, FollowWatch, FollowSet, CloseLock, CloseWatch, CloseFile, CloseFinish, Goto,
         ThreadType
    <2> QED
      BY <2>2, <2>3 DEF OpenBegin, OpenWatch, CloseFile, Fclose, nodeVars
  <1> QED
    BY <1>1, <1>2, <1>3 DEF Next

\* A reader that would begin under somebody who opens or follows, or somebody
\* who would open or follow over a reader, makes raced true.
LEMMA ApartStep ==
    ASSUME OneControl, TypeInv, Apart, Next
    PROVE  Apart'
  <1> USE DEF TypeInv
  <1>1. ASSUME NEW r \in Readers, ReadBegin(r) \/ ReaderStep(r) PROVE Apart'
    <2>1. SUFFICES ASSUME ~raced', NEW t \in Control, NEW q \in Readers, pc'[t] \in OpenFollowPc
                   PROVE  pc'[q] = "idle"
      BY DEF Apart
    <2>2. /\ \A u \in Control : pc'[u] = pc[u]
          /\ \A u \in Readers \ {r} : pc'[u] = pc[u]
          /\ raced => raced'
          /\ pc[r] # "idle" \/ raced' \/ \A u \in Control : pc[u] \notin OpenFollowPc
      BY <1>1, ReaderFacts
    <2>3. pc[r] = "idle" /\ pc[q] = "idle"
      BY <2>1, <2>2 DEF Apart
    <2> QED
      BY <2>1, <2>2, <2>3
  <1>2. CASE (\E w \in Writers : WriteBegin(w) \/ WritePut(w)) \/ Appended
    BY <1>2, WriterFacts DEF Apart
  <1>3. ASSUME NEW t \in Control, ControlCall(t) \/ ControlStep(t) PROVE Apart'
    BY <1>3, ControlFacts DEF Apart, OneControl
  <1> QED
    BY <1>1, <1>2, <1>3 DEF Next

\* A node is given a file only by open(), and then no reader is in do_read().
LEMMA UnhandedStep ==
    ASSUME OneControl, TypeInv, Apart, Unhanded, Next
    PROVE  Unhanded'
  <1> USE DEF TypeInv
  <1>1. ASSUME NEW r \in Readers, ReadBegin(r) \/ ReaderStep(r) PROVE Unhanded'
    <2>1. /\ \A q \in Readers \ {r} : pc'[q] = pc[q]
          /\ fh' = fh \/ fh' = NoFile
          /\ opened' \subseteq opened /\ NoFile \notin opened
          /\ raced => raced'
          /\ pc'[r] = "rd_unwatch" => fh' = NoFile
          /\ pc'[r] \in ForgetPc => fh' \notin opened'
      BY <1>1, ReaderFacts, FileAssumption DEF TypeOK, FileType
    <2> QED
      BY <2>1 DEF Unhanded
  <1>2. CASE (\E w \in Writers : WriteBegin(w) \/ WritePut(w)) \/ Appended
    BY <1>2, WriterFacts DEF Unhanded
  <1>3. ASSUME NEW t \in Control, ControlCall(t) \/ ControlStep(t) PROVE Unhanded'
    <2>1. SUFFICES ASSUME ~raced', NEW r \in Readers, pc'[r] \in ForgetPc \cup {"rd_unwatch"}
                   PROVE  /\ pc'[r] \in ForgetPc => fh' \notin opened'
                          /\ pc'[r] = "rd_unwatch" => fh' = NoFile
      BY DEF Unhanded
    <2>2. pc'[r] = pc[r] /\ ~raced
      BY <1>3, <2>1, ControlFacts
    <2>3. /\ pc[t] \notin OpenFollowPc
          /\ pc[r] \in ForgetPc => fh \notin opened
          /\ pc[r] = "rd_unwatch" => fh = NoFile
          /\ NoFile \notin opened
      BY <2>1, <2>2, FileAssumption DEF Apart, Unhanded, ForgetPc, TypeOK, FileType
    <2> QED
      BY <1>3, <2>2, <2>3, Roles DEF Fclose, fileVars, ControlCall, OpenBegin, FollowBegin, CloseBegin, ControlStep, OpenFile,
         OpenWatch, OpenForget, FollowWatch, FollowSet, CloseLock, CloseWatch, CloseFile, CloseFinish, nodeVars
  <1> QED
    BY <1>1, <1>2, <1>3 DEF Next

\* Whoever makes the node follow its file has it watched first.
LEMMA FollowedStep ==
    ASSUME OneControl, TypeInv, Apart, Unhanded, Followed, Next
    PROVE  Followed'
  <1> USE DEF TypeInv
  <1>0. ThreadType /\ \A t \in Control : t \in Threads
    BY DEF TypeOK, Threads
  <1>1. ASSUME NEW r \in Readers, ReadBegin(r) \/ ReaderStep(r) PROVE Followed'
    <2>1. SUFFICES ASSUME ~raced' PROVE Followed'
      BY DEF Followed
    <2>2. /\ tail_mode' = tail_mode /\ mode' = mode
          /\ \A t \in Control : pc'[t] = pc[t]
          /\ fh' = fh \/ fh' = NoFile
          /\ ~raced
          /\ watching' = watching \/ pc[r] = "rd_unwatch"
      BY <1>1, <2>1, ReaderFacts
    <2>3. watching' = watching \/ fh' = NoFile
      BY <2>2 DEF Unhanded
    <2>4. Settled' => Settled
      BY <2>2 DEF Settled
    <2> QED
      BY <2>2, <2>3, <2>4 DEF Followed
  <1>2. CASE (\E w \in Writers : WriteBegin(w) \/ WritePut(w)) \/ Appended
    BY <1>2, WriterFacts DEF Followed, Settled
  <1>3. ASSUME NEW t \in Control, ControlCall(t) \/ ControlStep(t) PROVE Followed'
    <2>1. SUFFICES ASSUME ~raced'
                   PROVE  /\ tail_mode' /\ fh' # NoFile /\ pc'[t] \in {"idle", "cl_lock"} => watching'
                          /\ pc'[t] = "fo_set" /\ mode'[t] /\ fh' # NoFile => watching'
                          /\ pc'[t] = "fo_watch" /\ mode'[t] => ~tail_mode'
      BY <2>1 DEF Followed, Settled, OneControl
    <2>2. ~raced
      BY <1>3, <2>1, ControlFacts
    <2>3. /\ tail_mode /\ fh # NoFile /\ pc[t] \in {"idle", "cl_lock"} => watching
          /\ pc[t] = "fo_set" /\ mode[t] /\ fh # NoFile => watching
          /\ pc[t] = "fo_watch" /\ mode[t] => ~tail_mode
      BY <2>2 DEF Followed, Settled, OneControl
    <2>4. pc \in [Threads -> Labels] /\ mode \in [Control -> BOOLEAN] /\ tail_mode \in BOOLEAN
      BY <1>0 DEF TypeOK, NodeType, ThreadType, Labels
    <2>5. CASE OpenBegin(t)
      BY <1>0, <2>4, <2>5 DEF OpenBegin, Call, Goto
    <2>6. CASE FollowBegin(t)
      <3>1. PICK b \in BOOLEAN :
              /\ mode' = [mode EXCEPT ![t] = b]
              /\ Call(t, IF \/ b /\ ~tail_mode /\ fh # NoFile
                            \/ ~b /\ tail_mode
                         THEN "fo_watch" ELSE "fo_set")
        BY <2>6 DEF FollowBegin
      <3>2. UNCHANGED <<fh, tail_mode, watching>>
        BY <2>6 DEF FollowBegin, nodeVars, watcherVars
      <3>3. mode'[t] = b /\ pc[t] = "idle"
        BY <2>4, <3>1 DEF Call
      <3>4. pc'[t] = IF (b /\ ~tail_mode /\ fh # NoFile) \/ (~b /\ tail_mode)
                     THEN "fo_watch" ELSE "fo_set"
        BY <1>0, <2>4, <3>1 DEF Call, Goto
      <3> QED
        BY <2>3, <3>2, <3>3, <3>4
    <2>7. CASE CloseBegin(t) \/ CloseLock(t) \/ CloseWatch(t) \/ CloseFile(t) \/ CloseFinish(t)
      BY <1>0, <2>3, <2>4, <2>7 DEF CloseBegin, CloseLock, CloseWatch, CloseFile, CloseFinish, Call,
         Goto, nodeVars, watcherVars
    <2>8. CASE OpenFile(t)
      BY <1>0, <2>4, <2>8 DEF OpenFile, Goto
    <2>9. CASE OpenWatch(t)
      BY <1>0, <2>4, <2>9 DEF OpenWatch, OpenForget, AddWatch, Goto
    <2>10. CASE FollowWatch(t)
      BY <1>0, <2>3, <2>4, <2>10 DEF FollowWatch, AddWatch, Goto, nodeVars
    <2>12. CASE OpenForget(t)
      BY <1>0, <2>4, <2>12 DEF OpenForget, Goto
    <2>11. CASE FollowSet(t)
      BY <1>0, <2>3, <2>4, <2>11 DEF FollowSet, Goto, watcherVars
    <2> QED
      BY <1>3, <2>5, <2>6, <2>7, <2>8, <2>9, <2>10, <2>11, <2>12 DEF ControlCall, ControlStep
  <1> QED
    BY <1>1, <1>2, <1>3 DEF Next

\* The invariant is inductive with one thread that opens, follows and closes.
LEMMA Invariant == OneControl => (Spec => []IInv)
  <1> SUFFICES ASSUME OneControl PROVE Spec => []IInv
    OBVIOUS
  <1>1. Init => IInv
    <2> SUFFICES ASSUME Init PROVE IInv
      OBVIOUS
    <2>1. \A t \in Threads : pc[t] = "idle"
      BY DEF Init
    <2>2. /\ \A t \in Control : pc[t] = "idle"
          /\ \A r \in Readers : pc[r] = "idle"
      BY <2>1 DEF Threads
    <2>3. fh = NoFile
      BY DEF Init
    <2> QED
      BY <2>2, <2>3, TypeInit, Roles DEF IInv, Handed, Apart, Unhanded, Followed, ForgetPc
  <1>2. IInv /\ [Next]_vars => IInv'
    <2> SUFFICES ASSUME IInv, [Next]_vars PROVE IInv'
      OBVIOUS
    <2>1. TypeInv'
      BY TypeStep DEF IInv
    <2>2. CASE Next
      BY <2>1, <2>2, HandedStep, ApartStep, UnhandedStep, FollowedStep DEF IInv
    <2>3. CASE UNCHANGED vars
      BY <2>1, <2>3 DEF IInv, Handed, Apart, Unhanded, Followed, Settled, vars, watcherVars, nodeVars,
         fileVars, histVars
    <2> QED
      BY <2>2, <2>3
  <1> QED
    BY <1>1, <1>2, PTL DEF Spec

\* As long as nobody opens or follows under a reader, an open file in tail mode
\* is watched whenever nobody is in the middle of open(), close() or follow(),
\* however many readers end or fail meanwhile.
THEOREM TailCorrect == OneControl => (Spec => []TailIsWatched)
  <1> SUFFICES ASSUME OneControl PROVE Spec => []TailIsWatched
    OBVIOUS
  <1>1. IInv => TailIsWatched
    BY DEF IInv, Followed, Settled, TailIsWatched
  <1> QED
    BY <1>1, Invariant, PTL

\* A file that stays open is forgotten only by one more open(), or by a reader
\* under which the node was opened: readers that end or fail, follow(), close()
\* and an open() that fails all close the file they let go.
THEOREM LostCorrect == OneControl => (Spec => LostOnlyByReopen)
  <1> SUFFICES ASSUME OneControl PROVE Spec => LostOnlyByReopen
    OBVIOUS
  <1> DEFINE Kept == \A f \in opened :
        (f = fh /\ f \in opened' /\ fh' # f) =>
            \/ \E t \in Control : OpenBegin(t)
            \/ raced /\ \E r \in Readers : ReadForget(r)
  <1>1. IInv /\ [Next]_vars => [Kept]_vars
    <2> SUFFICES ASSUME IInv, Next, fh \in opened, fh \in opened', fh' # fh
                 PROVE  \/ \E t \in Control : OpenBegin(t)
                        \/ raced /\ \E r \in Readers : ReadForget(r)
      OBVIOUS
    <2>0. TypeOK /\ fh # NoFile
      BY FileAssumption DEF IInv, TypeInv, TypeOK, FileType
    <2>1. ASSUME NEW r \in Readers, ReadBegin(r) \/ ReaderStep(r) PROVE raced /\ ReadForget(r)
      <3>1. ReadForget(r)
        BY <2>0, <2>1, ReaderFacts
      <3>2. pc[r] \in ForgetPc
        BY <3>1 DEF ReadForget
      <3> QED
        BY <3>1, <3>2 DEF IInv, Unhanded
    <2>2. CASE (\E w \in Writers : WriteBegin(w) \/ WritePut(w)) \/ Appended
      BY <2>0, <2>2, WriterFacts
    <2>3. ASSUME NEW t \in Control, ControlCall(t) \/ ControlStep(t) PROVE OpenBegin(t)
      <3>1. ~OpenFile(t) /\ ~OpenForget(t) /\ ~CloseFinish(t)
        BY <2>0 DEF IInv, Handed, OpenFile, OpenForget, CloseFinish
      <3> QED
        BY <2>3, <3>1 DEF ControlCall, FollowBegin, CloseBegin, ControlStep, OpenWatch, FollowWatch,
           FollowSet, CloseLock, CloseWatch, CloseFile, Fclose, nodeVars
    <2> QED
      BY <2>1, <2>2, <2>3 DEF Next
  <1> QED
    BY <1>1, Invariant, PTL DEF Spec, LostOnlyByReopen

-----------------------------------------------------------------------------
(* What wakes the reader that waits for its file to grow                    *)

\* A program reads a node from one thread at a time.
OneReader == \A q, r \in Readers : q = r

\* The file of a node is open until a reader, close() or a failing open() has
\* closed it, and by then close() and open() have taken the watch down.
Held ==
    /\ fh # NoFile =>
        \/ fh \in opened
        \/ \E t \in Control : pc[t] \in {"op_null", "cl_clear"}
        \/ \E r \in Readers : pc[r] \in ForgetPc
    /\ \A t \in Control : pc[t] \in {"op_null", "cl_fclose", "cl_clear"} => ~watching

\* If a character came after the watch, and is not read, there is an event.
Told == (watching /\ watched_at < Len(file) /\ off[fh] < Len(file)) => queue[inotify_fd] # <<>>

\* Where a reader is between fgets() and the event, and after it saw the end.
Begun == {"rd_gets", "rd_clear", "rd_check", "rd_poll"}
Ended == Begun \ {"rd_gets"}

\* While a reader is in do_read() and the file is watched, the file remains its
\* file.
FileStays == ~raced => \A r \in Readers : pc[r] \in Begun =>
    fcopy[r] # NoFile /\ (fcopy[r] = fh \/ ~watching)

\* The flag of stdio outlives a call, so it says that the end was seen, if ever:
\* what came since then has an event.  A reader that waits has cleared the flag,
\* hence may take the event, and waits for the instance of the watcher.
EndIsTold == ~raced =>
    /\ fh # NoFile /\ eof[fh] => Told
    /\ \A r \in Readers :
         /\ pc[r] \in Ended => Told
         /\ pc[r] \in {"rd_check", "rd_poll"} /\ watching => ~eof[fh]
         /\ pc[r] = "rd_poll" => icopy[r] = inotify_fd \/ Gone(icopy[r])

\* A reader lets the file go only when it closes it, and touches the watch only to
\* take it down or to read an event of it.
LEMMA ReaderKeeps ==
    ASSUME TypeOK, NEW r \in Readers, ReadBegin(r) \/ ReaderStep(r)
    PROVE  /\ UNCHANGED <<fh, opened>> \/ fh' = NoFile \/ pc'[r] \in ForgetPc
           /\ pc[r] \in ForgetPc => fh' = NoFile
           /\ UNCHANGED <<file, watched_at>>
           /\ watching' => watching
           /\ \/ RemoveWatch
              \/ pc[r] = "rd_poll" /\ TakeEvents(icopy[r])
              \/ UNCHANGED watcherVars
  <1>0. r \in Threads /\ pc \in [Threads -> Labels]
    BY DEF Threads, TypeOK, ThreadType, Labels
  <1>1. /\ UNCHANGED <<fh, opened>> \/ fh' = NoFile \/ pc'[r] \in ForgetPc
        /\ pc[r] \in ForgetPc => fh' = NoFile
    <2>1. CASE ReadFclose(r)
      BY <1>0, <2>1 DEF ReadFclose, Goto, ForgetPc
    <2>2. CASE ReadForget(r)
      BY <2>2 DEF ReadForget
    <2>3. CASE ~ReadFclose(r) /\ ~ReadForget(r)
      BY <2>3 DEF ReadBegin, ReaderStep, ReadCopy, ReadGets, ReadEnd, ReadClear, ReadCheck,
         ReadPoll, ReadFail, ReadUnwatch, nodeVars, fileVars, ForgetPc
    <2> QED
      BY <2>1, <2>2, <2>3
  <1>2. UNCHANGED <<file, watched_at>>
    BY DEF ReadBegin, ReaderStep, ReadCopy, ReadGets, ReadEnd, ReadFclose, ReadForget, ReadClear, ReadCheck,
       ReadPoll, ReadFail, ReadUnwatch, fileVars, histVars
  <1>3. \/ RemoveWatch
        \/ pc[r] = "rd_poll" /\ TakeEvents(icopy[r])
        \/ UNCHANGED watcherVars
    BY DEF ReadBegin, ReaderStep, ReadCopy, ReadGets, ReadEnd, ReadFclose, ReadForget, ReadClear, ReadCheck,
       ReadPoll, ReadFail, ReadUnwatch
  <1> QED
    BY <1>1, <1>2, <1>3 DEF RemoveWatch, TakeEvents, watcherVars

\* A character that is written, or appended, leaves an event with the watch.
LEMMA GrowTells ==
    ASSUME TypeInv, Grow
    PROVE  watching' => queue'[inotify_fd'] # <<>>
  <1>1. PICK b \in BOOLEAN : Notify(NoName)
    BY DEF Grow
  <1>2. watching => inotify_fd \in Inos
    BY DEF TypeInv, TypeOK, WatcherType, OneInstance
  <1>3. watching => queue[inotify_fd] \in Seq(Event) /\ NoName \in Event
    BY <1>2 DEF TypeInv, TypeOK, WatcherType, Event
  <1>4. \A q \in Seq(Event) : \A e \in Event : Post(q, e) # <<>>
    <2> SUFFICES ASSUME NEW q \in Seq(Event), NEW e \in Event PROVE Post(q, e) # <<>>
      OBVIOUS
    <2>1. Append(q, e) # <<>>
      OBVIOUS
    <2> QED
      BY <2>1 DEF Post
  <1> QED
    BY <1>1, <1>2, <1>3, <1>4 DEF Notify

\* While a reader is in do_read() and nobody raced, a thread other than it can
\* only close.
LEMMA OnlyCloses ==
    ASSUME TypeInv, Apart, ~raced', NEW t \in Control, ControlCall(t) \/ ControlStep(t),
           NEW r \in Readers, pc[r] # "idle"
    PROVE  CloseBegin(t) \/ CloseLock(t) \/ CloseWatch(t) \/ CloseFile(t) \/ CloseFinish(t)
  <1>1. /\ ~raced
        /\ pc'[t] \in OpenFollowPc => pc[t] \in OpenFollowPc
    BY ControlFacts DEF TypeInv
  <1>2. pc[t] \notin OpenFollowPc /\ pc'[t] \notin OpenFollowPc
    BY <1>1 DEF Apart
  <1>3. t \in Threads /\ pc \in [Threads -> Labels]
    BY DEF TypeInv, TypeOK, ThreadType, Threads, Labels
  <1>4. ~OpenBegin(t) /\ ~FollowBegin(t)
    BY <1>2, <1>3, Roles DEF OpenBegin, FollowBegin, Call, Goto
  <1> QED
    BY <1>2, <1>4, Roles DEF ControlCall, ControlStep, OpenFile, OpenWatch, OpenForget, FollowWatch, FollowSet

\* Whoever closes the file of the node lets go of it, and close() takes the watch
\* down first.
LEMMA HeldStep ==
    ASSUME OneControl, TypeInv, Held, Next
    PROVE  Held'
  <1> USE DEF TypeInv
  <1>0. pc \in [Threads -> Labels] /\ \A t \in Control : t \in Threads
    BY DEF TypeOK, ThreadType, Threads, Labels
  <1>1. ASSUME NEW r \in Readers, ReadBegin(r) \/ ReaderStep(r) PROVE Held'
    <2>1. /\ UNCHANGED <<fh, opened>> \/ fh' = NoFile \/ pc'[r] \in ForgetPc
          /\ pc[r] \in ForgetPc => fh' = NoFile
          /\ watching' => watching
      BY <1>1, ReaderKeeps
    <2>2. /\ \A t \in Control : pc'[t] = pc[t]
          /\ \A q \in Readers \ {r} : pc'[q] = pc[q]
      BY <1>1, ReaderFacts
    <2> QED
      BY <2>1, <2>2 DEF Held
  <1>2. CASE (\E w \in Writers : WriteBegin(w) \/ WritePut(w)) \/ Appended
    BY <1>2, WriterFacts DEF Held
  <1>3. ASSUME NEW t \in Control, ControlCall(t) \/ ControlStep(t) PROVE Held'
    <2> DEFINE Forgotten == \E r \in Readers : pc[r] \in ForgetPc
    <2>0. Forgotten' = Forgotten
      BY <1>3, ControlFacts
    <2>1. SUFFICES /\ fh' # NoFile =>
                         fh' \in opened' \/ pc'[t] \in {"op_null", "cl_clear"} \/ Forgotten'
                   /\ pc'[t] \in {"op_null", "cl_fclose", "cl_clear"} => ~watching'
      BY DEF Held, OneControl
    <2>2. /\ fh # NoFile => fh \in opened \/ pc[t] \in {"op_null", "cl_clear"} \/ Forgotten
          /\ pc[t] \in {"op_null", "cl_fclose", "cl_clear"} => ~watching
      BY DEF Held, OneControl
    <2> HIDE DEF Forgotten
    <2>3. CASE ControlCall(t)
      <3>1. /\ fh' = fh \/ fh' = NoFile
            /\ UNCHANGED <<opened, watching>>
            /\ pc[t] = "idle"
        BY <2>3 DEF ControlCall, OpenBegin, FollowBegin, CloseBegin, Call, nodeVars, fileVars,
           watcherVars
      <3>2. pc'[t] \notin {"op_null", "cl_fclose", "cl_clear"}
        BY <1>0, <2>3 DEF ControlCall, OpenBegin, FollowBegin, CloseBegin, Call, Goto
      <3> QED
        BY <2>0, <2>2, <3>1, <3>2
    <2>4. CASE OpenFile(t) \/ OpenForget(t)
      <3>1. pc'[t] \notin {"op_null", "cl_fclose", "cl_clear"}
        BY <1>0, <2>4 DEF OpenFile, OpenForget, Goto
      <3>2. fh' # NoFile => fh' \in opened'
        BY <2>4 DEF OpenFile, OpenForget
      <3> QED
        BY <3>1, <3>2
    <2>9. CASE OpenWatch(t)
      <3>1. \/ pc'[t] = "idle" /\ pc[t] = "op_watch" /\ UNCHANGED <<fh, opened>>
            \/ pc'[t] = "op_null" /\ ~watching'
        BY <1>0, <2>9 DEF OpenWatch, AddWatchFails, RemoveWatch, Goto, nodeVars
      <3> QED
        BY <2>0, <2>2, <3>1
    <2>5. CASE FollowWatch(t) \/ FollowSet(t)
      <3>1. pc'[t] \notin {"op_null", "cl_fclose", "cl_clear"} /\ pc[t] \notin {"op_null", "cl_clear"}
        BY <1>0, <2>5 DEF FollowWatch, FollowSet, Goto
      <3>2. UNCHANGED <<fh, opened>>
        BY <2>5 DEF FollowWatch, FollowSet, nodeVars, fileVars
      <3> QED
        BY <2>0, <2>2, <3>1, <3>2
    <2>6. CASE CloseLock(t) \/ CloseWatch(t)
      <3>1. /\ UNCHANGED <<fh, opened>>
            /\ pc[t] \notin {"op_null", "cl_clear"} /\ pc'[t] \notin {"op_null", "cl_clear"}
        BY <1>0, <2>6 DEF CloseLock, CloseWatch, Goto, nodeVars, fileVars
      <3>2. pc'[t] = "cl_fclose" => ~watching'
        BY <1>0, <2>6 DEF CloseLock, CloseWatch, RemoveWatch, Goto
      <3> QED
        BY <2>0, <2>2, <3>1, <3>2
    <2>7. CASE CloseFile(t)
      BY <1>0, <2>2, <2>7 DEF CloseFile, Goto, watcherVars, nodeVars
    <2>8. CASE CloseFinish(t)
      BY <1>0, <2>8 DEF CloseFinish, Goto
    <2> QED
      BY <1>3, <2>3, <2>4, <2>5, <2>6, <2>7, <2>8, <2>9 DEF ControlStep
  <1> QED
    BY <1>1, <1>2, <1>3 DEF Next

\* The file of a node changes under a reader only at the end of a close(), when
\* there is no watch.
LEMMA FileStaysStep ==
    ASSUME OneControl, OneReader, TypeInv, Apart, Held, FileStays, Next
    PROVE  FileStays'
  <1> USE DEF TypeInv
  <1>0. pc \in [Threads -> Labels] /\ fcopy \in [Readers -> Files \cup {NoFile}]
        /\ \A r \in Readers : r \in Threads
    BY DEF TypeOK, ThreadType, Threads, Labels
  <1> SUFFICES ASSUME ~raced', NEW r \in Readers, pc'[r] \in Begun
               PROVE  fcopy'[r] # NoFile /\ (fcopy'[r] = fh' \/ ~watching')
    BY DEF FileStays
  <1>1. ASSUME NEW q \in Readers, ReadBegin(q) \/ ReaderStep(q)
        PROVE  fcopy'[r] # NoFile /\ (fcopy'[r] = fh' \/ ~watching')
    <2>1. q = r /\ ~raced /\ (watching' => watching)
      BY <1>1, ReaderFacts, ReaderKeeps DEF OneReader
    <2>2. CASE ReadCopy(r)
      <3>1. ~Return(r)
        BY <1>0 DEF Return, Goto, Begun
      <3> QED
        BY <1>0, <2>2, <3>1 DEF ReadCopy, nodeVars
    <2>3. CASE ReadGets(r) \/ ReadClear(r) \/ ReadCheck(r)
      <3>1. pc[r] \in Begun
        BY <2>3 DEF ReadGets, ReadClear, ReadCheck, Begun
      <3>2. ~Return(r)
        BY <1>0 DEF Return, Goto, Begun
      <3>3. UNCHANGED <<fcopy, fh>>
        BY <2>3, <3>2 DEF ReadGets, ReadClear, ReadCheck, readVars, nodeVars
      <3> QED
        BY <2>1, <3>1, <3>3 DEF FileStays
    <2>4. CASE \/ ReadBegin(r) \/ ReadEnd(r) \/ ReadFclose(r) \/ ReadForget(r) \/ ReadPoll(r)
               \/ ReadFail(r) \/ ReadUnwatch(r)
      BY <1>0, <2>4 DEF ReadBegin, ReadEnd, ReadFclose, ReadForget, ReadPoll, ReadFail, ReadUnwatch, Return,
         Goto, Begun
    <2> QED
      BY <1>1, <2>1, <2>2, <2>3, <2>4 DEF ReaderStep
  <1>2. CASE (\E w \in Writers : WriteBegin(w) \/ WritePut(w)) \/ Appended
    <2>1. fcopy' = fcopy
      BY <1>2 DEF WriteBegin, WritePut, Appended, readVars
    <2>2. UNCHANGED <<fh, raced, watching>> /\ pc'[r] = pc[r]
      BY <1>2, WriterFacts
    <2> QED
      BY <2>1, <2>2 DEF FileStays
  <1>3. ASSUME NEW t \in Control, ControlCall(t) \/ ControlStep(t)
        PROVE  fcopy'[r] # NoFile /\ (fcopy'[r] = fh' \/ ~watching')
    <2>1. pc[r] \in Begun /\ ~raced
      BY <1>3, ControlFacts
    <2>2. CloseBegin(t) \/ CloseLock(t) \/ CloseWatch(t) \/ CloseFile(t) \/ CloseFinish(t)
      BY <1>3, <2>1, OnlyCloses DEF Begun
    <2>3. fcopy' = fcopy /\ (watching' => watching)
      BY <2>2 DEF CloseBegin, CloseLock, CloseWatch, CloseFile, CloseFinish, RemoveWatch, readVars,
         watcherVars
    <2>4. fh' = fh \/ CloseFinish(t)
      BY <2>2 DEF CloseBegin, CloseLock, CloseWatch, CloseFile, nodeVars
    <2>5. CloseFinish(t) => ~watching
      BY DEF CloseFinish, Held
    <2> QED
      BY <2>1, <2>3, <2>4, <2>5 DEF FileStays
  <1> QED
    BY <1>1, <1>2, <1>3 DEF Next

\* What is told stays told while nothing happens to the file and the watch, and
\* without a watch there is nothing to tell.
LEMMA ToldStays ==
    \/ Told /\ UNCHANGED <<watching, watched_at, file, off, fh, queue, inotify_fd>>
    \/ ~watching'
    => Told'
  BY DEF Told

\* A reader sets the flag at the end of the file, and takes an event only after it
\* has cleared the flag.
LEMMA EndIsToldByReader ==
    ASSUME OneReader, TypeInv, Held, FileStays, EndIsTold, NEW r \in Readers,
           ReadBegin(r) \/ ReaderStep(r), ~raced'
    PROVE  /\ fh' # NoFile /\ eof'[fh'] => Told'
           /\ pc'[r] \in Ended => Told'
           /\ pc'[r] \in {"rd_check", "rd_poll"} /\ watching' => ~eof'[fh']
           /\ pc'[r] = "rd_poll" => icopy'[r] = inotify_fd' \/ icopy'[r] \notin live'
  <1> USE DEF TypeInv
  <1>0. /\ pc \in [Threads -> Labels] /\ r \in Threads
        /\ fcopy \in [Readers -> Files \cup {NoFile}] /\ icopy \in [Readers -> Inos \cup {NoIno}]
        /\ eof \in [Files -> BOOLEAN] /\ off \in [Files -> 0..MaxChars] /\ Len(file) \in Nat
        /\ fh \in Files \cup {NoFile}
    BY DEF TypeOK, ThreadType, FileType, NodeType, Threads, Labels
  <1>1. ~raced
    BY ReaderFacts
  <1>2. /\ fh # NoFile /\ eof[fh] => Told
        /\ pc[r] \in Ended => Told
        /\ pc[r] \in {"rd_check", "rd_poll"} /\ watching => ~eof[fh]
    BY <1>1 DEF EndIsTold
  <1>3. pc[r] \in Begun => fcopy[r] \in Files /\ (fcopy[r] = fh \/ ~watching)
    BY <1>0, <1>1 DEF FileStays
  <1>4. CASE ReadBegin(r) \/ ReadCopy(r) \/ ReadEnd(r) \/ ReadFclose(r) \/ ReadFail(r)
    <2>1. pc'[r] \notin Ended /\ pc'[r] # "rd_check" /\ pc'[r] # "rd_poll"
      BY <1>0, <1>4 DEF ReadBegin, ReadCopy, ReadEnd, ReadFclose, ReadFail, Return, Goto,
         Ended, Begun
    <2>2. UNCHANGED <<watching, watched_at, file, off, fh, eof, queue, inotify_fd>>
      BY <1>4 DEF ReadBegin, ReadCopy, ReadEnd, ReadFclose, ReadFail, nodeVars, fileVars, histVars,
         watcherVars
    <2> QED
      BY <1>2, <2>1, <2>2, ToldStays
  <1>5. CASE ReadForget(r)
    <2>1. pc'[r] \notin Ended /\ pc'[r] # "rd_check" /\ pc'[r] # "rd_poll"
      BY <1>0, <1>5 DEF ReadForget, Return, Goto, Ended, Begun
    <2>2. fh' = NoFile
      BY <1>5 DEF ReadForget
    <2> QED
      BY <2>1, <2>2
  <1>6. CASE ReadUnwatch(r)
    <2>1. pc'[r] \notin Ended /\ pc'[r] # "rd_check" /\ pc'[r] # "rd_poll"
      BY <1>0, <1>6 DEF ReadUnwatch, Return, Goto, Ended, Begun
    <2>2. ~watching'
      BY <1>6 DEF ReadUnwatch, RemoveWatch
    <2> QED
      BY <2>1, <2>2, ToldStays
  <1>7. CASE ReadGets(r)
    <2>1. UNCHANGED <<watching, watched_at, file, fh, queue, inotify_fd>>
      BY <1>7 DEF ReadGets, nodeVars, watcherVars
    <2>2. pc[r] = "rd_gets"
      BY <1>7 DEF ReadGets
    <2>3. fcopy[r] \in Files /\ (fcopy[r] = fh \/ ~watching)
      BY <1>3, <2>2 DEF Begun
    <2>4. CASE ~watching
      <3>1. Told'
        BY <2>1, <2>4, ToldStays
      <3>2. pc'[r] # "rd_check" /\ pc'[r] # "rd_poll"
        BY <1>0, <1>7 DEF ReadGets, Return, Goto
      <3> QED
        BY <3>1, <3>2
    <2>5. CASE watching
      <3>0. fcopy[r] = fh /\ fh \in Files /\ fh # NoFile
        BY <2>3, <2>5, FileAssumption
      <3>1. CASE \E e \in 1..MaxChars :
                   /\ ~eof[fh] /\ LineEnd(fh, e)
                   /\ off' = [off EXCEPT ![fh] = e]
                   /\ eof' = [eof EXCEPT ![fh] = ~file[e] /\ e # off[fh] + Bufsz]
                   /\ Return(r)
        <4>1. PICK e \in 1..MaxChars :
                   /\ LineEnd(fh, e)
                   /\ off' = [off EXCEPT ![fh] = e]
                   /\ eof' = [eof EXCEPT ![fh] = ~file[e] /\ e # off[fh] + Bufsz]
                   /\ Return(r)
          BY <3>1
        <4>2. pc'[r] = "idle"
          BY <1>0, <4>1 DEF Return, Goto
        <4>3. eof'[fh] => e = Len(file)
          BY <1>0, <3>0, <4>1 DEF LineEnd
        <4>4. eof'[fh] => off'[fh] = Len(file)
          BY <1>0, <3>0, <4>1, <4>3
        <4>5. eof'[fh] => Told'
          BY <1>0, <2>1, <4>4 DEF Told
        <4> QED
          BY <2>1, <4>2, <4>5 DEF Ended, Begun
      <3>2. CASE /\ fh \notin opened \/ eof[fh] \/ off[fh] = Len(file)
                 /\ Goto(r, IF tcopy[r] THEN "rd_clear" ELSE "rd_end")
                 /\ UNCHANGED <<off, readVars>>
        <4>1. fh \in opened
          <5>1. \A q \in Readers : pc[q] \notin ForgetPc
            BY <2>2 DEF OneReader, ForgetPc
          <5> QED
            BY <2>5, <3>0, <5>1 DEF Held
        <4>2. Told'
          <5>1. CASE eof[fh]
            BY <1>2, <2>1, <3>0, <3>2, <5>1, ToldStays
          <5>2. CASE off[fh] = Len(file)
            BY <1>0, <2>1, <3>2, <5>2 DEF Told
          <5> QED
            BY <3>2, <4>1, <5>1, <5>2
        <4>3. pc'[r] # "rd_check" /\ pc'[r] # "rd_poll"
          BY <1>0, <3>2 DEF Goto
        <4> QED
          BY <4>2, <4>3
      <3> QED
        BY <1>7, <3>0, <3>1, <3>2 DEF ReadGets
    <2> QED
      BY <2>4, <2>5
  <1>8. CASE ReadClear(r)
    <2>1. UNCHANGED <<watching, watched_at, file, off, fh, queue, inotify_fd>>
      BY <1>8 DEF ReadClear, nodeVars, watcherVars
    <2>2. pc[r] = "rd_clear" /\ pc'[r] = "rd_check"
      BY <1>0, <1>8 DEF ReadClear, Goto
    <2>3. Told'
      BY <1>2, <2>1, <2>2, ToldStays DEF Ended, Begun
    <2>4. watching' => ~eof'[fh']
      <3>1. watching => fcopy[r] = fh /\ fcopy[r] \in Files
        BY <1>3, <2>2 DEF Begun
      <3>2. eof' = [eof EXCEPT ![fcopy[r]] = FALSE]
        BY <1>8 DEF ReadClear
      <3> QED
        BY <1>0, <2>1, <3>1, <3>2
    <2> QED
      BY <2>2, <2>3, <2>4
  <1>9. CASE ReadCheck(r)
    <2>1. UNCHANGED <<watching, watched_at, file, off, fh, eof, queue, inotify_fd>>
      BY <1>9 DEF ReadCheck, nodeVars, fileVars, histVars, watcherVars
    <2>2. pc[r] = "rd_check"
      BY <1>9 DEF ReadCheck
    <2>3. Told' /\ (watching' => ~eof'[fh'])
      BY <1>2, <2>1, <2>2, ToldStays DEF Ended, Begun
    <2>4. pc'[r] = "rd_poll" => icopy'[r] = inotify_fd'
      BY <1>0, <1>9, <2>1 DEF ReadCheck, Goto
    <2> QED
      BY <2>3, <2>4
  <1>10. CASE ReadPoll(r)
    <2>1. UNCHANGED <<watching, fh, eof>> /\ pc[r] = "rd_poll"
      BY <1>10 DEF ReadPoll, TakeEvents, nodeVars, fileVars, watcherVars
    <2>2. pc'[r] \notin Ended /\ pc'[r] # "rd_check" /\ pc'[r] # "rd_poll"
      BY <1>0, <1>10 DEF ReadPoll, Return, Goto, Ended, Begun
    <2>3. CASE watching
      BY <1>2, <2>1, <2>2, <2>3
    <2>4. CASE ~watching
      BY <2>1, <2>2, <2>4, ToldStays
    <2> QED
      BY <2>3, <2>4
  <1> QED
    BY <1>4, <1>5, <1>6, <1>7, <1>8, <1>9, <1>10 DEF ReaderStep

\* Where a file grows, whoever watches it has an event; nothing else that a writer
\* does matters.
LEMMA EndIsToldByWriter ==
    ASSUME TypeInv, EndIsTold,
           (\E w \in Writers : WriteBegin(w) \/ WritePut(w)) \/ Appended
    PROVE  EndIsTold'
  <1> USE DEF TypeInv
  <1>1. /\ UNCHANGED <<fh, raced, watching>>
        /\ \A r \in Readers : pc'[r] = pc[r]
    BY WriterFacts
  <1>2. UNCHANGED <<eof, icopy, inotify_fd, live, watched_at>>
    BY DEF WriteBegin, WritePut, Appended, Grow, Notify, fileVars, readVars, histVars, watcherVars
  <1>3. Told => Told'
    <2>1. CASE Grow
      BY <2>1, GrowTells DEF Told
    <2>2. CASE UNCHANGED <<watcherVars, off, file>>
      BY <1>1, <1>2, <2>2, ToldStays DEF watcherVars
    <2> QED
      BY <2>1, <2>2 DEF WriteBegin, WritePut, Appended, fileVars
  <1> QED
    BY <1>1, <1>2, <1>3 DEF EndIsTold, Gone

\* What sets up a watch starts with the file as it is; what removes it, or closes
\* the file, ends the wait.
LEMMA EndIsToldByControl ==
    ASSUME OneControl, TypeInv, Apart, Held, EndIsTold,
           NEW t \in Control, ControlCall(t) \/ ControlStep(t)
    PROVE  EndIsTold'
  <1> USE DEF TypeInv
  <1> SUFFICES ASSUME ~raced' PROVE EndIsTold'
    BY DEF EndIsTold
  <1>0. /\ eof \in [Files -> BOOLEAN] /\ fh \in Files \cup {NoFile}
        /\ pc \in [Threads -> Labels] /\ Len(file) \in Nat
    BY DEF TypeOK, FileType, NodeType, ThreadType, Threads, Labels
  <1>1. ~raced /\ \A r \in Readers : pc'[r] = pc[r]
    BY ControlFacts
  <1>2. icopy' = icopy
    BY DEF ControlCall, OpenBegin, FollowBegin, CloseBegin, ControlStep, OpenFile, OpenWatch, OpenForget,
       FollowWatch, FollowSet, CloseLock, CloseWatch, CloseFile, CloseFinish, readVars
  <1>3. fh # NoFile /\ eof[fh] => Told
    BY <1>1 DEF EndIsTold
  <1>4. fh' # NoFile /\ eof'[fh'] => Told'
    <2>1. CASE OpenBegin(t) \/ OpenForget(t) \/ CloseFinish(t)
      BY <2>1 DEF OpenBegin, OpenForget, CloseFinish
    <2>2. CASE OpenFile(t)
      BY <1>0, <2>2 DEF OpenFile
    <2>3. CASE OpenWatch(t) \/ FollowWatch(t)
      <3>1. CASE AddWatch /\ watched_at' = Len(file)
        <4>1. file' = file
          BY <2>3 DEF OpenWatch, FollowWatch, fileVars
        <4> QED
          BY <1>0, <3>1, <4>1 DEF Told
      <3>2. CASE RemoveWatch
        BY <3>2, ToldStays DEF RemoveWatch
      <3> QED
        BY <2>3, <3>1, <3>2 DEF OpenWatch, FollowWatch, AddWatchFails
    <2>4. CASE CloseWatch(t)
      BY <2>4, ToldStays DEF CloseWatch, RemoveWatch
    <2>5. CASE FollowBegin(t) \/ CloseBegin(t) \/ FollowSet(t) \/ CloseLock(t) \/ CloseFile(t)
      <3>1. UNCHANGED <<watching, watched_at, file, off, fh, eof, queue, inotify_fd>>
        BY <2>5 DEF FollowBegin, CloseBegin, FollowSet, CloseLock, CloseFile, nodeVars, fileVars,
           histVars, watcherVars
      <3> QED
        BY <1>3, <3>1, ToldStays
    <2> QED
      BY <2>1, <2>2, <2>3, <2>4, <2>5 DEF ControlCall, ControlStep
  <1>5. ASSUME NEW r \in Readers, pc[r] \in Ended
        PROVE  /\ Told'
               /\ pc[r] \in {"rd_check", "rd_poll"} /\ watching' => ~eof'[fh']
               /\ pc[r] = "rd_poll" => icopy[r] = inotify_fd' \/ icopy[r] \notin live'
    <2>1. CloseBegin(t) \/ CloseLock(t) \/ CloseWatch(t) \/ CloseFile(t) \/ CloseFinish(t)
      BY <1>5, OnlyCloses DEF Ended, Begun
    <2>2. /\ Told
          /\ pc[r] \in {"rd_check", "rd_poll"} /\ watching => ~eof[fh]
          /\ pc[r] = "rd_poll" => icopy[r] = inotify_fd \/ Gone(icopy[r])
      BY <1>1, <1>5 DEF EndIsTold
    <2>3. CASE CloseBegin(t) \/ CloseLock(t) \/ CloseFile(t)
      <3>1. UNCHANGED <<watching, watched_at, file, off, fh, eof, queue, inotify_fd, live>>
        BY <2>3 DEF CloseBegin, CloseLock, CloseFile, nodeVars, fileVars, histVars, watcherVars
      <3> QED
        BY <2>2, <3>1, ToldStays DEF Gone
    <2>4. CASE CloseWatch(t)
      <3>1. ~watching' /\ live' = {}
        BY <2>4 DEF CloseWatch, RemoveWatch, OneInstance
      <3> QED
        BY <3>1, ToldStays DEF Gone
    <2>5. CASE CloseFinish(t)
      <3>1. UNCHANGED <<watching, inotify_fd, live>>
        BY <2>5 DEF CloseFinish, watcherVars
      <3>2. ~watching
        BY <2>5 DEF CloseFinish, Held
      <3> QED
        BY <2>2, <3>1, <3>2, ToldStays DEF Gone
    <2> QED
      BY <2>1, <2>3, <2>4, <2>5
  <1> QED
    BY <1>1, <1>2, <1>4, <1>5 DEF EndIsTold, Gone, Ended, Begun

\* The inductive invariant of a node that one thread reads.
WakeInv == Held /\ FileStays /\ EndIsTold

LEMMA WakeStep ==
    ASSUME OneControl, OneReader, IInv, WakeInv, Next
    PROVE  WakeInv'
  <1>0. TypeInv /\ Apart /\ Held /\ FileStays /\ EndIsTold
    BY DEF IInv, WakeInv
  <1>1. Held' /\ FileStays'
    BY <1>0, HeldStep, FileStaysStep
  <1>2. ASSUME NEW r \in Readers, ReadBegin(r) \/ ReaderStep(r) PROVE EndIsTold'
    BY <1>0, <1>2, EndIsToldByReader DEF EndIsTold, Gone, OneReader
  <1>3. CASE (\E w \in Writers : WriteBegin(w) \/ WritePut(w)) \/ Appended
    BY <1>0, <1>1, <1>3, EndIsToldByWriter DEF WakeInv
  <1>4. ASSUME NEW t \in Control, ControlCall(t) \/ ControlStep(t) PROVE EndIsTold'
    BY <1>0, <1>4, EndIsToldByControl
  <1> QED
    BY <1>1, <1>2, <1>3, <1>4 DEF Next, WakeInv

\* One thread reads the node and one opens, follows and closes it.  As long as
\* nobody opens or follows under the reader, a reader that waits has an event to
\* read as soon as the file has what it has not read, and waits no longer once the
\* node is closed.
THEOREM WakeCorrect == OneControl /\ OneReader => (Spec => []WaiterIsWoken)
  <1> SUFFICES ASSUME OneControl, OneReader PROVE Spec => []WaiterIsWoken
    OBVIOUS
  <1>1. Init => WakeInv
    <2> SUFFICES ASSUME Init PROVE WakeInv
      OBVIOUS
    <2>1. \A t \in Threads : pc[t] = "idle"
      BY DEF Init
    <2>2. /\ \A t \in Control : pc[t] = "idle"
          /\ \A r \in Readers : pc[r] = "idle"
          /\ fh = NoFile
      BY <2>1 DEF Threads, Init
    <2> QED
      BY <2>2 DEF WakeInv, Held, FileStays, EndIsTold, Begun, Ended
  <1>2. IInv /\ WakeInv /\ [Next]_vars => WakeInv'
    <2> SUFFICES ASSUME IInv, WakeInv, [Next]_vars PROVE WakeInv'
      OBVIOUS
    <2>1. CASE Next
      BY <2>1, WakeStep
    <2>2. CASE UNCHANGED vars
      <3> USE <2>2 DEF vars, watcherVars, nodeVars, fileVars, readVars, histVars, WakeInv
      <3>1. Held' /\ FileStays'
        BY DEF Held, FileStays
      <3>2. Told => Told'
        BY DEF Told
      <3>3. EndIsTold'
        BY <3>2 DEF EndIsTold, Gone
      <3> QED
        BY <3>1, <3>3
    <2> QED
      BY <2>1, <2>2
  <1>3. IInv /\ WakeInv => WaiterIsWoken
    <2> SUFFICES ASSUME IInv, WakeInv, ~raced, NEW r \in Readers, pc[r] = "rd_poll"
                 PROVE  /\ fh = NoFile => Gone(icopy[r])
                        /\ watched_at < Len(file) /\ off[fcopy[r]] < Len(file) =>
                              Gone(icopy[r]) \/ Ready(icopy[r])
      BY DEF WaiterIsWoken
    <2>1. /\ fcopy[r] # NoFile /\ (fcopy[r] = fh \/ ~watching)
          /\ Told
          /\ icopy[r] = inotify_fd \/ Gone(icopy[r])
      BY DEF WakeInv, FileStays, EndIsTold, Begun, Ended
    <2>2. ~watching => Gone(icopy[r])
      <3>1. icopy[r] # NoIno
        BY DEF IInv, TypeInv, TypeOK, ThreadType
      <3> QED
        BY <3>1 DEF IInv, TypeInv, OneInstance, Gone
    <2>3. watching /\ watched_at < Len(file) /\ off[fh] < Len(file) /\ ~Gone(icopy[r])
            => Ready(icopy[r])
      BY <2>1 DEF Told, Gone, Ready
    <2> QED
      BY <2>1, <2>2, <2>3
  <1> QED
    BY <1>1, <1>2, <1>3, Invariant, PTL DEF Spec
=============================================================================
