------------------------- MODULE FileSysNodeProofs -------------------------
(* What holds of FileSysNode for every choice of its constants.             *)
EXTENDS FileSysNode, FileWatcherProofs, FiniteSetTheorems, SequenceTheorems

\* The bounds are natural numbers.
LEMMA Bounds == MaxCalls \in Nat /\ MaxChanges \in Nat
  BY BoundAssumption

\* Where a thread can be.
Labels == {"idle", "rd_take"} \cup ControlPc

\* Threads in a call that has still to make a container.
Creating == {t \in Control : pc[t] \in {"op_close", "op_new", "wa_close", "wa_new"}}

\* There are enough numbers for the containers: a call makes one at most.
Budget ==
    /\ IsFiniteSet(Creating)
    /\ made + Cardinality(Creating) <= calls

-----------------------------------------------------------------------------
(* Types                                                                    *)

\* A step moves one thread.
LEMMA Moves ==
    ASSUME CallType, NEW t \in Threads, NEW l \in Labels, Goto(t, l)
    PROVE  /\ pc' \in [Threads -> Labels]
           /\ pc'[t] = l
           /\ \A u \in Threads \ {t} : pc'[u] = pc[u]
  BY DEF CallType, Goto, Labels

\* A reader does not send messages: its moves leave the threads that do alone.
LEMMA ReaderMoves ==
    ASSUME CallType, NEW r \in Readers, NEW l \in Labels, Goto(r, l)
    PROVE  \A t \in Control : pc'[t] = pc[t]
  <1>1. \A t \in Control : t # r
    BY ThreadAssumption
  <1> QED
    BY <1>1, Moves DEF Threads

\* A thread that sends a message begins a call.
LEMMA CallMoves ==
    ASSUME CallType, NEW t \in Control, ControlCall(t)
    PROVE  /\ pc[t] = "idle"
           /\ \E l \in {"op_close", "cl_stop", "wa_close", "wr_open", "wr_arg", "wr_reply"} :
                Goto(t, l)
           /\ calls' = calls + 1 /\ calls < MaxCalls
           /\ overlap' = (overlap \/ \E u \in Control : pc[u] # "idle")
           /\ UNCHANGED <<watcherVars, cvpVars, threadVars, rcvp, changes,
                          legacy, cwd, dir, left, terminated>>
           /\ cmd' = cmd \/ \E k \in Commands : cmd' = [cmd EXCEPT ![t] = k]
           /\ Goto(t, "wa_close") => cvp # NoCvp
  <1>1. ASSUME NEW last, Send(t, last)
        PROVE  /\ pc[t] = "idle"
               /\ calls' = calls + 1 /\ calls < MaxCalls
               /\ overlap' = (overlap \/ \E u \in Control : pc[u] # "idle")
    BY <1>1, Bounds DEF Send, CallType
  <1>2. DOMAIN pc = Threads /\ t \in Threads
    BY DEF CallType, Threads
  <1>3. ASSUME NEW l \in {"op_close", "cl_stop", "wa_close"}, Call(t, l),
               l = "wa_close" => cvp # NoCvp
        PROVE  /\ pc[t] = "idle" /\ Goto(t, l)
               /\ calls' = calls + 1 /\ calls < MaxCalls
               /\ overlap' = (overlap \/ \E u \in Control : pc[u] # "idle")
               /\ UNCHANGED <<dirVars, watcherVars, cvpVars, threadVars, rcvp, changes, terminated>>
               /\ Goto(t, "wa_close") => cvp # NoCvp
    <2>1. Goto(t, "wa_close") => l = "wa_close"
      BY <1>2, <1>3 DEF Call, Goto
    <2> QED
      BY <1>1, <1>3, <2>1 DEF Call
  <1>4. ASSUME NEW k \in Commands, Command(t, k)
        PROVE  /\ pc[t] = "idle"
               /\ \E l \in {"wr_open", "wr_arg", "wr_reply"} : Goto(t, l)
               /\ ~Goto(t, "wa_close")
               /\ calls' = calls + 1 /\ calls < MaxCalls
               /\ overlap' = (overlap \/ \E u \in Control : pc[u] # "idle")
               /\ cmd' = [cmd EXCEPT ![t] = k]
               /\ UNCHANGED <<watcherVars, cvpVars, threadVars, rcvp, changes,
                              legacy, cwd, dir, left, terminated>>
    <2>1. CommandLabel(k) \in {"wr_open", "wr_arg", "wr_reply"}
      BY DEF CommandLabel
    <2>2. ~Goto(t, "wa_close")
      BY <1>2, <1>4, <2>1 DEF Command, Goto
    <2> QED
      BY <1>1, <1>4, <2>1, <2>2 DEF Command
  <1>5. CASE OpenBegin(t) \/ CloseBegin(t) \/ WatchBegin(t)
    BY <1>3, <1>5 DEF OpenBegin, CloseBegin, WatchBegin, dirVars
  <1>6. CASE \E k \in Commands : CommandBegin(t, k) \/ WriteOut(t, k)
    BY <1>4, <1>6 DEF CommandBegin, WriteOut
  <1> QED
    BY <1>5, <1>6 DEF ControlCall

\* A step of a call moves its thread, or, in the loop of a listing, does not, and
\* leaves the other calls alone.
LEMMA StepMoves ==
    ASSUME CallType, NEW t \in Control, ControlStep(t)
    PROVE  /\ pc[t] \in ControlPc
           /\ pc' = pc \/ \E l \in {"idle"} \cup ControlPc : Goto(t, l)
           /\ pc[t] \in {"op_new", "wa_new"} \/ UNCHANGED <<made, unique>>
           /\ cvp' \in {cvp, NoCvp} \/ pc[t] \in {"op_new", "wa_new"}
           /\ UNCHANGED <<rcvp, calls, changes, overlap, legacy>>
  <1> USE DEF ControlPc, cvpVars, dirVars, histVars, threadVars, cmdRest
  <1>1. CASE OpenClose(t) \/ OpenNew(t) \/ WatchClose(t) \/ WatchNew(t)
    BY <1>1 DEF OpenClose, OpenNew, WatchClose, WatchNew
  <1>2. CASE OpenDir(t) \/ ListEntry(t) \/ LegacyEntry(t) \/ ListEnd(t)
    BY <1>2 DEF OpenDir, ListEntry, LegacyEntry, Entry, ListEnd, Fails, Fail, Ends
  <1>3. CASE ArgumentOf(t) \/ LegacyArgument(t) \/ CommandReply(t) \/ LegacyReply(t)
    BY <1>3 DEF ArgumentOf, LegacyArgument, Argument, CommandReply, LegacyReply, Fail, Ends
  <1>4. CASE WatchCheck(t) \/ WatchAdd(t) \/ WatchSpawn(t)
    BY <1>4 DEF WatchCheck, WatchAdd, WatchSpawn
  <1>5. CASE CloseStop(t) \/ CloseJoin(t) \/ CloseContainer(t) \/ CloseNull(t)
    BY <1>5 DEF CloseStop, CloseJoin, CloseContainer, CloseNull
  <1> QED
    BY <1>1, <1>2, <1>3, <1>4, <1>5 DEF ControlStep

\* The threads of Control, and the counters, in their types.
LEMMA CallTypeStep == ASSUME TypeOK, Next PROVE CallType'
  <1> USE DEF TypeOK
  <1>0. pc \in [Threads -> Labels] /\ calls \in 0..MaxCalls /\ changes \in 0..MaxChanges
    BY DEF CallType, Labels
  <1>1. ASSUME NEW t \in Control, ControlCall(t) PROVE CallType'
    <2>1. pc' \in [Threads -> Labels]
      BY <1>1, CallMoves, Moves DEF Labels, Threads, ControlPc
    <2>2. rcvp' = rcvp /\ changes' = changes /\ calls' = calls + 1 /\ calls < MaxCalls
      BY <1>1, CallMoves
    <2>3. calls' \in 0..MaxCalls
      BY <1>0, <2>2, Bounds
    <2> QED
      BY <2>1, <2>2, <2>3 DEF CallType, Labels
  <1>2. ASSUME NEW t \in Control, ControlStep(t) PROVE CallType'
    <2>1. pc' \in [Threads -> Labels]
      BY <1>0, <1>2, StepMoves, Moves DEF Labels, Threads
    <2> QED
      BY <1>2, <2>1, StepMoves DEF CallType, Labels
  <1>3. CASE WatchStep
    BY <1>3 DEF WatchStep, PollCheck, PollWait, PollRead, PollAdd, histVars, CallType
  <1>4. ASSUME NEW r \in Readers, ReadBegin(r) \/ ReadTake(r) PROVE CallType'
    <2>1. pc' \in [Threads -> Labels]
      BY <1>4, Moves DEF ReadBegin, ReadTake, Threads, Labels
    <2>2. UNCHANGED <<calls, changes>>
      BY <1>4 DEF ReadBegin, ReadTake, histVars
    <2>3. cvp \in {NoCvp} \cup Containers
      BY Bounds DEF ContainerType, Containers
    <2>4. rcvp' \in [Readers -> {NoCvp} \cup Containers]
      BY <1>4, <2>3 DEF ReadBegin, ReadTake, CallType
    <2> QED
      BY <2>1, <2>2, <2>4 DEF CallType, Labels
  <1>5. ASSUME NEW n \in Names, Changed(n) PROVE CallType'
    <2>1. changes' \in 0..MaxChanges
      BY <1>0, <1>5, Bounds DEF Changed
    <2> QED
      BY <1>5, <2>1 DEF Changed, CallType
  <1> QED
    BY <1>1, <1>2, <1>3, <1>4, <1>5 DEF Next

\* The watcher does what FileWatcher says, and keeps one instance.
LEMMA WatcherTypeStep ==
    ASSUME TypeOK, OneInstance, Next
    PROVE  WatcherType' /\ OneInstance'
  <1>1. ASSUME NEW t \in Control, ControlCall(t) PROVE UNCHANGED watcherVars
    BY <1>1, CallMoves DEF TypeOK
  <1>2. ASSUME NEW t \in Control, ControlStep(t)
        PROVE  RemoveWatch \/ AddWatch \/ UNCHANGED watcherVars
    BY <1>2 DEF ControlStep, OpenClose, OpenNew, OpenDir, ListEntry, LegacyEntry, Entry, ListEnd,
       ArgumentOf, LegacyArgument, Argument, CommandReply, LegacyReply, WatchClose, WatchNew,
       WatchCheck, WatchAdd, AddWatchFails, WatchSpawn, CloseStop, CloseJoin, CloseContainer,
       CloseNull, cmdRest
  <1>3. CASE WatchStep
    <2>1. wpc = "wt_read" => wfd \in Inos
      BY DEF TypeOK, WatchType
    <2> QED
      BY <1>3, <2>1, WatcherKeeps DEF WatchStep, PollCheck, PollWait, PollRead, PollAdd, TypeOK
  <1>4. ASSUME NEW r \in Readers, ReadBegin(r) \/ ReadTake(r) PROVE UNCHANGED watcherVars
    BY <1>4 DEF ReadBegin, ReadTake
  <1>5. ASSUME NEW n \in Names, Changed(n) PROVE \E e \in Event : Notify(e)
    BY <1>5 DEF Changed, Event
  <1> QED
    BY <1>1, <1>2, <1>3, <1>4, <1>5, WatcherKeeps DEF Next, TypeOK

\* Taking an item out of a container, or putting one in, keeps its type.
LEMMA WithoutType ==
    ASSUME NEW S, NEW q \in Seq(S), NEW i \in DOMAIN q
    PROVE  Without(q, i) \in Seq(S)
  <1>1. SubSeq(q, 1, i - 1) \in Seq(S) /\ SubSeq(q, i + 1, Len(q)) \in Seq(S)
    OBVIOUS
  <1> QED
    BY <1>1 DEF Without

\* Adding an item to a container keeps the type of them all.
LEMMA HoldingType ==
    ASSUME ContainerType, NEW c \in Containers, NEW x \in Items
    PROVE  Holding(c, x) \in [Containers -> Seq(Items)]
  <1>1. Append(content[c], x) \in Seq(Items)
    BY DEF ContainerType
  <1> QED
    BY <1>1 DEF Holding, ContainerType

\* What a step does to what containers hold.
LEMMA ContentStep ==
    ASSUME TypeOK, Next
    PROVE  content' \in [Containers -> Seq(Items)]
  <1> USE DEF TypeOK
  <1>0. content \in [Containers -> Seq(Items)]
    BY DEF ContainerType
  <1>1. ASSUME NEW t \in Control, ControlCall(t) PROVE content' = content
    BY <1>1, CallMoves DEF cvpVars
  <1>2. ASSUME NEW t \in Control, CommandReply(t) PROVE content' \in [Containers -> Seq(Items)]
    BY <1>0, <1>2, HoldingType DEF CommandReply, Accepts, Items
  <1>3. ASSUME NEW t \in Control, ControlStep(t), ~CommandReply(t) PROVE content' = content
    BY <1>3 DEF ControlStep, OpenClose, OpenNew, OpenDir, ListEntry, LegacyEntry, Entry, ListEnd,
       ArgumentOf, LegacyArgument, Argument, LegacyReply, WatchClose, WatchNew,
       WatchCheck, WatchAdd, WatchSpawn, CloseStop, CloseJoin, CloseContainer,
       CloseNull, cmdRest, cvpVars
  <1>4. CASE WatchStep
    <2>1. CASE PollAdd
      <3>1. wev # <<>> /\ Head(wev) # NoName => Head(wev) \in Items
        BY DEF WatchType, Event, Items
      <3>2. wev # <<>> /\ Head(wev) # NoName /\ Accepts(wcvp) =>
              Holding(wcvp, Head(wev)) \in [Containers -> Seq(Items)]
        BY <3>1, HoldingType DEF Accepts
      <3> QED
        BY <1>0, <2>1, <3>2 DEF PollAdd
    <2> QED
      BY <1>0, <1>4, <2>1 DEF WatchStep, PollCheck, PollWait, PollRead, cvpVars
  <1>5. ASSUME NEW r \in Readers, ReadBegin(r) \/ ReadTake(r)
        PROVE  content' \in [Containers -> Seq(Items)]
    <2>1. CASE content' = content
      BY <1>0, <2>1
    <2>2. CASE content' # content
      <3> DEFINE c == rcvp[r]
      <3>1. PICK i \in DOMAIN content[c] : content' = [content EXCEPT ![c] = Without(@, i)]
        BY <1>5, <2>2 DEF ReadBegin, ReadTake, cvpVars
      <3>2. CASE c \in Containers
        <4>1. content[c] \in Seq(Items)
          BY <1>0, <3>2
        <4>2. Without(content[c], i) \in Seq(Items)
          BY <4>1, WithoutType
        <4> QED
          BY <1>0, <3>1, <4>2
      <3>3. CASE c \notin Containers
        BY <1>0, <3>1, <3>3
      <3> QED
        BY <3>2, <3>3
    <2> QED
      BY <2>1, <2>2
  <1>6. ASSUME NEW n \in Names, Changed(n) PROVE content' = content
    BY <1>6 DEF Changed, cvpVars
  <1> QED
    BY <1>0, <1>1, <1>2, <1>3, <1>4, <1>5, <1>6 DEF Next

\* A call that makes a container has a number for it: the count of those that
\* are about to is part of what calls allow.
LEMMA ContainerTypeStep ==
    ASSUME TypeOK, Budget, Next
    PROVE  ContainerType' /\ Budget'
  <1> USE DEF TypeOK
  <1>0. /\ content' \in [Containers -> Seq(Items)]
        /\ calls \in 0..MaxCalls /\ made \in 0..MaxCalls
        /\ pc \in [Threads -> Labels]
        /\ IsFiniteSet(Creating) /\ Cardinality(Creating) \in Nat
        /\ made + Cardinality(Creating) <= calls
    BY ContentStep, FS_CardinalityType DEF ContainerType, CallType, Labels, Budget
  <1>1. ASSUME NEW t \in Control, ControlCall(t) PROVE ContainerType' /\ Budget'
    <2>1. pc[t] = "idle" /\ calls' = calls + 1 /\ UNCHANGED cvpVars
      BY <1>1, CallMoves
    <2>2. t \notin Creating
      BY <2>1 DEF Creating
    <2>3. PICK l \in ControlPc : Goto(t, l)
      BY <1>1, CallMoves DEF ControlPc
    <2>4. \A u \in Control \ {t} : pc'[u] = pc[u]
      BY <1>0, <2>3, Moves DEF Threads, Labels
    <2>5. Creating' = Creating \/ Creating' = Creating \cup {t}
      BY <2>2, <2>4 DEF Creating
    <2>6. IsFiniteSet(Creating') /\ Cardinality(Creating') \in Nat
          /\ Cardinality(Creating') <= Cardinality(Creating) + 1
      <3>1. /\ IsFiniteSet(Creating \cup {t})
            /\ Cardinality(Creating \cup {t}) = Cardinality(Creating) + 1
        BY <1>0, <2>2, FS_AddElement
      <3>2. CASE Creating' = Creating
        BY <1>0, <3>2
      <3>3. CASE Creating' = Creating \cup {t}
        BY <1>0, <3>1, <3>3
      <3> QED
        BY <2>5, <3>2, <3>3
    <2> QED
      BY <1>0, <2>1, <2>6 DEF Budget, ContainerType, cvpVars
  <1>2. ASSUME NEW t \in Control, OpenNew(t) \/ WatchNew(t) PROVE ContainerType' /\ Budget'
    <2>1. t \in Creating /\ calls' = calls /\ made' = made + 1 /\ cvp' = made + 1
          /\ closed' = closed
          /\ (unique' = [unique EXCEPT ![made + 1] = FALSE]
              \/ unique' = [unique EXCEPT ![made + 1] = TRUE])
      BY <1>2 DEF OpenNew, WatchNew, NewCvp, Creating, histVars
    <2>2. PICK l \in {"idle", "wa_check"} : Goto(t, l)
      BY <1>2 DEF OpenNew, WatchNew
    <2>3. pc'[t] = l /\ \A u \in Control \ {t} : pc'[u] = pc[u]
      BY <1>0, <2>2, Moves DEF Threads, Labels, ControlPc
    <2>4. Creating' = Creating \ {t}
      BY <2>3 DEF Creating
    <2>5. IsFiniteSet(Creating') /\ Cardinality(Creating') = Cardinality(Creating) - 1
      BY <1>0, <2>1, <2>4, FS_RemoveElement
    <2>6. Cardinality(Creating') \in Nat
      BY <2>5, FS_CardinalityType
    <2>7. made' \in 0..MaxCalls /\ made' + Cardinality(Creating') <= calls'
      BY <1>0, <2>1, <2>5, <2>6, Bounds
    <2>8. cvp' \in {NoCvp} \cup 1..made'
      BY <1>0, <2>1
    <2>9. unique' \in [Containers -> BOOLEAN]
      BY <2>1 DEF ContainerType
    <2> QED
      BY <1>0, <2>1, <2>5, <2>7, <2>8, <2>9 DEF Budget, ContainerType
  <1>3. ASSUME NEW t \in Control, ControlStep(t), ~OpenNew(t), ~WatchNew(t)
        PROVE  ContainerType' /\ Budget'
    <2>1. /\ UNCHANGED <<made, unique, calls>>
          /\ cvp' \in {cvp, NoCvp}
      BY <1>3, StepMoves DEF ControlStep, OpenClose, WatchClose, OpenDir, ListEntry, LegacyEntry,
         Entry, ListEnd, ArgumentOf, LegacyArgument, Argument, CommandReply, LegacyReply,
         WatchCheck, WatchAdd, WatchSpawn, CloseStop, CloseJoin, CloseContainer, CloseNull
    <2>2. closed' = closed \/ closed' = [c \in Containers |-> closed[c] \/ c = cvp]
      BY <1>3 DEF ControlStep, OpenClose, WatchClose, OpenDir, ListEntry, LegacyEntry,
         Entry, ListEnd, ArgumentOf, LegacyArgument, Argument, CommandReply, LegacyReply,
         WatchCheck, WatchAdd, WatchSpawn, CloseStop, CloseJoin, CloseContainer, CloseNull,
         CloseCvp, cmdRest, cvpVars
    <2>3. closed' \in [Containers -> BOOLEAN]
      BY <2>2 DEF ContainerType
    <2>4. Creating' = Creating
      <3>1. CASE pc' = pc
        BY <3>1 DEF Creating
      <3>2. CASE pc' # pc
        <4>1. PICK l \in {"idle"} \cup ControlPc : Goto(t, l)
          BY <1>3, <3>2, StepMoves
        <4>2. pc'[t] = l /\ \A u \in Control \ {t} : pc'[u] = pc[u]
          BY <1>0, <4>1, Moves DEF Threads, Labels
        <4>3. t \in Creating <=> pc'[t] \in {"op_close", "op_new", "wa_close", "wa_new"}
          <5>1. CASE OpenClose(t) \/ WatchClose(t)
            BY <1>0, <5>1, Moves DEF OpenClose, WatchClose, Creating, Labels, ControlPc, Threads
          <5>2. CASE OpenDir(t) \/ ListEntry(t) \/ LegacyEntry(t) \/ ListEnd(t)
            BY <1>0, <3>2, <5>2, Moves DEF OpenDir, ListEntry, LegacyEntry, Entry, ListEnd, Fails,
               Fail, Ends, Creating, Labels, ControlPc, Threads
          <5>3. CASE ArgumentOf(t) \/ LegacyArgument(t) \/ CommandReply(t) \/ LegacyReply(t)
            BY <1>0, <5>3, Moves DEF ArgumentOf, LegacyArgument, Argument, CommandReply,
               LegacyReply, Fail, Ends, Creating, Labels, ControlPc, Threads
          <5>4. CASE WatchCheck(t) \/ WatchAdd(t) \/ WatchSpawn(t)
            BY <1>0, <5>4, Moves DEF WatchCheck, WatchAdd, WatchSpawn, Creating, Labels,
               ControlPc, Threads
          <5>5. CASE CloseStop(t) \/ CloseJoin(t) \/ CloseContainer(t) \/ CloseNull(t)
            BY <1>0, <5>5, Moves DEF CloseStop, CloseJoin, CloseContainer, CloseNull, Creating,
               Labels, ControlPc, Threads
          <5> QED
            BY <1>3, <5>1, <5>2, <5>3, <5>4, <5>5 DEF ControlStep
        <4> QED
          BY <4>2, <4>3 DEF Creating
      <3> QED
        BY <3>1, <3>2
    <2> QED
      BY <1>0, <2>1, <2>3, <2>4 DEF ContainerType, Budget
  <1>4. CASE \/ WatchStep
             \/ \E r \in Readers : ReadBegin(r) \/ ReadTake(r)
             \/ \E n \in Names : Changed(n)
    <2>1. UNCHANGED <<cvp, made, closed, unique, calls>>
      BY <1>4 DEF WatchStep, PollCheck, PollWait, PollRead, PollAdd, ReadBegin, ReadTake, Changed,
         cvpVars, histVars
    <2>2. \A t \in Control : pc'[t] = pc[t]
      BY <1>4, ReaderMoves DEF WatchStep, PollCheck, PollWait, PollRead, PollAdd, ReadBegin,
         ReadTake, Changed, Labels
    <2>3. Creating' = Creating
      BY <2>2 DEF Creating
    <2> QED
      BY <1>0, <2>1, <2>3 DEF ContainerType, Budget
  <1> QED
    BY <1>1, <1>2, <1>3, <1>4 DEF Next

\* The watch thread, and what it has copied, in their types.
LEMMA WatchTypeStep == ASSUME TypeOK, Next PROVE WatchType'
  <1> USE DEF TypeOK
  <1>1. ASSUME NEW t \in Control, ControlCall(t) PROVE WatchType'
    BY <1>1, CallMoves DEF threadVars, WatchType
  <1>2. ASSUME NEW t \in Control, ControlStep(t) PROVE WatchType'
    <2>1. cvp \in {NoCvp} \cup Containers
      BY Bounds DEF ContainerType, Containers
    <2>2. CASE WatchSpawn(t) \/ CloseJoin(t)
      BY <2>1, <2>2 DEF WatchSpawn, CloseJoin, threadVars, WatchType, WatchPc
    <2>3. CASE ~WatchSpawn(t) /\ ~CloseJoin(t)
      <3>1. UNCHANGED threadVars
        BY <1>2, <2>3 DEF ControlStep, OpenClose, OpenNew, OpenDir, ListEntry, LegacyEntry, Entry,
           ListEnd, ArgumentOf, LegacyArgument, Argument, CommandReply, LegacyReply, WatchClose,
           WatchNew, WatchCheck, WatchAdd, CloseStop, CloseContainer, CloseNull, cmdRest
      <3> QED
        BY <3>1 DEF threadVars, WatchType
    <2> QED
      BY <2>2, <2>3
  <1>3. CASE PollCheck
    BY <1>3 DEF PollCheck, Active, WatchType, WatchPc, WatcherType
  <1>4. CASE PollWait
    BY <1>4 DEF PollWait, WatchType, WatchPc
  <1>5. CASE PollRead
    <2>1. queue[wfd] \in Seq(Event)
      BY <1>5 DEF PollRead, WatchType, WatcherType
    <2> QED
      BY <1>5, <2>1 DEF PollRead, WatchType, WatchPc
  <1>6. CASE PollAdd
    <2>1. wev # <<>> => Tail(wev) \in Seq(Event)
      BY DEF WatchType
    <2> QED
      BY <1>6, <2>1 DEF PollAdd, WatchType, WatchPc
  <1>7. CASE \/ \E r \in Readers : ReadBegin(r) \/ ReadTake(r)
             \/ \E n \in Names : Changed(n)
    BY <1>7 DEF ReadBegin, ReadTake, Changed, threadVars, WatchType
  <1> QED
    BY <1>1, <1>2, <1>3, <1>4, <1>5, <1>6, <1>7 DEF Next, WatchStep

\* What a command works on, in its type.
LEMMA DirTypeStep == ASSUME TypeOK, Next PROVE DirType'
  <1> USE DEF TypeOK, dirVars
  <1>1. ASSUME NEW t \in Control, ControlCall(t) PROVE DirType'
    BY <1>1, CallMoves DEF DirType
  <1>2. ASSUME NEW t \in Control, ControlStep(t) PROVE DirType'
    <2>0. "pwd" \in Commands
      BY DEF Commands
    <2>1. CASE OpenDir(t)
      BY <2>0, <2>1 DEF OpenDir, Fail, Ends, DirType
    <2>2. CASE ListEntry(t) \/ LegacyEntry(t)
      <3>1. cwd' = cwd /\ (Fails(t) \/ \E e \in left[t] : /\ left' = [left EXCEPT ![t] = @ \ {e}]
                                                          /\ UNCHANGED <<cmd, dir>>)
        BY <2>2 DEF ListEntry, LegacyEntry, Entry
      <3>2. CASE Fails(t)
        BY <2>0, <3>1, <3>2 DEF Fails, Fail, Ends, DirType
      <3> QED
        BY <3>1, <3>2 DEF DirType
    <2>3. CASE ListEnd(t)
      BY <2>3 DEF ListEnd, DirType
    <2>4. CASE ArgumentOf(t) \/ LegacyArgument(t)
      BY <2>0, <2>4 DEF ArgumentOf, LegacyArgument, Argument, Fail, Ends, DirType
    <2>5. CASE CommandReply(t) \/ LegacyReply(t)
      BY <2>0, <2>5 DEF CommandReply, LegacyReply, Ends, DirType
    <2>6. CASE \/ OpenClose(t) \/ OpenNew(t) \/ WatchClose(t) \/ WatchNew(t) \/ WatchCheck(t)
               \/ WatchAdd(t) \/ WatchSpawn(t) \/ CloseStop(t) \/ CloseJoin(t)
               \/ CloseContainer(t) \/ CloseNull(t)
      BY <2>6 DEF OpenClose, OpenNew, WatchClose, WatchNew, WatchCheck, WatchAdd, WatchSpawn,
         CloseStop, CloseJoin, CloseContainer, CloseNull, DirType
    <2> QED
      BY <1>2, <2>1, <2>2, <2>3, <2>4, <2>5, <2>6 DEF ControlStep
  <1>3. CASE \/ WatchStep
             \/ \E r \in Readers : ReadBegin(r) \/ ReadTake(r)
             \/ \E n \in Names : Changed(n)
    BY <1>3 DEF WatchStep, PollCheck, PollWait, PollRead, PollAdd, ReadBegin, ReadTake, Changed,
       DirType
  <1> QED
    BY <1>1, <1>2, <1>3 DEF Next

\* The flags of the history, in their types; overlap is never taken back.
LEMMA FlagTypeStep == ASSUME TypeOK, Next PROVE FlagType' /\ (overlap => overlap')
  <1> USE DEF TypeOK, dirVars, histVars
  <1>1. ASSUME NEW t \in Control, ControlCall(t) PROVE FlagType' /\ (overlap => overlap')
    BY <1>1, CallMoves DEF FlagType
  <1>2. ASSUME NEW t \in Control, ControlStep(t) PROVE FlagType' /\ (overlap => overlap')
    <2>1. UNCHANGED <<overlap, legacy>>
      BY <1>2, StepMoves
    <2>3. terminated' \in BOOLEAN
      BY <1>2 DEF ControlStep, OpenClose, OpenNew, OpenDir, ListEntry, LegacyEntry, Entry,
         ListEnd, ArgumentOf, LegacyArgument, Argument, CommandReply, LegacyReply, WatchClose,
         WatchNew, WatchCheck, WatchAdd, WatchSpawn, CloseStop, CloseJoin, CloseContainer,
         CloseNull, Terminate, cmdRest, FlagType
    <2> QED
      BY <2>1, <2>3 DEF FlagType
  <1>3. CASE \/ WatchStep
             \/ \E r \in Readers : ReadBegin(r) \/ ReadTake(r)
             \/ \E n \in Names : Changed(n)
    BY <1>3 DEF WatchStep, PollCheck, PollWait, PollRead, PollAdd, ReadBegin, ReadTake, Changed,
       Terminate, FlagType
  <1> QED
    BY <1>1, <1>2, <1>3 DEF Next

\* Types, with what they need to be inductive.
TypeInv == TypeOK /\ Budget /\ OneInstance

\* They hold at the beginning.
LEMMA TypeInit == Init => TypeInv
  <1> SUFFICES ASSUME Init PROVE TypeInv
    OBVIOUS
  <1>1. WatcherType /\ OneInstance
    BY WatcherStart DEF Init
  <1>2. <<>> \in Seq(Items) /\ <<>> \in Seq(Event)
    OBVIOUS
  <1>3. ContainerType
    BY <1>2, Bounds DEF Init, ContainerType
  <1>4. WatchType
    BY <1>2 DEF Init, WatchType, WatchPc
  <1>5. CallType
    BY Bounds DEF Init, CallType
  <1>6. DirType
    BY ReplyAssumption DEF Init, DirType, Commands
  <1>7. FlagType
    BY DEF Init, FlagType
  <1>8. Creating = {}
    BY DEF Init, Creating, Threads
  <1>9. Budget
    BY <1>8, FS_EmptySet DEF Init, Budget
  <1> QED
    BY <1>1, <1>3, <1>4, <1>5, <1>6, <1>7, <1>9 DEF TypeInv, TypeOK

\* Every step of every thread keeps them.
LEMMA TypeStep == TypeInv /\ [Next]_vars => TypeInv'
  <1> SUFFICES ASSUME TypeInv, [Next]_vars PROVE TypeInv'
    OBVIOUS
  <1>1. CASE Next
    BY <1>1, WatcherTypeStep, ContainerTypeStep, WatchTypeStep, CallTypeStep, DirTypeStep,
       FlagTypeStep DEF TypeInv, TypeOK
  <1>2. CASE UNCHANGED vars
    <2> USE <1>2 DEF vars, watcherVars, cvpVars, threadVars, dirVars, histVars, TypeInv, TypeOK
    <2>1. WatcherType' /\ OneInstance'
      BY WatcherKeeps
    <2>2. ContainerType' /\ WatchType' /\ CallType'
      BY DEF ContainerType, WatchType, CallType
    <2>3. DirType' /\ FlagType'
      BY DEF DirType, FlagType
    <2>4. Budget'
      BY DEF Budget, Creating
    <2> QED
      BY <2>1, <2>2, <2>3, <2>4
  <1> QED
    BY <1>1, <1>2

\* In every reachable state every variable has its type: among others, no more
\* containers are made than calls were begun, and the watch thread never polls
\* or reads -1.
THEOREM TypeCorrect == Spec => []TypeOK
  <1>1. TypeInv => TypeOK
    BY DEF TypeInv
  <1> QED
    BY <1>1, TypeInit, TypeStep, PTL DEF Spec

-----------------------------------------------------------------------------
(* Directories                                                              *)

\* A command closes the DIR it has opened on every way out of the loop.
LEMMA DirsStep == TypeOK /\ DirsClosed /\ [Next]_vars => DirsClosed'
  <1> SUFFICES ASSUME TypeOK, DirsClosed, [Next]_vars PROVE DirsClosed'
    OBVIOUS
  <1> USE DEF TypeOK, dirVars
  <1>0. CallType /\ dir \in [Control -> Dirs \cup {NoDir}]
    BY DEF DirType
  <1>1. ASSUME NEW t \in Control, ControlCall(t) PROVE DirsClosed'
    <2>1. pc[t] = "idle" /\ dir' = dir
      BY <1>1, CallMoves
    <2>2. PICK l \in ControlPc : Goto(t, l)
      BY <1>1, CallMoves DEF ControlPc
    <2>3. \A u \in Control \ {t} : pc'[u] = pc[u]
      BY <2>2, Moves DEF Threads, Labels
    <2>4. dir[t] = NoDir
      BY <2>1 DEF DirsClosed
    <2> QED
      BY <2>1, <2>3, <2>4 DEF DirsClosed
  <1>2. ASSUME NEW t \in Control, ControlStep(t) PROVE DirsClosed'
    <2>1. \A u \in Control \ {t} : pc'[u] = pc[u]
      BY <1>2, StepMoves, Moves DEF Threads, Labels
    <2>2. CASE OpenDir(t)
      BY <1>0, <2>1, <2>2 DEF OpenDir, Fail, Ends, Goto, CallType, Threads, DirsClosed
    <2>3. CASE ListEntry(t) \/ LegacyEntry(t)
      BY <1>0, <2>1, <2>3 DEF ListEntry, LegacyEntry, Entry, Fails, Fail, Ends, DirsClosed
    <2>4. CASE ListEnd(t)
      BY <1>0, <2>1, <2>4 DEF ListEnd, DirsClosed
    <2>5. CASE ArgumentOf(t) \/ LegacyArgument(t)
      <3>1. dir[t] = NoDir
        BY <2>5 DEF ArgumentOf, LegacyArgument, Argument, DirsClosed
      <3> QED
        BY <1>0, <2>1, <2>5, <3>1 DEF ArgumentOf, LegacyArgument, Argument, Fail, Ends, DirsClosed
    <2>6. CASE \/ CommandReply(t) \/ LegacyReply(t)
               \/ OpenClose(t) \/ OpenNew(t) \/ WatchClose(t) \/ WatchNew(t) \/ WatchCheck(t)
               \/ WatchAdd(t) \/ WatchSpawn(t) \/ CloseStop(t) \/ CloseJoin(t)
               \/ CloseContainer(t) \/ CloseNull(t)
      <3>1. pc[t] # "wr_list" /\ dir' = dir
        BY <2>6 DEF CommandReply, LegacyReply, OpenClose, OpenNew, WatchClose, WatchNew, WatchCheck,
           WatchAdd, WatchSpawn, CloseStop, CloseJoin, CloseContainer, CloseNull
      <3> QED
        BY <2>1, <3>1 DEF DirsClosed
    <2> QED
      BY <1>2, <2>2, <2>3, <2>4, <2>5, <2>6 DEF ControlStep
  <1>3. CASE \/ WatchStep \/ UNCHANGED vars
             \/ \E r \in Readers : ReadBegin(r) \/ ReadTake(r)
             \/ \E n \in Names : Changed(n)
    <2>1. dir' = dir
      BY <1>3 DEF WatchStep, PollCheck, PollWait, PollRead, PollAdd, ReadBegin, ReadTake, Changed, vars
    <2>2. \A t \in Control : pc'[t] = pc[t]
      BY <1>0, <1>3, ReaderMoves DEF WatchStep, PollCheck, PollWait, PollRead, PollAdd, ReadBegin,
         ReadTake, Changed, Labels, vars
    <2> QED
      BY <2>1, <2>2 DEF DirsClosed
  <1> QED
    BY <1>1, <1>2, <1>3 DEF Next

\* A DIR is open only inside the loop of the command that opened it.
THEOREM DirsCorrect == Spec => []DirsClosed
  <1>1. Init => DirsClosed
    BY DEF Init, DirsClosed
  <1> QED
    BY <1>1, DirsStep, TypeCorrect, PTL DEF Spec

-----------------------------------------------------------------------------
(* Messages that come one at a time                                         *)

\* At most one call is in progress.
OneCall == \A t, u \in Control : pc[t] # "idle" /\ pc[u] # "idle" => t = u

\* A container that was left behind is closed; inside a call, also the one that
\* it is about to leave.
LeftOf(t) == pc[t] \in {"op_new", "wa_new", "cl_null"} => cvp = NoCvp \/ closed[cvp]
LeftInv ==
    /\ \A c \in 1..made : c = cvp \/ closed[c]
    /\ \A t \in Control : LeftOf(t)

\* A watch thread, and an inotify instance, belong to a node that is open; only
\* between WatchAdd and WatchSpawn is there an instance without a thread.
WatchOf(t) ==
    /\ pc[t] \in {"wa_check", "wa_add", "wa_spawn"} => cvp # NoCvp
    /\ pc[t] \in {"wa_add", "wa_spawn", "cl_close", "cl_null"} => wpc = "none"
    /\ pc[t] = "cl_join" => wpc # "none"
    /\ pc[t] \in {"cl_join", "cl_close", "cl_null"} => inotify_fd = NoIno
WatchInv ==
    /\ wpc # "none" => cvp # NoCvp
    /\ inotify_fd # NoIno /\ wpc = "none" => \E t \in Control : pc[t] = "wa_spawn"
    /\ \A t \in Control : WatchOf(t)

SerialInv == OneCall /\ LeftInv /\ WatchInv

\* A step of the one call in progress.
LEMMA AloneStep ==
    ASSUME TypeOK, OneCall, NEW t \in Control, ControlStep(t)
    PROVE  /\ \A u \in Control \ {t} : pc[u] = "idle" /\ pc'[u] = "idle"
           /\ OneCall'
  <1>1. pc[t] \in ControlPc /\ CallType
    BY StepMoves DEF TypeOK
  <1>2. \A u \in Control \ {t} : pc[u] = "idle"
    BY <1>1 DEF OneCall, ControlPc
  <1>3. \A u \in Control \ {t} : pc'[u] = pc[u]
    BY <1>1, StepMoves, Moves DEF Threads, Labels
  <1> QED
    BY <1>2, <1>3 DEF OneCall

\* The first step of a call, when no other is in progress.
LEMMA AloneCall ==
    ASSUME TypeOK, NEW t \in Control, ControlCall(t), ~overlap'
    PROVE  /\ \A u \in Control : pc[u] = "idle"
           /\ \A u \in Control \ {t} : pc'[u] = "idle"
           /\ pc'[t] \in {"op_close", "cl_stop", "wa_close", "wr_open", "wr_arg", "wr_reply"}
           /\ OneCall'
  <1>1. \A u \in Control : pc[u] = "idle"
    BY CallMoves DEF TypeOK
  <1>2. PICK l \in {"op_close", "cl_stop", "wa_close", "wr_open", "wr_arg", "wr_reply"} : Goto(t, l)
    BY CallMoves DEF TypeOK
  <1>3. pc'[t] = l /\ \A u \in Control \ {t} : pc'[u] = "idle"
    BY <1>1, <1>2, Moves DEF TypeOK, Threads, Labels, ControlPc
  <1> QED
    BY <1>1, <1>3 DEF OneCall

\* open(), watch and close() leave no container behind open.
LEMMA LeftStep ==
    ASSUME TypeOK, OneCall, LeftInv, NEW t \in Control, ControlStep(t)
    PROVE  LeftInv'
  <1> USE DEF TypeOK
  <1>0. /\ \A u \in Control \ {t} : LeftOf(u)'
        /\ DOMAIN pc = Threads /\ t \in Threads
        /\ made \in Nat /\ cvp \in {NoCvp} \cup 1..made /\ 1..made \subseteq Containers
        /\ closed \in [Containers -> BOOLEAN]
    BY AloneStep, Bounds DEF LeftOf, CallType, Threads, ContainerType, Containers
  <1>1. CASE OpenClose(t) \/ WatchClose(t) \/ CloseContainer(t)
    <2>1. UNCHANGED <<cvp, made>> /\ closed' = [c \in Containers |-> closed[c] \/ c = cvp]
      BY <1>1 DEF OpenClose, WatchClose, CloseContainer, CloseCvp
    <2>2. \A c \in 1..made : c = cvp \/ closed'[c]
      BY <1>0, <2>1 DEF LeftInv
    <2>3. cvp = NoCvp \/ closed'[cvp]
      BY <1>0, <2>1
    <2> QED
      BY <1>0, <2>1, <2>2, <2>3 DEF LeftInv, LeftOf
  <1>2. CASE OpenNew(t) \/ WatchNew(t)
    <2>1. /\ pc[t] \in {"op_new", "wa_new"} /\ pc'[t] \in {"idle", "wa_check"}
          /\ made' = made + 1 /\ cvp' = made + 1 /\ closed' = closed
      BY <1>0, <1>2 DEF OpenNew, WatchNew, NewCvp, Goto
    <2>2. cvp = NoCvp \/ closed[cvp]
      BY <2>1 DEF LeftInv, LeftOf
    <2>3. \A c \in 1..made : closed[c]
      BY <1>0, <2>2 DEF LeftInv, NoCvp
    <2>4. \A c \in 1..made' : c = cvp' \/ c \in 1..made
      BY <1>0, <2>1
    <2> QED
      BY <1>0, <2>1, <2>3, <2>4 DEF LeftInv, LeftOf
  <1>3. CASE CloseNull(t)
    <2>1. pc[t] = "cl_null" /\ pc'[t] = "idle" /\ cvp' = NoCvp /\ UNCHANGED <<made, closed>>
      BY <1>0, <1>3 DEF CloseNull, Goto
    <2>2. cvp = NoCvp \/ closed[cvp]
      BY <2>1 DEF LeftInv, LeftOf
    <2>3. \A c \in 1..made : closed[c]
      BY <1>0, <2>2 DEF LeftInv, NoCvp
    <2> QED
      BY <1>0, <2>1, <2>3 DEF LeftInv, LeftOf
  <1>4. CASE \/ OpenDir(t) \/ ListEntry(t) \/ LegacyEntry(t) \/ ListEnd(t) \/ ArgumentOf(t)
             \/ LegacyArgument(t) \/ CommandReply(t) \/ LegacyReply(t) \/ WatchCheck(t)
             \/ WatchAdd(t) \/ WatchSpawn(t) \/ CloseStop(t) \/ CloseJoin(t)
    <2>1. UNCHANGED <<cvp, made, closed>>
      BY <1>4 DEF OpenDir, ListEntry, LegacyEntry, Entry, ListEnd, ArgumentOf, LegacyArgument,
         Argument, CommandReply, LegacyReply, WatchCheck, WatchAdd, WatchSpawn, CloseStop,
         CloseJoin, cmdRest, cvpVars
    <2>2. pc'[t] \notin {"op_new", "wa_new", "cl_null"}
      <3>1. CASE OpenDir(t) \/ ListEntry(t) \/ LegacyEntry(t) \/ ListEnd(t)
        BY <1>0, <3>1 DEF OpenDir, ListEntry, LegacyEntry, Entry, ListEnd, Fails, Fail, Ends, Goto
      <3>2. CASE ArgumentOf(t) \/ LegacyArgument(t) \/ CommandReply(t) \/ LegacyReply(t)
        BY <1>0, <3>2 DEF ArgumentOf, LegacyArgument, Argument, CommandReply, LegacyReply,
           Fail, Ends, Goto
      <3>3. CASE WatchCheck(t) \/ WatchAdd(t) \/ WatchSpawn(t) \/ CloseStop(t) \/ CloseJoin(t)
        BY <1>0, <3>3 DEF WatchCheck, WatchAdd, WatchSpawn, CloseStop, CloseJoin, Goto
      <3> QED
        BY <1>4, <3>1, <3>2, <3>3
    <2> QED
      BY <1>0, <2>1, <2>2 DEF LeftInv, LeftOf
  <1> QED
    BY <1>1, <1>2, <1>3, <1>4 DEF ControlStep

\* They end the watch thread, and its instance, before the node is closed.
LEMMA WatchInvStep ==
    ASSUME TypeOK, OneInstance, OneCall, WatchInv, NEW t \in Control, ControlStep(t)
    PROVE  WatchInv'
  <1> USE DEF TypeOK
  <1>0. /\ \A u \in Control \ {t} : pc[u] = "idle" /\ WatchOf(u)'
        /\ DOMAIN pc = Threads /\ t \in Threads
        /\ made \in Nat
    BY AloneStep DEF WatchOf, CallType, Threads, ContainerType
  <1>1. CASE \/ OpenClose(t) \/ WatchClose(t) \/ OpenDir(t) \/ ListEntry(t) \/ LegacyEntry(t)
             \/ ListEnd(t) \/ ArgumentOf(t) \/ LegacyArgument(t) \/ CommandReply(t)
             \/ LegacyReply(t)
    <2>1. UNCHANGED <<cvp, wpc, inotify_fd>> /\ pc[t] # "wa_spawn"
      BY <1>1 DEF OpenClose, WatchClose, OpenDir, ListEntry, LegacyEntry, Entry, ListEnd,
         ArgumentOf, LegacyArgument, Argument, CommandReply, LegacyReply, cmdRest, cvpVars,
         threadVars, watcherVars
    <2>2. pc'[t] \in {"op_new", "wa_new", "idle", "wr_list", "wr_reply"}
      <3>1. CASE OpenClose(t) \/ WatchClose(t)
        BY <1>0, <3>1 DEF OpenClose, WatchClose, Goto
      <3>2. CASE OpenDir(t) \/ ListEntry(t) \/ LegacyEntry(t) \/ ListEnd(t)
        BY <1>0, <3>2 DEF OpenDir, ListEntry, LegacyEntry, Entry, ListEnd, Fails, Fail, Ends, Goto
      <3>3. CASE ArgumentOf(t) \/ LegacyArgument(t) \/ CommandReply(t) \/ LegacyReply(t)
        BY <1>0, <3>3 DEF ArgumentOf, LegacyArgument, Argument, CommandReply, LegacyReply,
           Fail, Ends, Goto
      <3> QED
        BY <1>1, <3>1, <3>2, <3>3
    <2> QED
      BY <1>0, <2>1, <2>2 DEF WatchInv, WatchOf
  <1>2. CASE OpenNew(t) \/ WatchNew(t)
    <2>1. /\ UNCHANGED <<wpc, inotify_fd>> /\ pc[t] # "wa_spawn"
          /\ pc'[t] \in {"idle", "wa_check"} /\ cvp' # NoCvp
      BY <1>0, <1>2 DEF OpenNew, WatchNew, NewCvp, Goto, threadVars, watcherVars, NoCvp
    <2> QED
      BY <1>0, <2>1 DEF WatchInv, WatchOf
  <1>3. CASE WatchCheck(t)
    <2>1. /\ UNCHANGED <<wpc, inotify_fd, cvp>> /\ pc[t] = "wa_check"
          /\ pc'[t] \in {"idle", "wa_add"} /\ (pc'[t] = "wa_add" => wpc = "none")
      BY <1>0, <1>3 DEF WatchCheck, Goto, threadVars, watcherVars, cvpVars
    <2> QED
      BY <1>0, <2>1 DEF WatchInv, WatchOf
  <1>4. CASE WatchAdd(t)
    <2>1. /\ UNCHANGED <<wpc, cvp>> /\ pc[t] = "wa_add"
          /\ pc'[t] = "wa_spawn" \/ (pc'[t] = "idle" /\ inotify_fd' = NoIno)
      BY <1>0, <1>4 DEF WatchAdd, AddWatchFails, RemoveWatch, Goto, threadVars, cvpVars
    <2> QED
      BY <1>0, <2>1 DEF WatchInv, WatchOf
  <1>5. CASE WatchSpawn(t)
    <2>1. /\ UNCHANGED <<inotify_fd, cvp>> /\ pc[t] = "wa_spawn" /\ pc'[t] = "idle"
          /\ wpc' # "none"
      BY <1>0, <1>5 DEF WatchSpawn, Goto, cvpVars, watcherVars
    <2> QED
      BY <1>0, <2>1 DEF WatchInv, WatchOf
  <1>6. CASE CloseStop(t)
    <2>1. /\ UNCHANGED <<wpc, cvp>> /\ pc[t] = "cl_stop"
          /\ \/ wpc # "none" /\ inotify_fd' = NoIno /\ pc'[t] = "cl_join"
             \/ wpc = "none" /\ inotify_fd' = inotify_fd /\ pc'[t] = "cl_close"
      BY <1>0, <1>6 DEF CloseStop, RemoveWatch, Goto, cvpVars, threadVars, watcherVars
    <2>2. wpc = "none" => inotify_fd = NoIno
      BY <1>0, <2>1 DEF WatchInv
    <2> QED
      BY <1>0, <2>1, <2>2 DEF WatchInv, WatchOf
  <1>7. CASE CloseJoin(t)
    <2>1. /\ UNCHANGED <<inotify_fd, cvp>> /\ pc[t] = "cl_join" /\ wpc' = "none"
          /\ pc'[t] \in {"cl_close", "idle"}
      BY <1>0, <1>7 DEF CloseJoin, Goto, cvpVars, watcherVars, threadVars
    <2> QED
      BY <1>0, <2>1 DEF WatchInv, WatchOf
  <1>8. CASE CloseContainer(t) \/ CloseNull(t)
    <2>1. /\ UNCHANGED <<inotify_fd, wpc>> /\ pc[t] \in {"cl_close", "cl_null"}
          /\ pc'[t] \in {"cl_null", "idle"}
      BY <1>0, <1>8 DEF CloseContainer, CloseNull, Goto, watcherVars, threadVars
    <2> QED
      BY <1>0, <2>1 DEF WatchInv, WatchOf
  <1> QED
    BY <1>1, <1>2, <1>3, <1>4, <1>5, <1>6, <1>7, <1>8 DEF ControlStep

\* Every step keeps what messages that come one at a time rely on.
LEMMA SerialStep ==
    TypeInv /\ (~overlap => SerialInv) /\ [Next]_vars => (~overlap' => SerialInv')
  <1> SUFFICES ASSUME TypeInv, ~overlap => SerialInv, [Next]_vars, ~overlap'
               PROVE  SerialInv'
    OBVIOUS
  <1>0. TypeOK /\ OneInstance
    BY DEF TypeInv
  <1>1. SerialInv
    BY <1>0, FlagTypeStep DEF vars, histVars
  <1>2. ASSUME NEW t \in Control, ControlCall(t) PROVE SerialInv'
    <2>1. UNCHANGED <<watcherVars, cvpVars, threadVars>>
      BY <1>0, <1>2, CallMoves DEF TypeOK
    <2>2. /\ \A u \in Control : pc[u] = "idle"
          /\ \A u \in Control \ {t} : pc'[u] = "idle"
          /\ pc'[t] \in {"op_close", "cl_stop", "wa_close", "wr_open", "wr_arg", "wr_reply"}
          /\ OneCall'
      BY <1>0, <1>2, AloneCall
    <2>3. LeftInv'
      BY <1>1, <2>1, <2>2 DEF SerialInv, LeftInv, LeftOf, cvpVars
    <2>4. WatchInv'
      BY <1>1, <2>1, <2>2 DEF SerialInv, WatchInv, WatchOf, cvpVars, watcherVars, threadVars
    <2> QED
      BY <2>2, <2>3, <2>4 DEF SerialInv
  <1>3. ASSUME NEW t \in Control, ControlStep(t) PROVE SerialInv'
    BY <1>0, <1>1, <1>3, AloneStep, LeftStep, WatchInvStep DEF SerialInv
  <1>4. CASE \/ WatchStep \/ UNCHANGED vars
             \/ \E r \in Readers : ReadBegin(r) \/ ReadTake(r)
             \/ \E n \in Names : Changed(n)
    <2>1. UNCHANGED <<cvp, made, closed, inotify_fd>>
      BY <1>4 DEF WatchStep, PollCheck, PollWait, PollRead, PollAdd, ReadBegin, ReadTake, Changed,
         TakeEvents, Notify, vars, cvpVars, dirVars, watcherVars
    <2>2. \A t \in Control : pc'[t] = pc[t]
      BY <1>0, <1>4, ReaderMoves DEF WatchStep, PollCheck, PollWait, PollRead, PollAdd, ReadBegin,
         ReadTake, Changed, Labels, vars, TypeOK
    <2>3. wpc' = "none" <=> wpc = "none"
      BY <1>4 DEF WatchStep, PollCheck, PollWait, PollRead, PollAdd, ReadBegin, ReadTake, Changed,
         vars, threadVars
    <2>4. OneCall' /\ LeftInv'
      BY <1>1, <2>1, <2>2 DEF SerialInv, OneCall, LeftInv, LeftOf
    <2>5. WatchInv'
      BY <1>1, <2>1, <2>2, <2>3 DEF SerialInv, WatchInv, WatchOf
    <2> QED
      BY <2>4, <2>5 DEF SerialInv
  <1> QED
    BY <1>2, <1>3, <1>4 DEF Next

\* Until two messages overlap, all of this holds of every reachable state.
LEMMA Invariant == Spec => [](TypeInv /\ (~overlap => SerialInv))
  <1>1. Init => SerialInv
    <2> SUFFICES ASSUME Init PROVE SerialInv
      OBVIOUS
    <2>1. (\A t \in Control : pc[t] = "idle") /\ made = 0
      BY DEF Init, Threads
    <2>2. OneCall /\ LeftInv
      BY <2>1 DEF OneCall, LeftInv, LeftOf
    <2>3. WatchInv
      BY <2>1 DEF Init, WatcherInit, WatchInv, WatchOf
    <2> QED
      BY <2>2, <2>3 DEF SerialInv
  <1> QED
    BY <1>1, TypeInit, TypeStep, SerialStep, PTL DEF Spec

\* When messages come one at a time, every container that the node has moved on
\* from is closed.
THEOREM LeftCorrect == Spec => []LeftBehindIsClosed
  <1>1. (~overlap => SerialInv) => LeftBehindIsClosed
    BY DEF SerialInv, LeftInv, LeftBehindIsClosed
  <1> QED
    BY <1>1, Invariant, PTL

\* When messages come one at a time, a closed node has no watch thread, and no
\* inotify instance is left open.
THEOREM ClosedQuiet == Spec => []ClosedIsQuiet
  <1>1. TypeInv /\ (~overlap => SerialInv) => ClosedIsQuiet
    BY DEF TypeInv, OneInstance, SerialInv, WatchInv, ClosedIsQuiet, Quiet
  <1> QED
    BY <1>1, Invariant, PTL

\* When messages come one at a time, close() joins a thread that has nothing left to
\* wait for.
THEOREM JoinCorrect == Spec => []JoinCannotHang
  <1>1. TypeInv /\ (~overlap => SerialInv) => JoinCannotHang
    <2> SUFFICES ASSUME TypeInv, SerialInv, NEW t \in Control, pc[t] = "cl_join"
                 PROVE  /\ wpc # "none" /\ ~Active
                        /\ wpc \in {"wt_poll", "wt_read"} => Gone(wfd)
      BY DEF JoinCannotHang
    <2>1. wpc # "none" /\ inotify_fd = NoIno
      BY DEF SerialInv, WatchInv, WatchOf
    <2>2. live = {}
      BY <2>1 DEF TypeInv, OneInstance
    <2> QED
      BY <2>1, <2>2 DEF Active, Gone
  <1> QED
    BY <1>1, Invariant, PTL

-----------------------------------------------------------------------------
(* Events                                                                   *)

\* The watch thread has events in hand only while it adds them.
HandInv == wpc # "wt_add" => wev = <<>>

\* What a step may do to the watcher and to the events in hand.
LEMMA EventMoves ==
    ASSUME TypeOK, Next, ~PollRead, ~PollAdd
    PROVE  /\ wev' = wev
           /\ wpc = "wt_add" => wpc' = "wt_add"
           /\ \/ (\E e \in Event : Notify(e)) \/ AddWatch \/ UNCHANGED watcherVars
              \/ RemoveWatch
  <1>1. ASSUME NEW t \in Control, ControlCall(t)
        PROVE  UNCHANGED <<watcherVars, wev, wpc>>
    BY <1>1, CallMoves DEF TypeOK, threadVars
  <1>2. ASSUME NEW t \in Control, ControlStep(t)
        PROVE  /\ wev' = wev
               /\ wpc = "wt_add" => wpc' = "wt_add"
               /\ AddWatch \/ UNCHANGED watcherVars \/ RemoveWatch
    <2> USE DEF cmdRest, threadVars
    <2>1. wev' = wev /\ (wpc = "wt_add" => wpc' = "wt_add")
      BY <1>2 DEF ControlStep, OpenClose, OpenNew, OpenDir, ListEntry, LegacyEntry, Entry,
         ListEnd, ArgumentOf, LegacyArgument, Argument, CommandReply, LegacyReply, WatchClose,
         WatchNew, WatchCheck, WatchAdd, WatchSpawn, CloseStop, CloseJoin, CloseContainer,
         CloseNull
    <2>2. AddWatch \/ UNCHANGED watcherVars \/ RemoveWatch
      BY <1>2 DEF ControlStep, OpenClose, OpenNew, OpenDir, ListEntry, LegacyEntry, Entry,
         ListEnd, ArgumentOf, LegacyArgument, Argument, CommandReply, LegacyReply, WatchClose,
         WatchNew, WatchCheck, WatchAdd, AddWatchFails, WatchSpawn, CloseStop, CloseJoin,
         CloseContainer, CloseNull
    <2> QED
      BY <2>1, <2>2
  <1>3. ASSUME PollCheck \/ PollWait PROVE UNCHANGED <<watcherVars, wev>> /\ wpc # "wt_add"
    BY <1>3 DEF PollCheck, PollWait
  <1>4. ASSUME NEW r \in Readers, ReadBegin(r) \/ ReadTake(r)
        PROVE  UNCHANGED <<watcherVars, wev, wpc>>
    BY <1>4 DEF ReadBegin, ReadTake, threadVars
  <1>5. ASSUME NEW n \in Names, Changed(n)
        PROVE  UNCHANGED <<wev, wpc>> /\ \E e \in Event : Notify(e)
    BY <1>5 DEF Changed, threadVars, Event
  <1> QED
    BY <1>1, <1>2, <1>3, <1>4, <1>5 DEF Next, WatchStep

\* The events in hand stay in hand.
LEMMA HandStep == TypeOK /\ HandInv /\ [Next]_vars => HandInv'
  <1> SUFFICES ASSUME TypeOK, HandInv, [Next]_vars PROVE HandInv'
    OBVIOUS
  <1>1. CASE PollRead
    BY <1>1 DEF PollRead, HandInv
  <1>2. CASE PollAdd
    BY <1>2 DEF PollAdd, HandInv
  <1>3. CASE Next /\ ~PollRead /\ ~PollAdd
    BY <1>3, EventMoves DEF HandInv
  <1>4. CASE UNCHANGED vars
    BY <1>4 DEF vars, threadVars, HandInv
  <1> QED
    BY <1>1, <1>2, <1>3, <1>4

\* An item that is added to a container is in it.
LEMMA Held ==
    ASSUME ContainerType, NEW c \in Containers, NEW x \in Items
    PROVE  x \in Elements(Holding(c, x)[c])
  <1>1. content[c] \in Seq(Items)
    BY DEF ContainerType
  <1>2. CASE Holding(c, x) = content /\ \E i \in DOMAIN content[c] : content[c][i] = x
    BY <1>2 DEF Elements
  <1>3. CASE Holding(c, x) = [content EXCEPT ![c] = Append(@, x)]
    <2>1. Holding(c, x)[c] = Append(content[c], x)
      BY <1>3 DEF ContainerType
    <2>2. /\ Len(content[c]) + 1 \in DOMAIN Append(content[c], x)
          /\ Append(content[c], x)[Len(content[c]) + 1] = x
      BY <1>1
    <2> QED
      BY <2>1, <2>2 DEF Elements
  <1> QED
    BY <1>2, <1>3 DEF Holding

\* No step drops an event.
LEMMA HandOn ==
    ASSUME TypeInv, HandInv, [Next]_vars, NEW n \in Names
    PROVE  /\ Active /\ n \in Elements(queue[inotify_fd]) =>
                ~Active' \/ n \in Elements(queue'[inotify_fd']) \cup Elements(wev')
           /\ n \in Elements(wev) =>
                \/ n \in Elements(wev')
                \/ Accepts(wcvp) /\ n \in Elements(content'[wcvp])
                \/ ~Accepts(wcvp) /\ terminated'
  <1>0. TypeOK /\ WatcherType /\ OneInstance /\ WatchType /\ ContainerType
    BY DEF TypeInv, TypeOK
  <1>1. CASE PollRead
    <2>1. wev = <<>> /\ wpc = "wt_read" /\ wfd \in Inos
      BY <1>0, <1>1 DEF PollRead, HandInv, WatchType
    <2>2. n \notin Elements(wev)
      BY <2>1 DEF Elements
    <2>3. CASE Ready(wfd)
      <3>1. wfd = inotify_fd
        BY <1>0, <2>1, <2>3, ReadsOwnInstance
      <3>2. wev' = queue[inotify_fd]
        BY <1>1, <2>3, <3>1 DEF PollRead
      <3> QED
        BY <2>2, <3>2
    <2>4. CASE ~Ready(wfd)
      <3>1. UNCHANGED watcherVars
        BY <1>1, <2>4 DEF PollRead, TakeEvents
      <3> QED
        BY <2>2, <3>1 DEF watcherVars
    <2> QED
      BY <2>3, <2>4
  <1>2. CASE PollAdd
    <2>1. UNCHANGED watcherVars
      BY <1>2 DEF PollAdd
    <2>2. ASSUME n \in Elements(wev), n \notin Elements(wev')
          PROVE  \/ Accepts(wcvp) /\ n \in Elements(content'[wcvp])
                 \/ ~Accepts(wcvp) /\ terminated'
      <3>1. wev \in Seq(Event) /\ wev # <<>> /\ wev' = Tail(wev)
        BY <1>0, <1>2, <2>2 DEF PollAdd, WatchType, Elements
      <3>2. PICK i \in DOMAIN wev : wev[i] = n
        BY <2>2 DEF Elements
      <3>3. i = 1
        <4>1. ASSUME i # 1 PROVE FALSE
          <5>1. i - 1 \in DOMAIN Tail(wev) /\ Tail(wev)[i - 1] = n
            BY <3>1, <3>2, <4>1
          <5> QED
            BY <2>2, <3>1, <5>1 DEF Elements
        <4> QED
          BY <4>1
      <3>4. Head(wev) = n /\ n # NoName /\ n \in Items
        BY <3>1, <3>2, <3>3, WatcherAssumption DEF Items
      <3>5. CASE Accepts(wcvp)
        <4>1. wcvp \in Containers /\ content' = Holding(wcvp, n)
          BY <1>2, <3>1, <3>4, <3>5 DEF PollAdd, Accepts
        <4> QED
          BY <1>0, <3>4, <3>5, <4>1, Held
      <3>6. CASE ~Accepts(wcvp)
        BY <1>2, <3>1, <3>4, <3>6 DEF PollAdd, Terminate
      <3> QED
        BY <3>5, <3>6
    <2> QED
      BY <2>1, <2>2 DEF watcherVars
  <1>3. CASE Next /\ ~PollRead /\ ~PollAdd
    <2>1. wev' = wev
      BY <1>0, <1>3, EventMoves
    <2>2. CASE RemoveWatch
      BY <2>1, <2>2 DEF RemoveWatch, Active
    <2>3. CASE ~RemoveWatch
      <3>1. (\E e \in Event : Notify(e)) \/ AddWatch \/ UNCHANGED watcherVars
        BY <1>0, <1>3, <2>3, EventMoves
      <3> QED
        BY <1>0, <2>1, <3>1, EventsStay
    <2> QED
      BY <2>2, <2>3
  <1>4. CASE UNCHANGED vars
    BY <1>4 DEF vars, watcherVars, threadVars
  <1> QED
    BY <1>1, <1>2, <1>3, <1>4

\* However messages overlap: an event that inotify has reported stays there until
\* the watch thread reads it or the watch is taken down, and one that was read gets
\* into the container that the thread was started with, or ends the program.
THEOREM EventsCorrect == Spec => EventsHandedOn
  <1>1. Init => HandInv
    BY DEF Init, HandInv
  <1>2. TypeInv /\ HandInv /\ [Next]_vars =>
          [\A n \in Names :
             /\ Active /\ n \in Elements(queue[inotify_fd]) =>
                  ~Active' \/ n \in Elements(queue'[inotify_fd']) \cup Elements(wev')
             /\ n \in Elements(wev) =>
                  \/ n \in Elements(wev')
                  \/ Accepts(wcvp) /\ n \in Elements(content'[wcvp])
                  \/ ~Accepts(wcvp) /\ terminated']_vars
    BY HandOn
  <1>3. TypeInv /\ HandInv /\ [Next]_vars => HandInv'
    BY HandStep DEF TypeInv
  <1> QED
    BY <1>1, <1>2, <1>3, TypeInit, TypeStep, PTL DEF Spec, EventsHandedOn
=============================================================================
