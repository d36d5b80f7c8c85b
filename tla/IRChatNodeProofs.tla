-------------------------- MODULE IRChatNodeProofs --------------------------
(* What holds of IRChatNode for every choice of its constants.              *)
EXTENDS IRChatNode, TLAPS, SequenceTheorems

\* The bounds are natural numbers.
LEMMA Bounds == MaxOpens \in Nat /\ MaxConns \in Nat /\ MaxLines \in Nat
  BY BoundAssumption

\* Who a thread is: the roles do not overlap.
LEMMA Roles ==
    /\ Control \in Threads /\ Control \notin Sessions
    /\ Sessions \subseteq Threads /\ Writers \subseteq Threads /\ Readers \subseteq Threads
    /\ Movers \subseteq Threads /\ Callers \subseteq Threads
    /\ \A w \in Writers : w \notin Movers /\ w \notin Readers
    /\ \A r \in Readers : r \notin Callers
  BY Bounds, ThreadAssumption DEF Threads, Callers, Movers, Sessions, Control

\* Where a thread can be.
Labels == ControlPc \cup LoopPc \cup DisconnectPc \cup {"wr_print", "rd_get", "rd_take"}

-----------------------------------------------------------------------------
(* Types                                                                    *)

\* Where close() is before the looper has been joined.
Closing == {"cl_quit", "cl_say", "cl_join"} \cup DisconnectPc

\* What the types need to be inductive.  The looper of an open() that has not
\* made it yet is not there; close() knows its IRC object until it is deleted;
\* a looper waits on a connection that was made; and on a connection the halves
\* alternate and end with a second one.
Fresh == \A s \in Sessions :
    s > opens \/ (s = opens /\ pc[Control] \in {"op_queue", "op_start"}) => pc[s] = "none"
Known ==
    /\ pc[Control] \in {"op_queue", "op_start"} => opens # 0
    /\ pc[Control] \in Closing => conn # None
    /\ pc[Control] \in Closing \ {"cl_join"} => obj[Control] # None
Made == \A s \in Sessions : lconn[s] <= conns
Halved == \A c \in Conns : \A i \in 1..Len(inq[c]) :
    (inq[c][i] % 2 = 0) <=> ((Len(inq[c]) - i) % 2 = 0)

TypeInv == TypeOK /\ pc \in [Threads -> Labels] /\ Fresh /\ Known /\ Made /\ Halved


\* A step of a thread moves that thread.
LEMMA Moves ==
    ASSUME pc \in [Threads -> Labels], NEW t \in Threads, NEW l \in Labels, Goto(t, l)
    PROVE  pc' \in [Threads -> Labels] /\ pc'[t] = l /\ \A u \in Threads \ {t} : pc'[u] = pc[u]
  BY DEF Goto

\* What a thread that opens or closes the node leaves alone.
LEMMA ControlFrame ==
    ASSUME OpenBegin \/ CloseBegin \/ Construct \/ Destruct \/ ControlStep
    PROVE  /\ UNCHANGED <<ircVars, fds, files, conns, inq, hup, sent, loopVars, readVars, given,
                          legacy>>
  BY DEF OpenBegin, CloseBegin, Destruct, Close, Construct, ControlStep, OpenQueue, OpenStart, CloseQuit, CloseSay, CloseJoin, DestructJoin, CloseNull,
     OpenLog, nodeVars, ircVars, kernelVars, serverVars, loopVars, readVars, historyVars

\* The thread that opens and closes moves itself, and, if it opens, the looper.
LEMMA ControlMoves ==
    ASSUME TypeInv, OpenBegin \/ CloseBegin \/ Construct \/ Destruct \/ ControlStep
    PROVE  /\ pc' \in [Threads -> Labels]
           /\ pc'[Control] \in ControlPc \cup DisconnectPc
           /\ \A t \in Threads \ {Control} :
                pc'[t] = pc[t] \/ (t = opens' /\ t \in Sessions /\ pc[t] = "none" /\ pc'[t] = "lp_start"
                                   /\ (pc[Control] = "op_start" \/ opens' = opens + 1)
                                   /\ pc'[Control] = "idle")
  <1>0. /\ pc \in [Threads -> Labels] /\ Control \in Threads /\ Control \notin Sessions
        /\ Sessions \subseteq Threads
    BY Roles DEF TypeInv
  <1>1. CASE OpenStart
    <2>1. opens \in Sessions /\ pc[opens] = "none"
      BY <1>1, Bounds DEF OpenStart, TypeInv, TypeOK, HistoryType, Known, Fresh, Sessions
    <2> QED
      BY <1>0, <1>1, <2>1 DEF OpenStart, Labels, ControlPc, LoopPc, historyVars
  <1>2. CASE Construct
    <2>1. opens' \in Sessions /\ pc[opens'] = "none" /\ opens' = opens + 1
      BY <1>2, Bounds DEF Construct, TypeInv, TypeOK, HistoryType, Fresh, Sessions
    <2> QED
      BY <1>0, <1>2, <2>1 DEF Construct, Goto, Labels, ControlPc, LoopPc
  <1>3. CASE ~OpenStart /\ ~Construct
    <2>1. UNCHANGED pc \/ \E l \in ControlPc \cup DisconnectPc : Goto(Control, l)
      BY <1>3 DEF OpenBegin, CloseBegin, Destruct, Close, Construct, ControlStep, OpenQueue, OpenStart, CloseQuit, CloseSay, CloseJoin, DestructJoin, CloseNull,
         ControlPc, DisconnectPc
    <2>2. pc[Control] \in ControlPc \cup DisconnectPc
      BY DEF TypeInv, TypeOK, PcType
    <2> QED
      BY <1>0, <2>1, <2>2 DEF Goto, Labels
  <1> QED
    BY <1>1, <1>2, <1>3

\* That thread keeps the types.
LEMMA ControlTypeStep ==
    ASSUME TypeInv, OpenBegin \/ CloseBegin \/ Construct \/ Destruct \/ ControlStep
    PROVE  TypeInv'
  <1> USE DEF TypeInv, TypeOK
  <1>1. /\ pc' \in [Threads -> Labels]
        /\ pc'[Control] \in ControlPc \cup DisconnectPc
        /\ \A t \in Threads \ {Control} :
             pc'[t] = pc[t] \/ (t = opens' /\ t \in Sessions /\ pc[t] = "none" /\ pc'[t] = "lp_start"
                                /\ (pc[Control] = "op_start" \/ opens' = opens + 1)
                                /\ pc'[Control] = "idle")
    BY ControlMoves
  <1>2. /\ UNCHANGED <<ircVars, fds, files, conns, inq, hup, sent, loopVars, readVars, given,
                        legacy>>
    BY ControlFrame
  <1>3. NodeType'
    <2>1. pc[Control] \in {"op_queue", "op_start"} => opens \in Sessions
      BY Bounds DEF HistoryType, Known, Sessions
    <2>2. Construct => opens' \in Sessions
      BY Bounds DEF HistoryType, Construct, Sessions
    <2>3. cancel' \in BOOLEAN
      BY DEF NodeType, OpenBegin, CloseBegin, Destruct, Close, Construct,
         ControlStep, OpenQueue, OpenStart, CloseQuit, CloseSay, CloseJoin, DestructJoin, CloseNull,
         nodeVars
    <2> QED
      BY <2>1, <2>2, <2>3 DEF NodeType, OpenBegin, CloseBegin, Destruct, Close, Construct,
         ControlStep, OpenQueue, OpenStart, CloseQuit, CloseSay, CloseJoin, DestructJoin, CloseNull,
         nodeVars
  <1>4. IrcType'
    <2>1. deleted' \subseteq Sessions
      BY DEF IrcType, NodeType, Known, Closing, OpenBegin, CloseBegin, Destruct, Close, Construct,
         ControlStep, OpenQueue, OpenStart, CloseQuit, CloseSay, CloseJoin, DestructJoin, CloseNull
    <2> QED
      BY <1>2, <2>1 DEF IrcType, ircVars
  <1>5. KernelType' /\ ServerType'
    <2>1. quits' \subseteq 1..conns
      BY DEF ServerType, KernelType, OpenBegin, CloseBegin, Destruct, Close, Construct,
         ControlStep, OpenQueue, OpenStart, CloseQuit, CloseSay, CloseJoin, DestructJoin, CloseNull,
         serverVars
    <2>2. logs' \subseteq Sessions
      <3>1. CASE UNCHANGED logs
        BY <3>1 DEF KernelType
      <3>2. CASE OpenStart \/ Construct
        <4>1. opens' \in Sessions
          BY <3>2, Bounds DEF OpenStart, Construct, HistoryType, Known, Sessions, historyVars
        <4> QED
          BY <4>1, <3>2 DEF OpenStart, Construct, OpenLog, KernelType, historyVars
      <3> QED
        BY <3>1, <3>2 DEF OpenBegin, CloseBegin, Destruct, Close, ControlStep, OpenQueue, CloseQuit,
           CloseSay, CloseJoin, DestructJoin, CloseNull, kernelVars
    <2> QED
      BY <1>2, <2>1, <2>2 DEF KernelType, ServerType
  <1>6. PcType'
    BY <1>1, Roles DEF PcType, LoopPc, Threads, Callers, Movers
  <1>7. CallerType'
    <2>1. obj' \in [Callers -> {None} \cup Sessions]
      BY DEF NodeType, CallerType, OpenBegin, CloseBegin, Destruct, Close, Construct,
         ControlStep, OpenQueue, OpenStart, CloseQuit, CloseSay, CloseJoin, DestructJoin, CloseNull
    <2>2. \A w \in Writers : pc'[w] = pc[w] /\ obj'[w] = obj[w]
      <3>1. \A w \in Writers : w \in Threads /\ w # Control /\ w \notin Sessions /\ w \in Callers
        BY Roles DEF Movers, Callers
      <3>2. \A w \in Writers : obj'[w] = obj[w]
        BY <3>1 DEF CallerType, OpenBegin, CloseBegin, Destruct, Close, Construct,
         ControlStep, OpenQueue, OpenStart, CloseQuit, CloseSay, CloseJoin, DestructJoin, CloseNull
      <3> QED
        BY <1>1, <3>1, <3>2
    <2>3. \A s \in Sessions : obj'[s] = obj[s] /\ (pc'[s] = pc[s] \/ pc'[s] = "lp_start")
      BY <1>1, Roles DEF CallerType, OpenBegin, CloseBegin, Destruct, Close, Construct,
         ControlStep, OpenQueue, OpenStart, CloseQuit, CloseSay, CloseJoin, DestructJoin, CloseNull, Callers, Movers
    <2>4. pc'[Control] \in DisconnectPc => obj'[Control] # None
      BY Roles DEF DisconnectPc, ControlPc, Known, Closing, Goto, OpenBegin, CloseBegin, Destruct, Close, Construct,
         ControlStep, OpenQueue, OpenStart, CloseQuit, CloseSay, CloseJoin, DestructJoin, CloseNull
    <2> QED
      BY <2>1, <2>2, <2>3, <2>4 DEF CallerType, Movers, DisconnectPc
  <1>8. LoopType'
    <2>1. \A s \in Sessions : pc'[s] = pc[s] \/ (pc[s] = "none" /\ pc'[s] = "lp_start")
      BY <1>1, Roles
    <2> QED
      BY <1>2, <2>1 DEF LoopType, loopVars
  <1>9. ReadType'
    BY <1>2 DEF ReadType, readVars
  <1>10. HistoryType'
    <2>1. opens' \in 0..MaxOpens
      BY Bounds DEF HistoryType, OpenBegin, CloseBegin, Destruct, Close, Construct,
         ControlStep, OpenQueue, OpenStart, CloseQuit, CloseSay, CloseJoin, DestructJoin, CloseNull, historyVars
    <2>2. reopened' \in BOOLEAN
      BY DEF HistoryType, OpenBegin, CloseBegin, Destruct, Close, Construct, ControlStep, OpenQueue, OpenStart, CloseQuit, CloseSay, CloseJoin, DestructJoin, CloseNull,
         historyVars
    <2>3. away' \in BOOLEAN
      BY DEF HistoryType, OpenBegin, CloseBegin, Destruct, Close, Construct, ControlStep, OpenQueue, OpenStart, CloseQuit, CloseSay, CloseJoin, DestructJoin, CloseNull,
         historyVars
    <2>4. ended' \in {"no", "refused", "connected", "lost", "null", "misuse"}
      BY DEF HistoryType, OpenBegin, CloseBegin, Destruct, Close, Construct, ControlStep, OpenQueue, OpenStart, CloseQuit, CloseSay, CloseJoin, DestructJoin, CloseNull,
         Output, EndWith
    <2> QED
      BY <1>2, <2>1, <2>2, <2>3, <2>4 DEF HistoryType
  <1>11. Fresh'
    <2>1. SUFFICES ASSUME NEW s \in Sessions,
                          s > opens' \/ (s = opens' /\ pc'[Control] \in {"op_queue", "op_start"})
                   PROVE  pc'[s] = "none"
      BY DEF Fresh
    <2>2. opens \in Nat /\ s \in Nat
      BY Bounds DEF HistoryType, Sessions
    <2>3. opens' = opens \/ opens' = opens + 1
      BY DEF OpenBegin, CloseBegin, Destruct, Close, Construct, ControlStep, OpenQueue, OpenStart, CloseQuit, CloseSay, CloseJoin, DestructJoin, CloseNull, historyVars
    <2>4. pc'[Control] \in {"op_queue", "op_start"} =>
            opens' = opens + 1 \/ pc[Control] \in {"op_queue", "op_start"}
      BY Roles DEF Goto, OpenBegin, CloseBegin, Destruct, Close, Construct, ControlStep, OpenQueue, OpenStart, CloseQuit, CloseSay, CloseJoin, DestructJoin, CloseNull
    <2>5. pc'[s] = pc[s]
      BY <1>1, <2>1, <2>2, <2>3, Roles
    <2>6. s > opens \/ (s = opens /\ pc[Control] \in {"op_queue", "op_start"})
      BY <2>1, <2>2, <2>3, <2>4
    <2> QED
      BY <2>5, <2>6 DEF Fresh
  <1>12. Known'
    <2>1. pc'[Control] \in {"op_queue", "op_start"} => opens' # 0
      BY Roles DEF HistoryType, Known, Goto, OpenBegin, CloseBegin, Destruct, Close, Construct,
         ControlStep, OpenQueue, OpenStart, CloseQuit, CloseSay, CloseJoin, DestructJoin, CloseNull, historyVars
    <2>2. pc'[Control] \in Closing => conn' # None
      BY Roles DEF Known, Closing, DisconnectPc, Goto, OpenBegin, CloseBegin, Destruct, Close, Construct,
         ControlStep, OpenQueue, OpenStart, CloseQuit, CloseSay, CloseJoin, DestructJoin, CloseNull, nodeVars
    <2>3. pc'[Control] \in Closing \ {"cl_join"} => obj'[Control] # None
      BY Roles DEF Known, Closing, DisconnectPc, Goto, CallerType, Callers, Movers,
         OpenBegin, CloseBegin, Destruct, Close, Construct, ControlStep, OpenQueue, OpenStart, CloseQuit, CloseSay, CloseJoin, DestructJoin, CloseNull, nodeVars
    <2> QED
      BY <2>1, <2>2, <2>3 DEF Known
  <1>13. Made' /\ Halved'
    BY <1>2 DEF Made, Halved, loopVars
  <1> QED
    BY <1>1, <1>3, <1>4, <1>5, <1>6, <1>7, <1>8, <1>9, <1>10, <1>11, <1>12, <1>13

\* What is left of a sequence without its first elements.
LEMMA Cut ==
    ASSUME NEW S, NEW q \in Seq(S), NEW n \in 1..Len(q)
    PROVE  /\ SubSeq(q, n + 1, Len(q)) \in Seq(S)
           /\ Len(SubSeq(q, n + 1, Len(q))) = Len(q) - n
           /\ \A i \in 1..(Len(q) - n) : SubSeq(q, n + 1, Len(q))[i] = q[n + i]
  <1>1. n + 1 \in Int /\ Len(q) \in Int /\ \A i \in (n + 1)..Len(q) : q[i] \in S
    OBVIOUS
  <1>2. /\ SubSeq(q, n + 1, Len(q)) \in Seq(S)
        /\ Len(SubSeq(q, n + 1, Len(q))) = IF n + 1 <= Len(q) THEN Len(q) - (n + 1) + 1 ELSE 0
        /\ \A i \in 1..(Len(q) - (n + 1) + 1) : SubSeq(q, n + 1, Len(q))[i] = q[(n + 1) + i - 1]
    BY <1>1, SubSeqProperties
  <1>3. PICK r : r = SubSeq(q, n + 1, Len(q))
    OBVIOUS
  <1>4. r \in Seq(S) /\ Len(r) = Len(q) - n
    BY <1>2, <1>3
  <1>5. ASSUME NEW i \in 1..(Len(q) - n) PROVE r[i] = q[n + i]
    <2>1. i \in 1..(Len(q) - (n + 1) + 1) /\ (n + 1) + i - 1 = n + i
      OBVIOUS
    <2> QED
      BY <1>2, <1>3, <2>1
  <1> QED
    BY <1>3, <1>4, <1>5

\* What is left of a sequence without its first element.
LEMMA CutFirst ==
    ASSUME NEW S, NEW q \in Seq(S), q # <<>>
    PROVE  /\ Head(q) \in S /\ Head(q) = q[1] /\ Len(q) \in Nat \ {0}
           /\ Tail(q) \in Seq(S) /\ Len(Tail(q)) = Len(q) - 1
           /\ \A i \in 1..(Len(q) - 1) : Tail(q)[i] = q[i + 1]
           /\ Len(q) = 1 <=> Tail(q) = <<>>
  <1>1. Len(q) \in Nat \ {0} /\ Head(q) = q[1] /\ Head(q) \in S
    BY EmptySeq
  <1>2. /\ Tail(q) \in Seq(S) /\ Len(Tail(q)) = Len(q) - 1
        /\ \A i \in 1..(Len(q) - 1) : Tail(q)[i] = q[i + 1]
    BY HeadTailProperties
  <1>3. Len(Tail(q)) = 0 <=> Tail(q) = <<>>
    BY <1>2, EmptySeq
  <1> QED
    BY <1>1, <1>2, <1>3

\* Two halves further there is one of the same kind, and a second half is twice
\* its line.
LEMMA Halving ==
    /\ \A a, i \in Int : ((a - 2 * i) % 2 = 0) <=> (a % 2 = 0)
    /\ \A a \in Int : (a % 2 = 0) <=> ((a - 1) % 2 # 0)
    /\ \A h \in Int : h % 2 = 0 => 2 * (h \div 2) = h
    /\ \A h \in Int : h % 2 = 0 \/ h % 2 = 1
  OBVIOUS

\* Two halves more at the end of a sequence where they alternate.
LEMMA HalvedAppend ==
    ASSUME NEW q \in Seq(Halves), NEW r \in Seq(Halves), NEW n \in Int,
           Len(r) = Len(q) + 2,
           \A i \in 1..Len(q) : r[i] = q[i],
           r[Len(q) + 1] = 2 * n + 1, r[Len(q) + 2] = 2 * n + 2,
           \A i \in 1..Len(q) : (q[i] % 2 = 0) <=> ((Len(q) - i) % 2 = 0)
    PROVE  \A i \in 1..Len(r) : (r[i] % 2 = 0) <=> ((Len(r) - i) % 2 = 0)
  <1>1. PICK k \in Nat : k = Len(q)
    OBVIOUS
  <1>2. SUFFICES ASSUME NEW i \in 1..(k + 2)
                 PROVE  (r[i] % 2 = 0) <=> ((k + 2 - i) % 2 = 0)
    BY <1>1
  <1>3. CASE i \in 1..k
    <2>1. (q[i] % 2 = 0) <=> ((k - i) % 2 = 0)
      BY <1>1, <1>3
    <2>2. PICK a \in Int : a = k + 2 - i
      OBVIOUS
    <2>3. ((a - 2 * 1) % 2 = 0) <=> (a % 2 = 0)
      BY Halving
    <2>4. a - 2 * 1 = k - i
      BY <2>2
    <2> QED
      BY <1>1, <1>3, <2>1, <2>2, <2>3, <2>4
  <1>4. CASE i = k + 1
    <2>1. k + 2 - i = 1 /\ r[i] = 2 * n + 1
      BY <1>1, <1>4
    <2>2. 1 % 2 # 0 /\ (2 * n + 1) % 2 # 0
      OBVIOUS
    <2> QED
      BY <2>1, <2>2
  <1>5. CASE i = k + 2
    <2>1. k + 2 - i = 0 /\ r[i] = 2 * n + 2
      BY <1>1, <1>5
    <2>2. 0 % 2 = 0 /\ (2 * n + 2) % 2 = 0
      OBVIOUS
    <2> QED
      BY <2>1, <2>2
  <1> QED
    BY <1>3, <1>4, <1>5

\* LineOf gives a number of a line to each half, the same to both of a line.
LEMMA LinesOfHalves ==
    /\ \A h \in Halves : h \in Int /\ h >= 1 /\ LineOf(h) \in Int
    /\ \A h \in Halves : h % 2 = 0 => h - 1 \in Halves /\ 2 * LineOf(h) = h /\ 2 * LineOf(h - 1) = h
  BY Bounds DEF Halves, LineOf

\* The lines of w have their second halves at every other place of the first n of q.
Spread(w, q, n, off) ==
    \A i \in 1..Len(w) : off + 2 * i \in 1..n /\ 2 * LineOf(w[i]) = q[off + 2 * i]

\* So has what there is to parse of a chunk.
LEMMA RepliesAre ==
    ASSUME NEW q \in Seq(Halves), NEW n \in 1..Len(q),
           \A i \in 1..Len(q) : (q[i] % 2 = 0) <=> ((Len(q) - i) % 2 = 0),
           NEW w \in Replies(SubSeq(q, 1, n))
    PROVE  /\ w \in Seq(Halves)
           /\ \E off \in Int : Spread(w, q, n, off)
  <1>1. PICK chunk : chunk = SubSeq(q, 1, n)
    OBVIOUS
  <1>2. Len(chunk) = n /\ \A i \in 1..n : chunk[i] = q[i]
    BY <1>1
  <1>3. PICK torn \in {0, 1} : torn = IF chunk[1] % 2 = 0 THEN 1 ELSE 0
    OBVIOUS
  <1>4. PICK k : k = (n - torn) \div 2
    OBVIOUS
  <1>5. k \in Nat /\ torn + 2 * k <= n
    BY <1>3, <1>4
  <1>6. PICK whole : whole = [i \in 1..k |-> chunk[torn + 2 * i] - 1]
    OBVIOUS
  <1>7. w \in IF torn = 0 THEN {whole}
              ELSE {<<chunk[1]>> \o whole, IF whole = <<>> THEN whole ELSE Tail(whole)}
    BY <1>1, <1>2, <1>3, <1>4, <1>6 DEF Replies
  <1>8. \A i \in 1..n : q[i] \in Halves /\ q[i] \in Int
    BY LinesOfHalves
  <1>9. torn = 1 => q[1] % 2 = 0
    BY <1>2, <1>3
  <1>10. ASSUME NEW i \in 1..k
         PROVE  /\ torn + 2 * i \in 1..n
                /\ q[torn + 2 * i] % 2 = 0
    <2>1. torn + 2 * i \in 1..n /\ torn + 2 * i \in 1..Len(q) /\ 1 \in 1..Len(q)
      BY <1>3, <1>5
    <2>2. q[1] \in Int /\ chunk[1] = q[1]
      BY <1>2, <1>8
    <2>3. torn = 1 <=> (Len(q) - 1) % 2 = 0
      BY <1>3, <2>1, <2>2
    <2>4. (Len(q) - torn) % 2 = 0
      <3>1. CASE torn = 1
        BY <2>3, <3>1
      <3>2. CASE torn = 0
        BY <2>3, <3>2, Halving
      <3> QED
        BY <1>3, <3>1, <3>2
    <2>5. (Len(q) - (torn + 2 * i)) % 2 = 0
      <3>1. Len(q) - (torn + 2 * i) = (Len(q) - torn) - 2 * i
        BY <1>3
      <3>2. Len(q) - torn \in Int /\ i \in Int
        BY <1>3
      <3> QED
        BY <2>4, <3>1, <3>2, Halving
    <2> QED
      BY <2>1, <2>5
  <1>11. /\ whole \in Seq(Halves) /\ Len(whole) = k
         /\ \A i \in 1..k : torn + 2 * i \in 1..n /\ 2 * LineOf(whole[i]) = q[torn + 2 * i]
    <2>1. ASSUME NEW i \in 1..k
          PROVE  /\ whole[i] \in Halves /\ torn + 2 * i \in 1..n
                 /\ 2 * LineOf(whole[i]) = q[torn + 2 * i]
      <3>1. PICK h \in Halves : h = q[torn + 2 * i] /\ h % 2 = 0
        BY <1>8, <1>10
      <3>2. whole[i] = h - 1
        BY <1>2, <1>6, <1>10, <3>1
      <3> QED
        BY <1>10, <3>1, <3>2, LinesOfHalves
    <2> QED
      BY <1>5, <1>6, <2>1
  <1>12. CASE w = whole /\ torn = 0
    <2>1. Spread(w, q, n, 0)
      BY <1>11, <1>12 DEF Spread
    <2> QED
      BY <1>11, <1>12, <2>1
  <1>13. CASE w = <<>>
    <2>1. w \in Seq(Halves) /\ Len(w) = 0
      BY <1>13
    <2>2. Spread(w, q, n, 0)
      BY <2>1 DEF Spread
    <2> QED
      BY <2>1, <2>2
  <1>14. CASE torn = 1 /\ w = <<chunk[1]>> \o whole
    <2>1. chunk[1] = q[1] /\ q[1] \in Halves /\ 1 \in 1..n /\ 2 * LineOf(q[1]) = q[1]
      <3>1. 1 \in 1..n
        OBVIOUS
      <3>2. PICK h \in Halves : h = q[1] /\ h % 2 = 0 /\ h = chunk[1]
        BY <1>2, <1>8, <1>9, <1>14, <3>1
      <3> QED
        BY <3>1, <3>2, LinesOfHalves
    <2>2. /\ w \in Seq(Halves) /\ Len(w) = k + 1 /\ w[1] = q[1]
          /\ \A i \in 2..(k + 1) : w[i] = whole[i - 1]
      BY <1>5, <1>11, <1>14, <2>1
    <2>3. ASSUME NEW i \in 1..(k + 1)
          PROVE  -1 + 2 * i \in 1..n /\ 2 * LineOf(w[i]) = q[-1 + 2 * i]
      <3>1. CASE i = 1
        BY <2>1, <2>2, <3>1
      <3>2. CASE i # 1
        <4>1. PICK j \in 1..k : j = i - 1
          BY <1>5, <3>2
        <4>2. w[i] = whole[j] /\ torn + 2 * j = -1 + 2 * i
          BY <1>5, <1>14, <2>2, <3>2, <4>1
        <4> QED
          BY <1>11, <4>1, <4>2
      <3> QED
        BY <3>1, <3>2
    <2>4. Spread(w, q, n, -1)
      BY <2>2, <2>3 DEF Spread
    <2> QED
      BY <2>2, <2>4
  <1>15. CASE torn = 1 /\ whole # <<>> /\ w = Tail(whole)
    <2>1. /\ w \in Seq(Halves) /\ Len(w) = k - 1
          /\ \A i \in 1..(k - 1) : w[i] = whole[i + 1]
      BY <1>11, <1>15, CutFirst
    <2>2. ASSUME NEW i \in 1..(k - 1)
          PROVE  3 + 2 * i \in 1..n /\ 2 * LineOf(w[i]) = q[3 + 2 * i]
      <3>1. PICK j \in 1..k : j = i + 1
        BY <1>5
      <3>2. w[i] = whole[j] /\ torn + 2 * j = 3 + 2 * i
        BY <1>5, <1>15, <2>1, <3>1
      <3> QED
        BY <1>11, <3>1, <3>2
    <2>3. Spread(w, q, n, 3)
      BY <2>1, <2>2 DEF Spread
    <2> QED
      BY <2>1, <2>3
  <1> QED
    BY <1>3, <1>7, <1>12, <1>13, <1>14, <1>15

\* What disconnect() leaves alone, whoever calls it.
LEMMA DisconnectFrame ==
    ASSUME NEW t \in Movers, Disconnect(t)
    PROVE  UNCHANGED <<nodeVars, dataout, irc_socket, deleted, serverVars, obj, loopVars, readVars,
                       given, historyVars>>
  BY DEF Disconnect, DisconnectCheck, DisconnectFclose, DisconnectMark, DisconnectSocket, ircVars

\* Where it goes.
LEMMA DisconnectMoves ==
    ASSUME TypeInv, NEW t \in Movers, Disconnect(t)
    PROVE  /\ pc' \in [Threads -> Labels]
           /\ pc[t] \in DisconnectPc
           /\ pc'[t] \in DisconnectPc \/ pc'[t] = IF t = Control THEN "cl_join" ELSE "lp_start"
           /\ \A u \in Threads \ {t} : pc'[u] = pc[u]
  <1>1. t \in Threads /\ pc \in [Threads -> Labels]
    BY Roles DEF TypeInv
  <1>2. \E l \in DisconnectPc \cup {IF t = Control THEN "cl_join" ELSE "lp_start"} : Goto(t, l)
    BY DEF Disconnect, DisconnectCheck, DisconnectFclose, DisconnectMark, DisconnectSocket,
       Disconnected, DisconnectPc
  <1>3. pc[t] \in DisconnectPc
    BY DEF Disconnect, DisconnectCheck, DisconnectFclose, DisconnectMark, DisconnectSocket,
       DisconnectPc
  <1>4. DisconnectPc \cup {"cl_join", "lp_start"} \subseteq Labels
    BY DEF Labels, ControlPc, LoopPc
  <1> QED
    BY <1>1, <1>2, <1>3, <1>4, Moves

\* disconnect() keeps the types.
LEMMA DisconnectTypeStep ==
    ASSUME TypeInv, NEW t \in Movers, Disconnect(t)
    PROVE  TypeInv'
  <1> USE DEF TypeInv, TypeOK
  <1>1. UNCHANGED <<nodeVars, dataout, irc_socket, deleted, serverVars, obj, loopVars, readVars,
                    given, historyVars>>
    BY DisconnectFrame
  <1>2. /\ pc' \in [Threads -> Labels]
        /\ pc[t] \in DisconnectPc
        /\ pc'[t] \in DisconnectPc \/ pc'[t] = IF t = Control THEN "cl_join" ELSE "lp_start"
        /\ \A u \in Threads \ {t} : pc'[u] = pc[u]
    BY DisconnectMoves
  <1>3. NodeType' /\ ServerType' /\ ReadType'
    BY <1>1 DEF NodeType, ServerType, ReadType, nodeVars, serverVars, readVars
  <1>4. IrcType'
    <2>1. connected' \in [Sessions -> BOOLEAN]
      BY DEF IrcType, Disconnect, DisconnectCheck, DisconnectFclose, DisconnectMark,
         DisconnectSocket, ircVars
    <2> QED
      BY <1>1, <2>1 DEF IrcType
  <1>5. KernelType'
    <2>1. fds' \subseteq fds /\ files' \subseteq files /\ logs' = logs
      BY DEF Disconnect, DisconnectCheck, DisconnectFclose, DisconnectMark, DisconnectSocket,
         kernelVars
    <2> QED
      BY <1>1, <2>1 DEF KernelType, serverVars
  <1>6. PcType'
    <2>1. pc'[Control] \in ControlPc \cup DisconnectPc
      BY <1>2, Roles DEF PcType, ControlPc
    <2>2. \A s \in Sessions : pc'[s] \in LoopPc \cup DisconnectPc
      BY <1>2, Roles DEF PcType, LoopPc
    <2>3. \A u \in Readers \cup Writers : pc'[u] = pc[u]
      BY <1>2, Roles DEF Callers
    <2> QED
      BY <2>1, <2>2, <2>3 DEF PcType
  <1>7. CallerType'
    BY <1>1, <1>2, Roles DEF CallerType
  <1>8. LoopType'
    BY <1>1, <1>2, Roles DEF LoopType, DisconnectPc, loopVars
  <1>9. HistoryType'
    <2>1. ended' \in {"no", "refused", "connected", "lost", "null", "misuse"}
      BY DEF HistoryType, Disconnect, DisconnectCheck, DisconnectFclose, DisconnectMark,
         DisconnectSocket, Output, EndWith
    <2> QED
      BY <1>1, <2>1 DEF HistoryType, historyVars
  <1>10. Fresh'
    BY <1>1, <1>2, Roles DEF Fresh, DisconnectPc, historyVars, Movers
  <1>11. Known'
    BY <1>1, <1>2, Roles DEF Known, Closing, DisconnectPc, CallerType, historyVars, nodeVars
  <1>12. Made' /\ Halved'
    BY <1>1 DEF Made, Halved, loopVars, serverVars
  <1> QED
    BY <1>2, <1>3, <1>4, <1>5, <1>6, <1>7, <1>8, <1>9, <1>10, <1>11, <1>12

\* What a looper leaves alone.
LEMMA LooperFrame ==
    ASSUME NEW l \in Sessions, LooperStep(l) \/ LoopError(l)
    PROVE  UNCHANGED <<nodeVars, deleted, hup, quits, sent, source, keeps, historyVars>>
  BY DEF LooperStep, LoopLost, LoopStart, LoopConnect, LoopMark, LoopHello, LoopMessages,
       LoopRecv, LoopData, LoopHangup, LoopError, LoopParse, LoopEnd, LoopDisconnect,
     serverVars, readVars

\* Where it goes.
LEMMA LooperMoves ==
    ASSUME TypeInv, NEW l \in Sessions, LooperStep(l) \/ LoopError(l)
    PROVE  /\ pc' \in [Threads -> Labels]
           /\ pc[l] \in LoopPc \ {"none", "done"}
           /\ pc'[l] \in (LoopPc \ {"none", "lp_start"}) \cup {"dc_check"} \/ pc'[l] = pc[l]
           /\ \A u \in Threads \ {l} : pc'[u] = pc[u]
  <1>1. l \in Threads /\ pc \in [Threads -> Labels]
    BY Roles DEF TypeInv
  <1>2. \/ UNCHANGED pc
        \/ \E label \in (LoopPc \ {"none", "lp_start"}) \cup {"dc_check"} : Goto(l, label)
    BY DEF LooperStep, LoopLost, LoopStart, LoopConnect, LoopMark, LoopHello, LoopMessages,
       LoopRecv, LoopData, LoopHangup, LoopError, LoopParse, LoopEnd, LoopDisconnect,
       LoopPc
  <1>3. pc[l] \in LoopPc \ {"none", "done"}
    BY DEF LooperStep, LoopLost, LoopStart, LoopConnect, LoopMark, LoopHello, LoopMessages,
       LoopRecv, LoopData, LoopHangup, LoopError, LoopParse, LoopEnd, LoopDisconnect,
       LoopPc
  <1>4. LoopPc \cup {"dc_check"} \subseteq Labels
    BY DEF Labels, DisconnectPc
  <1> QED
    BY <1>1, <1>2, <1>3, <1>4 DEF Goto

\* What a looper gets out of a chunk, and what it leaves.
LEMMA LooperData ==
    ASSUME TypeInv, NEW l \in Sessions, LoopData(l)
    PROVE  \E n \in 1..Len(inq[lconn[l]]), off \in Int :
             /\ lconn[l] \in Conns
             /\ inq' = [inq EXCEPT ![lconn[l]] = SubSeq(inq[lconn[l]], n + 1, Len(inq[lconn[l]]))]
             /\ lines'[l] \in Seq(Halves)
             /\ lines' = [lines EXCEPT ![l] = lines'[l]]
             /\ Spread(lines'[l], inq[lconn[l]], n, off)
             /\ Goto(l, IF lines'[l] = <<>> THEN "lp_recv" ELSE "lp_parse")
  <1> USE DEF TypeInv, TypeOK
  <1>1. lconn[l] \in Conns
    BY DEF LoopData, LoopType, PcType
  <1>2. PICK q : q = inq[lconn[l]]
    OBVIOUS
  <1>3. /\ q \in Seq(Halves)
        /\ \A i \in 1..Len(q) : (q[i] % 2 = 0) <=> ((Len(q) - i) % 2 = 0)
    BY <1>1, <1>2 DEF ServerType, Halved
  <1>4. PICK n \in 1..Len(q) :
          /\ inq' = [inq EXCEPT ![lconn[l]] = SubSeq(q, n + 1, Len(q))]
          /\ \E replies \in Replies(SubSeq(q, 1, n)) :
               /\ lines' = [lines EXCEPT ![l] = replies]
               /\ Goto(l, IF replies = <<>> THEN "lp_recv" ELSE "lp_parse")
    BY <1>1, <1>2 DEF LoopData, ServerType
  <1>5. lines'[l] \in Replies(SubSeq(q, 1, n))
    BY <1>4 DEF LoopType
  <1>6. /\ lines'[l] \in Seq(Halves)
        /\ \E off \in Int : Spread(lines'[l], q, n, off)
    BY <1>3, <1>5, RepliesAre
  <1>7. lines' = [lines EXCEPT ![l] = lines'[l]]
    BY <1>4 DEF LoopType
  <1>8. Goto(l, IF lines'[l] = <<>> THEN "lp_recv" ELSE "lp_parse")
    BY <1>4 DEF LoopType
  <1>9. PICK off \in Int : Spread(lines'[l], q, n, off)
    BY <1>6
  <1>10. lines'[l] \in Seq(Halves)
    BY <1>6
  <1>11. n \in 1..Len(inq[lconn[l]])
    BY <1>2
  <1> WITNESS n \in 1..Len(inq[lconn[l]]), off \in Int
  <1> QED
    BY <1>1, <1>2, <1>4, <1>7, <1>8, <1>9, <1>10

\* A looper keeps the types.
LEMMA LooperTypeStep ==
    ASSUME TypeInv, NEW l \in Sessions, LooperStep(l) \/ LoopError(l)
    PROVE  TypeInv'
  <1> USE DEF TypeInv, TypeOK
  <1>0. l \in Callers /\ l \in Threads
    BY Roles DEF Callers, Movers
  <1>1. UNCHANGED <<nodeVars, deleted, hup, quits, sent, source, keeps, historyVars>>
    BY LooperFrame
  <1>2. /\ pc' \in [Threads -> Labels]
        /\ pc[l] \in LoopPc \ {"none", "done"}
        /\ pc'[l] \in (LoopPc \ {"none", "lp_start"}) \cup {"dc_check"} \/ pc'[l] = pc[l]
        /\ \A u \in Threads \ {l} : pc'[u] = pc[u]
    BY LooperMoves
  <1>3. NodeType'
    BY <1>1 DEF NodeType, nodeVars
  <1>4. /\ UNCHANGED <<conns, dataout, irc_socket, fds, files>>
        \/ (/\ conns < MaxConns /\ conns' = conns + 1
            /\ irc_socket' = [irc_socket EXCEPT ![obj[l]] = conns + 1]
            /\ dataout' = [dataout EXCEPT ![obj[l]] = conns + 1]
            /\ fds' = fds \cup {conns + 1}
            /\ files' = files \cup {conns + 1})
    BY DEF LooperStep, LoopLost, LoopStart, LoopConnect, LoopMark, LoopHello, LoopMessages,
       LoopRecv, LoopData, LoopHangup, LoopError, LoopParse, LoopEnd, LoopDisconnect,
       serverVars, ircVars, kernelVars
  <1>5. conns \in Nat /\ (conns < MaxConns => conns + 1 \in Conns /\ conns + 1 \in 0..MaxConns)
    BY Bounds DEF ServerType, Conns
  <1>6. IrcType'
    <2>1. connected' \in [Sessions -> BOOLEAN]
      BY DEF IrcType, LooperStep, LoopLost, LoopStart, LoopConnect, LoopMark, LoopHello, LoopMessages,
       LoopRecv, LoopData, LoopHangup, LoopError, LoopParse, LoopEnd, LoopDisconnect,
         ircVars
    <2> QED
      BY <1>1, <1>4, <1>5, <2>1 DEF IrcType
  <1>7. KernelType'
    <2>0. logs' = logs
      BY DEF LooperStep, LoopLost, LoopStart, LoopConnect, LoopMark, LoopHello, LoopMessages,
         LoopRecv, LoopData, LoopHangup, LoopError, LoopParse, LoopEnd, LoopDisconnect, kernelVars
    <2>1. CASE UNCHANGED <<conns, fds, files>>
      BY <2>0, <2>1 DEF KernelType
    <2>2. CASE conns' = conns + 1 /\ fds' = fds \cup {conns + 1} /\ files' = files \cup {conns + 1}
      BY <1>5, <2>0, <2>2 DEF KernelType
    <2> QED
      BY <1>4, <2>1, <2>2
  <1>8. ServerType' /\ Halved'
    <2>1. conns' \in 0..MaxConns /\ 1..conns \subseteq 1..conns'
      BY <1>4, <1>5 DEF ServerType
    <2>2. CASE LoopData(l)
      <3>1. PICK n \in 1..Len(inq[lconn[l]]) :
              /\ lconn[l] \in Conns
              /\ inq' = [inq EXCEPT ![lconn[l]] = SubSeq(inq[lconn[l]], n + 1, Len(inq[lconn[l]]))]
        BY <2>2, LooperData
      <3>2. PICK c, q, r : c \in Conns /\ c = lconn[l] /\ q = inq[c] /\ r = SubSeq(q, n + 1, Len(q))
        BY <3>1
      <3>3. q \in Seq(Halves) /\ n \in 1..Len(q)
        BY <3>1, <3>2 DEF ServerType
      <3>4. r \in Seq(Halves) /\ Len(r) = Len(q) - n /\ \A i \in 1..Len(r) : r[i] = q[n + i]
        BY <3>2, <3>3, Cut
      <3>5. inq' = [inq EXCEPT ![c] = r]
        BY <3>1, <3>2
      <3>6. ServerType'
        BY <1>1, <2>1, <3>4, <3>5 DEF ServerType
      <3>7. \A i \in 1..Len(r) : (r[i] % 2 = 0) <=> ((Len(r) - i) % 2 = 0)
        <4>1. \A i \in 1..Len(r) : n + i \in 1..Len(q) /\ Len(r) - i = Len(q) - (n + i)
          BY <3>3, <3>4
        <4>2. \A i \in 1..Len(q) : (q[i] % 2 = 0) <=> ((Len(q) - i) % 2 = 0)
          BY <3>2 DEF Halved
        <4> QED
          BY <3>4, <4>1, <4>2
      <3>8. \A d \in Conns : inq'[d] = IF d = c THEN r ELSE inq[d]
        BY <3>5 DEF ServerType
      <3>9. Halved'
        <4> SUFFICES ASSUME NEW d \in Conns, NEW i \in 1..Len(inq'[d])
                     PROVE  (inq'[d][i] % 2 = 0) <=> ((Len(inq'[d]) - i) % 2 = 0)
          BY DEF Halved
        <4>1. CASE d = c
          BY <3>7, <3>8, <4>1
        <4>2. CASE d # c
          BY <3>8, <4>2 DEF Halved
        <4> QED
          BY <4>1, <4>2
      <3> QED
        BY <3>6, <3>9
    <2>3. CASE ~LoopData(l)
      <3>1. UNCHANGED inq
        BY <2>3 DEF LooperStep, LoopLost, LoopStart, LoopConnect, LoopMark, LoopHello, LoopMessages,
       LoopRecv, LoopData, LoopHangup, LoopError, LoopParse, LoopEnd, LoopDisconnect,
           serverVars
      <3> QED
        BY <1>1, <2>1, <3>1 DEF ServerType, Halved
    <2> QED
      BY <2>2, <2>3
  <1>9. PcType'
    <2>1. pc'[l] \in LoopPc \cup DisconnectPc
      BY <1>2 DEF LoopPc, DisconnectPc
    <2>2. \A u \in (Readers \cup Writers) \cup (Movers \ {l}) : u # l /\ u \in Threads
      BY Roles DEF Movers, Callers
    <2>3. \A u \in (Readers \cup Writers) \cup (Movers \ {l}) : pc'[u] = pc[u]
      BY <1>2, <2>2
    <2>4. Control \in Movers \ {l} /\ \A s \in Sessions : s = l \/ s \in Movers \ {l}
      BY Roles DEF Movers
    <2> QED
      BY <2>1, <2>3, <2>4 DEF PcType
  <1>10. CallerType'
    <2>1. obj' = obj \/ (conn # None /\ obj' = [obj EXCEPT ![l] = conn])
      BY DEF LooperStep, LoopLost, LoopStart, LoopConnect, LoopMark, LoopHello, LoopMessages,
       LoopRecv, LoopData, LoopHangup, LoopError, LoopParse, LoopEnd, LoopDisconnect
    <2>2. pc'[l] \in DisconnectPc => obj'[l] # None
      <3>1. pc'[l] \in DisconnectPc => LoopDisconnect(l)
        BY <1>0 DEF LooperStep, LoopLost, LoopStart, LoopConnect, LoopMark, LoopHello, LoopMessages,
       LoopRecv, LoopData, LoopHangup, LoopError, LoopParse, LoopEnd, LoopDisconnect,
           Goto, DisconnectPc
      <3> QED
        BY <1>0, <3>1 DEF LoopDisconnect, CallerType
    <2>3. \A w \in Writers : w # l /\ w \in Threads /\ w \in Callers
      BY Roles DEF Movers, Callers
    <2>4. \A t \in Movers : t \in Callers /\ t \in Threads
      BY Roles DEF Callers
    <2>5. \A w \in Writers : pc'[w] = pc[w] /\ obj'[w] = obj[w]
      BY <1>2, <2>1, <2>3 DEF CallerType
    <2>6. \A t \in Movers \ {l} : pc'[t] = pc[t] /\ obj'[t] = obj[t]
      BY <1>2, <2>1, <2>4 DEF CallerType
    <2>7. obj' \in [Callers -> {None} \cup Sessions]
      BY <2>1 DEF CallerType, NodeType
    <2> QED
      BY <2>2, <2>5, <2>6, <2>7 DEF CallerType
  <1>11. LoopType' /\ Made'
    <2>0. \A s \in Sessions \ {l} : pc'[s] = pc[s]
      BY <1>2, Roles
    <2>1. CASE LoopData(l)
      <3>1. /\ lines'[l] \in Seq(Halves)
            /\ lines' = [lines EXCEPT ![l] = lines'[l]]
            /\ Goto(l, IF lines'[l] = <<>> THEN "lp_recv" ELSE "lp_parse")
        BY <2>1, LooperData
      <3>2. pc'[l] = IF lines'[l] = <<>> THEN "lp_recv" ELSE "lp_parse"
        BY <1>0, <3>1 DEF Goto
      <3>3. lconn' = [lconn EXCEPT ![l] = None]
        BY <2>1 DEF LoopData
      <3>4. /\ lines' \in [Sessions -> Seq(Halves)]
            /\ \A s \in Sessions \ {l} : lines'[s] = lines[s]
        BY <3>1 DEF LoopType
      <3>5. conns' = conns
        BY <2>1 DEF LoopData
      <3>6. /\ lconn' \in [Sessions -> {None} \cup Conns] /\ lconn'[l] = None
            /\ \A s \in Sessions \ {l} : lconn'[s] = lconn[s]
        BY <3>3 DEF LoopType
      <3>7. Made'
        BY <1>5, <3>5, <3>6 DEF Made, None
      <3>8. \A s \in Sessions : pc'[s] = "lp_wait" <=> lconn'[s] # None
        BY <2>0, <3>2, <3>6 DEF LoopType
      <3>9. \A s \in Sessions : pc'[s] = "lp_parse" <=> lines'[s] # <<>>
        BY <2>0, <3>2, <3>4 DEF LoopType
      <3> QED
        BY <3>4, <3>6, <3>7, <3>8, <3>9 DEF LoopType
    <2>2. CASE LoopParse(l)
      <3>0. lines[l] \in Seq(Halves) /\ lines[l] # <<>>
        BY <2>2 DEF LoopParse, LoopType
      <3>1. lines' = [lines EXCEPT ![l] = Tail(lines[l])]
        BY <2>2 DEF LoopParse, LoopType
      <3>2. pc'[l] = IF Len(lines[l]) = 1 THEN "lp_recv" ELSE "lp_parse"
        BY <1>0, <2>2 DEF LoopParse, Goto
      <3>3. Tail(lines[l]) \in Seq(Halves) /\ (Len(lines[l]) = 1 <=> Tail(lines[l]) = <<>>)
        BY <3>0, CutFirst
      <3>4. lconn' = lconn /\ conns' = conns
        BY <2>2 DEF LoopParse, serverVars
      <3>5. pc[l] = "lp_parse"
        BY <2>2 DEF LoopParse
      <3> QED
        BY <2>0, <3>1, <3>2, <3>3, <3>4, <3>5 DEF LoopType, Made
    <2>3. CASE LoopRecv(l)
      <3>1. CASE irc_socket[obj[l]] \in fds /\ Goto(l, "lp_wait")
                 /\ lconn' = [lconn EXCEPT ![l] = irc_socket[obj[l]]]
        <4>1. PICK c : c = irc_socket[obj[l]]
          OBVIOUS
        <4>2. c \in Conns /\ c # None /\ c <= conns
          <5>1. c \in 1..conns /\ conns \in 0..MaxConns
            BY <3>1, <4>1 DEF KernelType, ServerType
          <5> QED
            BY <5>1, Bounds DEF Conns, None
        <4>3. pc'[l] = "lp_wait" /\ pc[l] = "lp_recv"
          BY <1>0, <2>3, <3>1 DEF Goto, LoopRecv
        <4>4. lines' = lines /\ conns' = conns
          BY <2>3 DEF LoopRecv, serverVars
        <4>5. lconn' \in [Sessions -> {None} \cup Conns] /\ lconn'[l] = c
              /\ \A s \in Sessions \ {l} : lconn'[s] = lconn[s]
          BY <3>1, <4>1, <4>2 DEF LoopType
        <4> QED
          BY <2>0, <4>2, <4>3, <4>4, <4>5 DEF LoopType, Made
      <3>2. CASE Goto(l, "lp_end") /\ UNCHANGED lconn
        <4>1. pc'[l] = "lp_end" /\ pc[l] = "lp_recv"
          BY <1>0, <2>3, <3>2 DEF Goto, LoopRecv
        <4>2. lines' = lines /\ conns' = conns
          BY <2>3 DEF LoopRecv, serverVars
        <4> QED
          BY <2>0, <3>2, <4>1, <4>2 DEF LoopType, Made
      <3> QED
        BY <2>3, <3>1, <3>2 DEF LoopRecv
    <2>4. CASE LoopHangup(l) \/ LoopError(l)
      <3>1. pc'[l] = "lp_end" /\ pc[l] = "lp_wait"
        BY <1>0, <2>4 DEF Goto, LoopHangup, LoopError
      <3>2. lconn' = [lconn EXCEPT ![l] = None] /\ lines' = lines /\ conns' = conns
        BY <2>4 DEF LoopHangup, LoopError, serverVars
      <3>3. /\ lconn' \in [Sessions -> {None} \cup Conns] /\ lconn'[l] = None
            /\ \A s \in Sessions \ {l} : lconn'[s] = lconn[s]
        BY <3>2 DEF LoopType
      <3>4. Made'
        BY <1>5, <3>2, <3>3 DEF Made, None
      <3>5. LoopType'
        BY <2>0, <3>1, <3>2, <3>3 DEF LoopType
      <3> QED
        BY <3>4, <3>5
    <2>5. CASE ~LoopData(l) /\ ~LoopParse(l) /\ ~LoopRecv(l) /\ ~LoopHangup(l) /\ ~LoopError(l)
      <3>1. UNCHANGED loopVars
        BY <2>5 DEF LooperStep, LoopLost, LoopStart, LoopConnect, LoopMark, LoopHello, LoopMessages, LoopEnd,
           LoopDisconnect
      <3>2. UNCHANGED pc \/ (pc[l] \notin {"lp_wait", "lp_parse"} /\ pc'[l] \notin {"lp_wait", "lp_parse"})
        BY <1>0, <2>5 DEF LooperStep, LoopLost, LoopStart, LoopConnect, LoopMark, LoopHello, LoopMessages,
           LoopEnd, LoopDisconnect, Goto
      <3>3. conns <= conns'
        BY <1>4, <1>5
      <3>4. \A s \in Sessions : lconn[s] \in Nat
        BY Bounds DEF LoopType, Conns, None
      <3>5. conns' \in Nat
        BY <1>4, <1>5
      <3>6. LoopType'
        BY <2>0, <3>1, <3>2 DEF LoopType, loopVars
      <3>7. Made'
        BY <1>5, <3>1, <3>3, <3>4, <3>5 DEF Made, loopVars
      <3> QED
        BY <3>6, <3>7
    <2> QED
      BY <2>1, <2>2, <2>3, <2>4, <2>5
  <1>12. ReadType'
    <2>1. CASE LoopParse(l) /\ qvp # None
      <3>1. PICK m : m = Head(lines[l])
        OBVIOUS
      <3>2. m \in Halves
        BY <2>1, <3>1, CutFirst DEF LoopParse, LoopType
      <3>3. UNCHANGED <<queue, given>>
            \/ (/\ queue' = [queue EXCEPT ![qvp] = Append(queue[qvp], m)]
                /\ given' = [given EXCEPT ![qvp] = Append(given[qvp], m)])
        BY <2>1, <3>1 DEF LoopParse, ReadType
      <3>4. qvp \in Sessions
        BY <2>1 DEF NodeType
      <3>5. queue[qvp] \in Seq(Halves) /\ given[qvp] \in Seq(Halves)
        BY <3>4 DEF ReadType
      <3>6. Append(queue[qvp], m) \in Seq(Halves) /\ Append(given[qvp], m) \in Seq(Halves)
        BY <3>2, <3>5, AppendProperties
      <3>7. queue' \in [Sessions -> Seq(Halves)] /\ given' \in [Sessions -> Seq(Halves)]
        <4>1. PICK a, b : a = Append(queue[qvp], m) /\ b = Append(given[qvp], m)
          OBVIOUS
        <4>2. a \in Seq(Halves) /\ b \in Seq(Halves)
          BY <3>6, <4>1
        <4>3. \/ UNCHANGED <<queue, given>>
              \/ queue' = [queue EXCEPT ![qvp] = a] /\ given' = [given EXCEPT ![qvp] = b]
          BY <3>3, <4>1
        <4>4. queue \in [Sessions -> Seq(Halves)] /\ given \in [Sessions -> Seq(Halves)]
          BY DEF ReadType
        <4>5. ASSUME NEW S, NEW f \in [Sessions -> S], NEW x \in S
              PROVE  [f EXCEPT ![qvp] = x] \in [Sessions -> S]
          OBVIOUS
        <4> QED
          BY ONLY <4>2, <4>3, <4>4, <4>5
      <3> QED
        BY <1>1, <3>7 DEF ReadType
    <2>2. CASE ~(LoopParse(l) /\ qvp # None)
      <3>1. UNCHANGED <<queue, given>>
        BY <2>2 DEF LooperStep, LoopLost, LoopStart, LoopConnect, LoopMark, LoopHello, LoopMessages,
       LoopRecv, LoopData, LoopHangup, LoopError, LoopParse, LoopEnd, LoopDisconnect,
           readVars
      <3> QED
        BY <1>1, <3>1 DEF ReadType
    <2> QED
      BY <2>1, <2>2
  <1>13. HistoryType'
    <2>1. ended' \in {"no", "refused", "connected", "lost", "null", "misuse"}
      BY DEF HistoryType, Output, EndWith, LooperStep, LoopLost, LoopStart, LoopConnect, LoopMark, LoopHello, LoopMessages,
       LoopRecv, LoopData, LoopHangup, LoopError, LoopParse, LoopEnd, LoopDisconnect
    <2> QED
      BY <1>1, <2>1 DEF HistoryType, historyVars
  <1>14. Fresh' /\ Known'
    <2>0. Control \in Threads \ {l} /\ \A s \in Sessions : s \in Threads
      BY Roles
    <2>1. pc'[Control] = pc[Control] /\ \A s \in Sessions \ {l} : pc'[s] = pc[s]
      BY <1>2, <2>0
    <2>2. pc[l] # "none"
      BY <1>2
    <2>3. opens' = opens /\ conn' = conn
      BY <1>1 DEF historyVars, nodeVars
    <2>4. obj'[Control] = obj[Control]
      BY <2>0 DEF LooperStep, LoopLost, LoopStart, LoopConnect, LoopMark, LoopHello, LoopMessages,
       LoopRecv, LoopData, LoopHangup, LoopError, LoopParse, LoopEnd, LoopDisconnect,
         CallerType, Callers, Movers
    <2> QED
      BY <2>1, <2>2, <2>3, <2>4 DEF Fresh, Known
  <1> QED
    BY <1>2, <1>3, <1>6, <1>7, <1>8, <1>9, <1>10, <1>11, <1>12, <1>13, <1>14

\* What a writer leaves alone, and where it goes; also a caller that works on
\* an object that has been deleted.
LEMMA WriterFrame ==
    ASSUME NEW w, \/ w \in Writers /\ (WriteBegin(w) \/ WriteOut(w) \/ WritePrint(w))
                  \/ UseDeleted(w)
    PROVE  UNCHANGED <<nodeVars, ircVars, deleted, kernelVars, serverVars, loopVars, readVars,
                       given, historyVars>>
  BY DEF WriteBegin, WriteOut, WritePrint, UseDeleted

\* Both keep the types, and move nobody but a writer.
LEMMA WriterTypeStep ==
    ASSUME TypeInv, NEW w, \/ w \in Writers /\ (WriteBegin(w) \/ WriteOut(w) \/ WritePrint(w))
                           \/ UseDeleted(w)
    PROVE  TypeInv' /\ \A t \in Movers : pc'[t] = pc[t] /\ obj'[t] = obj[t]
  <1> USE DEF TypeInv, TypeOK
  <1>1. UNCHANGED <<nodeVars, ircVars, deleted, kernelVars, serverVars, loopVars, readVars, given,
                    historyVars>>
    BY WriterFrame
  <1>2. \A u \in Movers \cup Readers : u \notin Writers /\ u \in Threads
    BY Roles
  <1>3. UNCHANGED <<pc, obj>> \/ (w \in Writers /\ \E l \in {"idle", "wr_print"}, c \in {None} \cup Sessions :
            /\ l # "idle" <=> c # None
            /\ Goto(w, l) /\ obj' = [obj EXCEPT ![w] = c])
    BY DEF WriteBegin, WriteOut, WritePrint, UseDeleted, Command, NodeType
  <1>4. pc' \in [Threads -> Labels] /\ obj' \in [Callers -> {None} \cup Sessions]
    BY <1>3, Roles DEF Goto, Labels, ControlPc, CallerType
  <1>5. /\ \A u \in Movers \cup Readers : pc'[u] = pc[u]
        /\ \A u \in Movers : obj'[u] = obj[u]
    <2>1. \A u \in Movers : u \in Callers
      BY DEF Callers
    <2> QED
      BY <1>2, <1>3, <2>1 DEF Goto, CallerType
  <1>6. \A u \in Writers : pc'[u] \in {"idle", "wr_print"} /\ (pc'[u] # "idle" <=> obj'[u] # None)
    BY <1>3, Roles DEF Goto, CallerType, PcType, Callers
  <1>7. HistoryType'
    <2>1. ended' \in {"no", "refused", "connected", "lost", "null", "misuse"}
      BY DEF HistoryType, WriteBegin, WriteOut, WritePrint, UseDeleted, Command, Output, EndWith
    <2> QED
      BY <1>1, <2>1 DEF HistoryType, historyVars
  <1>8. NodeType' /\ IrcType' /\ KernelType' /\ ServerType' /\ ReadType'
    BY <1>1 DEF NodeType, IrcType, KernelType, ServerType, ReadType, nodeVars, ircVars, kernelVars,
       serverVars, readVars
  <1>9. Control \in Movers /\ Sessions \subseteq Movers
    BY DEF Movers
  <1>10. PcType' /\ CallerType' /\ LoopType'
    BY <1>1, <1>4, <1>5, <1>6, <1>9 DEF PcType, CallerType, LoopType, loopVars
  <1>11. Fresh' /\ Known' /\ Made' /\ Halved'
    BY <1>1, <1>5, <1>9 DEF Fresh, Known, Made, Halved, historyVars, nodeVars, loopVars, serverVars
  <1> QED
    BY <1>4, <1>5, <1>7, <1>8, <1>10, <1>11

\* What a reader leaves alone.
LEMMA ReaderFrame ==
    ASSUME NEW r \in Readers, ReadBegin(r) \/ Update(r) \/ ReaderStep(r)
    PROVE  UNCHANGED <<nodeVars, ircVars, deleted, kernelVars, serverVars, obj, loopVars, given,
                       historyVars>>
  BY DEF ReadBegin, Update, ReaderStep, ReadGet, ReadTake

\* A reader keeps the types, and moves nobody else.
LEMMA ReaderTypeStep ==
    ASSUME TypeInv, NEW r \in Readers, ReadBegin(r) \/ Update(r) \/ ReaderStep(r)
    PROVE  TypeInv' /\ \A t \in Callers : pc'[t] = pc[t]
  <1> USE DEF TypeInv, TypeOK
  <1>1. UNCHANGED <<nodeVars, ircVars, deleted, kernelVars, serverVars, obj, loopVars, given,
                    historyVars>>
    BY ReaderFrame
  <1>2. \A u \in Callers : u # r /\ u \in Threads
    BY Roles
  <1>3. UNCHANGED pc \/ \E l \in {"idle", "rd_get", "rd_take"} : Goto(r, l)
    BY DEF ReadBegin, Update, ReaderStep, ReadGet, ReadTake
  <1>4. pc' \in [Threads -> Labels] /\ \A u \in Callers : pc'[u] = pc[u]
    BY <1>2, <1>3, Roles DEF Goto, Labels, ControlPc
  <1>5. \A u \in Readers : pc'[u] \in {"idle", "rd_get", "rd_take"}
    BY <1>3, Roles DEF Goto, PcType
  <1>6. ReadType'
    <2>1. source' \in [Readers -> {None} \cup Sessions] /\ keeps' \in [Readers -> BOOLEAN]
      <3>1. UNCHANGED source \/ \E c \in {None} \cup Sessions : source' = [source EXCEPT ![r] = c]
        BY DEF ReadBegin, Update, ReaderStep, ReadGet, ReadTake, NodeType, readVars
      <3>2. UNCHANGED keeps \/ \E b \in BOOLEAN : keeps' = [keeps EXCEPT ![r] = b]
        BY DEF ReadBegin, Update, ReaderStep, ReadGet, ReadTake, NodeType, readVars
      <3> QED
        BY <3>1, <3>2 DEF ReadType
    <2>2. queue' \in [Sessions -> Seq(Halves)]
      <3>1. UNCHANGED queue
            \/ (queue[source[r]] # <<>>
                /\ queue' = [queue EXCEPT ![source[r]] = Tail(queue[source[r]])])
        BY DEF ReadBegin, Update, ReaderStep, ReadGet, ReadTake, readVars, ReadType
      <3>2. PICK c : c = source[r]
        OBVIOUS
      <3>3. CASE c \in Sessions /\ queue[c] # <<>> /\ queue' = [queue EXCEPT ![c] = Tail(queue[c])]
        <4>1. queue[c] \in Seq(Halves)
          BY <3>3 DEF ReadType
        <4>2. Tail(queue[c]) \in Seq(Halves)
          BY <3>3, <4>1, CutFirst
        <4> QED
          BY <3>3, <4>2 DEF ReadType
      <3>4. CASE c \notin Sessions
        BY <3>1, <3>2, <3>4 DEF ReadType
      <3> QED
        BY <3>1, <3>2, <3>3, <3>4 DEF ReadType
    <2> QED
      BY <1>1, <2>1, <2>2 DEF ReadType
  <1>7. HistoryType'
    <2>1. ended' \in {"no", "refused", "connected", "lost", "null", "misuse"}
      BY DEF HistoryType, ReadBegin, Update, ReaderStep, ReadGet, ReadTake, EndWith
    <2> QED
      BY <1>1, <2>1 DEF HistoryType, historyVars
  <1>8. NodeType' /\ IrcType' /\ KernelType' /\ ServerType'
    BY <1>1 DEF NodeType, IrcType, KernelType, ServerType, nodeVars, ircVars, kernelVars, serverVars
  <1>9. Control \in Callers /\ Sessions \subseteq Callers /\ Writers \subseteq Callers
        /\ Movers \subseteq Callers
    BY DEF Movers, Callers
  <1>10. PcType' /\ CallerType' /\ LoopType'
    BY <1>1, <1>4, <1>5, <1>9 DEF PcType, CallerType, LoopType, loopVars
  <1>11. Fresh' /\ Known' /\ Made' /\ Halved'
    BY <1>1, <1>4, <1>9 DEF Fresh, Known, Made, Halved, historyVars, nodeVars, loopVars, serverVars
  <1> QED
    BY <1>4, <1>6, <1>7, <1>8, <1>10, <1>11

\* What the server leaves alone, and whom it can still reach.
LEMMA ServerFrame ==
    ASSUME TypeInv, NEW c \in Conns, ServerSend(c) \/ ServerHangup(c)
    PROVE  /\ UNCHANGED <<nodeVars, ircVars, deleted, kernelVars, conns, quits, pc, obj, loopVars,
                          readVars, given, historyVars, ended>>
           /\ c \in 1..conns
  <1>1. c \in fds \/ \E l \in Sessions : lconn[l] = c
    BY DEF ServerSend, ServerHangup, Attached
  <1>2. \A l \in Sessions : lconn[l] <= conns
    BY DEF TypeInv, Made
  <1>3. c \in 1..conns
    BY <1>1, <1>2, Bounds DEF TypeInv, TypeOK, KernelType, ServerType, Conns
  <1> QED
    BY <1>3 DEF ServerSend, ServerHangup

\* A line that is sent is two halves more, of which the last is a second one.
LEMMA ServerSends ==
    ASSUME TypeInv, NEW c \in Conns, ServerSend(c)
    PROVE  /\ sent' = sent + 1 /\ sent \in 0..(MaxLines - 1)
           /\ \A d \in Conns \ {c} : inq'[d] = inq[d]
           /\ inq' = [inq EXCEPT ![c] = inq'[c]]
           /\ inq'[c] \in Seq(Halves)
           /\ Len(inq'[c]) = Len(inq[c]) + 2
           /\ \A i \in 1..Len(inq[c]) : inq'[c][i] = inq[c][i]
           /\ inq'[c][Len(inq[c]) + 1] = 2 * sent + 1
           /\ inq'[c][Len(inq[c]) + 2] = 2 * sent + 2
  <1>1. /\ sent \in 0..MaxLines /\ sent < MaxLines
        /\ sent' = sent + 1
        /\ inq' = [inq EXCEPT ![c] = inq[c] \o <<2 * sent + 1, 2 * sent + 2>>]
        /\ inq[c] \in Seq(Halves)
    BY DEF ServerSend, TypeInv, TypeOK, ServerType
  <1>2. PICK q, a, b : q = inq[c] /\ a = 2 * sent + 1 /\ b = 2 * sent + 2
    OBVIOUS
  <1>3. a \in Halves /\ b \in Halves
    BY <1>1, <1>2, Bounds DEF Halves
  <1>4. PICK r : r = q \o <<a, b>>
    OBVIOUS
  <1>5. /\ r \in Seq(Halves)
        /\ Len(r) = Len(q) + 2
        /\ \A i \in 1..Len(q) : r[i] = q[i]
        /\ r[Len(q) + 1] = a
        /\ r[Len(q) + 2] = b
    <2>1. q \in Seq(Halves) /\ <<a, b>> \in Seq(Halves)
      BY <1>1, <1>2, <1>3
    <2> QED
      BY ONLY <1>4, <2>1
  <1>6. inq' = [inq EXCEPT ![c] = r]
    BY <1>1, <1>2, <1>4
  <1>7. inq'[c] = r /\ \A d \in Conns \ {c} : inq'[d] = inq[d]
    BY <1>6 DEF TypeInv, TypeOK, ServerType
  <1>8. sent \in 0..(MaxLines - 1)
    BY <1>1, Bounds
  <1> QED
    BY <1>1, <1>2, <1>5, <1>6, <1>7, <1>8

\* The server keeps the types.
LEMMA ServerTypeStep ==
    ASSUME TypeInv, NEW c \in Conns, ServerSend(c) \/ ServerHangup(c)
    PROVE  TypeInv'
  <1> USE DEF TypeInv, TypeOK
  <1>1. /\ UNCHANGED <<nodeVars, ircVars, deleted, kernelVars, conns, quits, pc, obj, loopVars,
                       readVars, given, historyVars, ended>>
        /\ c \in 1..conns
    BY ServerFrame
  <1>2. NodeType' /\ IrcType' /\ KernelType' /\ PcType' /\ CallerType' /\ LoopType' /\ ReadType'
        /\ HistoryType' /\ Fresh' /\ Known' /\ Made'
    BY <1>1 DEF NodeType, IrcType, KernelType, PcType, CallerType, LoopType, ReadType, HistoryType,
       Fresh, Known, Made, nodeVars, ircVars, kernelVars, readVars, loopVars, historyVars
  <1>3. ServerType' /\ Halved'
    <2>1. CASE ServerHangup(c)
      BY <1>1, <2>1 DEF ServerHangup, ServerType, Halved
    <2>2. CASE ServerSend(c)
      <3>1. /\ sent' = sent + 1 /\ sent \in 0..(MaxLines - 1)
            /\ \A d \in Conns \ {c} : inq'[d] = inq[d]
            /\ inq' = [inq EXCEPT ![c] = inq'[c]]
            /\ inq'[c] \in Seq(Halves)
            /\ Len(inq'[c]) = Len(inq[c]) + 2
            /\ \A i \in 1..Len(inq[c]) : inq'[c][i] = inq[c][i]
            /\ inq'[c][Len(inq[c]) + 1] = 2 * sent + 1
            /\ inq'[c][Len(inq[c]) + 2] = 2 * sent + 2
        BY <2>2, ServerSends
      <3>2. sent' \in 0..MaxLines
        BY <3>1, Bounds
      <3>3. inq' \in [Conns -> Seq(Halves)]
        BY <3>1 DEF ServerType
      <3>4. ServerType'
        BY <1>1, <2>2, <3>2, <3>3 DEF ServerSend, ServerType
      <3>5. ASSUME NEW d \in Conns, NEW i \in 1..Len(inq'[d])
            PROVE  (inq'[d][i] % 2 = 0) <=> ((Len(inq'[d]) - i) % 2 = 0)
        <4>1. CASE d # c
          <5>1. inq'[d] = inq[d]
            BY <3>1, <4>1
          <5> QED
            BY <5>1 DEF Halved
        <4>2. CASE d = c
          <5>1. PICK q, r : q = inq[c] /\ r = inq'[c]
            OBVIOUS
          <5>2. q \in Seq(Halves) /\ \A k \in 1..Len(q) : (q[k] % 2 = 0) <=> ((Len(q) - k) % 2 = 0)
            BY <5>1 DEF ServerType, Halved
          <5>3. /\ r \in Seq(Halves) /\ Len(r) = Len(q) + 2
                /\ \A k \in 1..Len(q) : r[k] = q[k]
                /\ r[Len(q) + 1] = 2 * sent + 1 /\ r[Len(q) + 2] = 2 * sent + 2
                /\ sent \in Int
            BY <3>1, <5>1
          <5>4. \A k \in 1..Len(r) : (r[k] % 2 = 0) <=> ((Len(r) - k) % 2 = 0)
            BY ONLY <5>2, <5>3, HalvedAppend
          <5> QED
            BY <4>2, <5>1, <5>4
        <4> QED
          BY <4>1, <4>2
      <3> QED
        BY <3>4, <3>5 DEF Halved
    <2> QED
      BY <2>1, <2>2
  <1> QED
    BY <1>1, <1>2, <1>3

\* The node starts with its types,
LEMMA TypeInit == Init => TypeInv
  <1> SUFFICES ASSUME Init PROVE TypeInv
    OBVIOUS
  <1>1. pc \in [Threads -> Labels]
        /\ \A t \in Threads : pc[t] = IF t \in Sessions THEN "none" ELSE "idle"
    BY DEF Init, Labels, ControlPc, LoopPc
  <1>2. /\ pc[Control] = "idle" /\ \A s \in Sessions : pc[s] = "none"
        /\ \A u \in Readers \cup Writers : pc[u] = "idle"
    BY <1>1, Roles DEF Movers, Callers
  <1>3. NodeType /\ PcType /\ KernelType
    BY <1>2 DEF Init, NodeType, PcType, KernelType, ControlPc, LoopPc
  <1>4. IrcType
    BY DEF Init, IrcType
  <1>5. ServerType
    BY Bounds DEF Init, ServerType
  <1>6. CallerType
    BY <1>2 DEF Init, CallerType, Callers, Movers, DisconnectPc
  <1>7. LoopType
    BY <1>2 DEF Init, LoopType
  <1>8. ReadType
    BY DEF Init, ReadType
  <1>9. HistoryType
    <2>1. opens \in 0..MaxOpens /\ ended = "no"
      BY Bounds DEF Init
    <2>2. legacy \in BOOLEAN /\ reopened \in BOOLEAN /\ away \in BOOLEAN
      BY DEF Init
    <2> QED
      BY <2>1, <2>2 DEF HistoryType
  <1>10. Fresh /\ Known /\ Made /\ Halved
    BY <1>2 DEF Init, Fresh, Known, Closing, DisconnectPc, Made, Halved, None
  <1> QED
    BY <1>1, <1>3, <1>4, <1>5, <1>6, <1>7, <1>8, <1>9, <1>10 DEF TypeInv, TypeOK

\* and every step keeps them.
LEMMA TypeStep == TypeInv /\ [Next]_vars => TypeInv'
  <1> SUFFICES ASSUME TypeInv, [Next]_vars PROVE TypeInv'
    OBVIOUS
  <1>1. CASE Next
    BY <1>1, ControlTypeStep, DisconnectTypeStep, LooperTypeStep, WriterTypeStep, ReaderTypeStep,
       ServerTypeStep DEF Next
  <1>2. CASE UNCHANGED vars
    BY <1>2 DEF vars, nodeVars, ircVars, kernelVars, serverVars, loopVars, readVars, historyVars,
       TypeInv, TypeOK, NodeType, IrcType, KernelType, ServerType, PcType, CallerType, LoopType,
       ReadType, HistoryType, Fresh, Known, Made, Halved
  <1> QED
    BY <1>1, <1>2

\* In every reachable state every variable has its type: among others, a caller
\* inside disconnect() has an IRC object, and a looper that parses has a line.
THEOREM TypeCorrect == Spec => []TypeOK
  <1>1. TypeInv => TypeOK
    BY DEF TypeInv
  <1> QED
    BY <1>1, TypeInit, TypeStep, PTL DEF Spec

-----------------------------------------------------------------------------
(* The looper and the thread that opens and closes                          *)

\* As long as close() comes before the next open(), a looper that is there is
\* the one of the last open(), and the node holds its object and its queue; from
\* the beginning of close() to the join, too.
Held == \A l \in Sessions : pc[l] \notin {"none", "done"} => loop = l
Whole ==
    /\ loop # None => /\ loop = opens /\ conn = loop /\ qvp = loop
                      /\ pc[Control] \notin {"op_queue", "op_start", "cl_null"}
    /\ loop = None => conn = None /\ pc[Control] \notin Closing
    /\ loop = None /\ pc[Control] = "idle" => qvp = None
    /\ pc[Control] = "op_start" => qvp = opens
OneLooper == ~reopened => Held /\ Whole

\* Nobody ends the program by finding _conn or _qvp null.
NotLost == ~reopened => ended # "lost"

\* From its connect to the end of message_loop() a looper works on the object of
\* its session and on the connection that was made last.
Receiving == {"lp_mark", "lp_hello", "lp_loop", "lp_recv", "lp_wait", "lp_parse"}
Current == ~reopened => \A l \in Sessions :
    /\ pc[l] \in Receiving \cup {"lp_connect"} => obj[l] = l
    /\ pc[l] \in Receiving => irc_socket[l] = conns
    /\ pc[l] = "lp_wait" => lconn[l] = conns

\* Lines are numbered as they are sent, on connections that have been made.
SentSoFar ==
    /\ \A c \in Conns : \A i \in 1..Len(inq[c]) : inq[c][i] <= 2 * sent
    /\ \A c \in Conns : c > conns => Len(inq[c]) = 0
    /\ \A s \in Sessions : \A i \in 1..Len(lines[s]) : LineOf(lines[s][i]) <= sent
    /\ \A s \in Sessions : \A i \in 1..Len(given[s]) : LineOf(given[s][i]) <= sent

\* They stay in order on the way, and what has been added to a queue is before
\* what the looper has still to parse, and that before what it has to receive.
Rising(q) == \A i, j \in 1..Len(q) : i < j => q[i] < q[j]
Climbing(q) == \A i, j \in 1..Len(q) : i < j => LineOf(q[i]) < LineOf(q[j])
Sorted ==
    /\ \A c \in Conns : Rising(inq[c])
    /\ \A s \in Sessions : Climbing(lines[s])
    /\ ~reopened => \A s \in Sessions : Climbing(given[s])
Ahead == ~reopened =>
    /\ \A c \in Conns, s \in Sessions : c = conns =>
         /\ \A i \in 1..Len(given[s]), j \in 1..Len(inq[c]) : 2 * LineOf(given[s][i]) < inq[c][j]
         /\ \A i \in 1..Len(lines[s]), j \in 1..Len(inq[c]) : 2 * LineOf(lines[s][i]) < inq[c][j]
    /\ \A s, l \in Sessions : \A i \in 1..Len(given[s]), j \in 1..Len(lines[l]) :
         LineOf(given[s][i]) < LineOf(lines[l][j])
Order == SentSoFar /\ Sorted /\ Ahead

\* As long as close() finds the looper in message_loop(), either the looper or
\* close() takes the last connection down, never both; and no other is open.
OnlyLast(l) == fds = {conns} /\ files = {conns} /\ dataout[l] = conns
Shut == fds = {} /\ files = {}
Turns(l) ==
    /\ pc[Control] = "idle" => ~cancel /\ pc[l] # "done"
    /\ pc[Control] # "idle" => cancel /\ pc[l] \in InMessageLoop \cup {"done"} /\ obj[Control] = l
ByLooper(l) ==
    /\ pc[l] \in {"lp_start", "lp_connect"} => Shut /\ ~connected[l]
    /\ pc[l] = "lp_mark" => OnlyLast(l)
    /\ pc[l] = "lp_hello" => OnlyLast(l) /\ connected[l]
    /\ pc[l] \in {"lp_disc", "dc_check", "dc_fclose"} => OnlyLast(l) /\ connected[l]
    /\ pc[l] \in DisconnectPc => obj[l] = l
    /\ pc[l] \in {"dc_mark", "dc_socket"} => Shut
    /\ pc[l] = "dc_socket" => ~connected[l]
ByClose(l) ==
    /\ /\ pc[l] \in InMessageLoop \cup {"done"}
       /\ pc[Control] \in {"idle", "cl_quit", "cl_say", "dc_check", "dc_fclose"}
       => OnlyLast(l) /\ connected[l]
    /\ pc[Control] \in {"dc_mark", "dc_socket", "cl_join"} => Shut
Idle ==
    /\ loop = None => Shut
    /\ pc[Control] \in {"op_queue", "op_start"} => ~cancel
    /\ \A s \in Sessions : s > opens \/ (s = opens /\ pc[Control] \in {"op_queue", "op_start"})
         => ~connected[s]
Clean == ~reopened /\ ~away =>
    Idle /\ \A l \in Sessions : l = loop => Turns(l) /\ ByLooper(l) /\ ByClose(l)

\* The inductive invariant.
IInv == TypeInv /\ OneLooper /\ NotLost /\ Current /\ Order /\ Clean

\* Where the provers look for a thread.
LEMMA Places == TypeInv =>
    /\ None \notin Sessions /\ Control \in Movers /\ Sessions \subseteq Movers
    /\ \A s \in Sessions : s # Control /\ s \in Threads /\ s \in Callers
    /\ Control \in Threads /\ Control \in Callers
    /\ pc \in [Threads -> Labels]
    /\ opens \in 0..MaxOpens
  BY Roles, Bounds DEF TypeInv, TypeOK, HistoryType, Sessions, Movers, Callers, None

\* The history only grows.
LEMMA Monotone ==
    ASSUME TypeInv, Next
    PROVE  (reopened => reopened') /\ (away => away')
  <1>1. ASSUME OpenBegin \/ CloseBegin \/ Construct \/ Destruct \/ ControlStep
        PROVE  (reopened => reopened') /\ (away => away')
    <2>1. reopened' = (reopened \/ loop # None) \/ UNCHANGED reopened
      BY <1>1 DEF OpenBegin, CloseBegin, Destruct, Close, Construct,
         ControlStep, OpenQueue, OpenStart, CloseQuit, CloseSay, CloseJoin, DestructJoin, CloseNull, historyVars
    <2>2. away' = (away \/ pc[loop] \notin InMessageLoop) \/ UNCHANGED away
      BY <1>1 DEF OpenBegin, CloseBegin, Destruct, Close, Construct,
         ControlStep, OpenQueue, OpenStart, CloseQuit, CloseSay, CloseJoin, DestructJoin, CloseNull, historyVars
    <2>3. reopened => reopened'
      BY <2>1, Zenon
    <2>4. away => away'
      BY <2>2, Zenon
    <2> QED
      BY <2>3, <2>4
  <1>2. ASSUME NEW t \in Movers, Disconnect(t) PROVE UNCHANGED <<reopened, away>>
    BY <1>2, DisconnectFrame DEF historyVars
  <1>3. ASSUME NEW t \in Callers, UseDeleted(t) PROVE UNCHANGED <<reopened, away>>
    BY <1>3, WriterFrame DEF historyVars
  <1>4. ASSUME NEW l \in Sessions, LooperStep(l) \/ LoopError(l) PROVE UNCHANGED <<reopened, away>>
    BY <1>4, LooperFrame DEF historyVars
  <1>5. ASSUME NEW w \in Writers, WriteBegin(w) \/ WriteOut(w) \/ WritePrint(w)
        PROVE  UNCHANGED <<reopened, away>>
    BY <1>5, WriterFrame DEF historyVars
  <1>6. ASSUME NEW r \in Readers, ReadBegin(r) \/ Update(r) \/ ReaderStep(r)
        PROVE  UNCHANGED <<reopened, away>>
    BY <1>6, ReaderFrame DEF historyVars
  <1>7. ASSUME NEW c \in Conns, ServerSend(c) \/ ServerHangup(c) PROVE UNCHANGED <<reopened, away>>
    BY <1>7, ServerFrame DEF historyVars
  <1> QED
    BY <1>1, <1>2, <1>3, <1>4, <1>5, <1>6, <1>7 DEF Next

\* Steps of readers, writers and the server are of no concern to looper and
\* close().
LEMMA Others ==
    ASSUME TypeInv,
           \/ \E t \in Callers : UseDeleted(t)
           \/ \E w \in Writers : WriteBegin(w) \/ WriteOut(w) \/ WritePrint(w)
           \/ \E r \in Readers : ReadBegin(r) \/ Update(r) \/ ReaderStep(r)
           \/ \E c \in Conns : ServerSend(c) \/ ServerHangup(c)
    PROVE  /\ UNCHANGED <<nodeVars, ircVars, deleted, kernelVars, conns, loopVars, given,
                          historyVars>>
           /\ \A t \in Movers : pc'[t] = pc[t] /\ obj'[t] = obj[t]
  <1>0. \A t \in Movers : t \in Callers
    BY DEF Callers
  <1>1. ASSUME NEW t \in Callers, UseDeleted(t)
        PROVE  /\ UNCHANGED <<nodeVars, ircVars, deleted, kernelVars, conns, loopVars, given,
                              historyVars>>
               /\ \A u \in Movers : pc'[u] = pc[u] /\ obj'[u] = obj[u]
    BY <1>1, WriterFrame, WriterTypeStep DEF serverVars
  <1>2. ASSUME NEW w \in Writers, WriteBegin(w) \/ WriteOut(w) \/ WritePrint(w)
        PROVE  /\ UNCHANGED <<nodeVars, ircVars, deleted, kernelVars, conns, loopVars, given,
                              historyVars>>
               /\ \A u \in Movers : pc'[u] = pc[u] /\ obj'[u] = obj[u]
    BY <1>2, WriterFrame, WriterTypeStep DEF serverVars
  <1>3. ASSUME NEW r \in Readers, ReadBegin(r) \/ Update(r) \/ ReaderStep(r)
        PROVE  /\ UNCHANGED <<nodeVars, ircVars, deleted, kernelVars, conns, loopVars, given,
                              historyVars>>
               /\ \A u \in Movers : pc'[u] = pc[u] /\ obj'[u] = obj[u]
    BY <1>0, <1>3, ReaderFrame, ReaderTypeStep DEF serverVars
  <1>4. ASSUME NEW c \in Conns, ServerSend(c) \/ ServerHangup(c)
        PROVE  /\ UNCHANGED <<nodeVars, ircVars, deleted, kernelVars, conns, loopVars, given,
                              historyVars>>
               /\ \A u \in Movers : pc'[u] = pc[u] /\ obj'[u] = obj[u]
    BY <1>4, ServerFrame
  <1> QED
    BY <1>1, <1>2, <1>3, <1>4

\* There is one looper, and the node holds what it needs.
LEMMA OneLooperStep ==
    ASSUME TypeInv, OneLooper, Next
    PROVE  OneLooper'
  <1> SUFFICES ASSUME ~reopened' PROVE Held' /\ Whole'
    BY DEF OneLooper
  <1>0. /\ Held /\ Whole /\ ~reopened
        /\ None \notin Sessions /\ Control \in Movers /\ Sessions \subseteq Movers
        /\ \A s \in Sessions : s # Control /\ s \in Threads /\ s \in Callers
        /\ Control \in Threads /\ Control \in Callers
        /\ pc \in [Threads -> Labels]
        /\ opens \in 0..MaxOpens
    BY Monotone, Places DEF OneLooper
  <1>1. ASSUME OpenBegin \/ CloseBegin \/ Construct \/ Destruct \/ ControlStep
        PROVE  Held' /\ Whole'
    <2>1. CASE OpenBegin
      BY <1>0, <2>1 DEF OpenBegin, Goto, Held, Whole, Closing, DisconnectPc
    <2>2. CASE OpenQueue
      BY <1>0, <2>2 DEF OpenQueue, Goto, Held, Whole, Closing, DisconnectPc, historyVars
    <2>3. CASE OpenStart
      <3>1. opens \in Sessions
        BY <2>3, Bounds DEF OpenStart, TypeInv, TypeOK, HistoryType, Known, Sessions
      <3>2. \A s \in Sessions : pc[s] \in {"none", "done"}
        BY <1>0, <2>3 DEF OpenStart, Held, Whole
      <3>3. /\ pc'[Control] = "idle" /\ \A s \in Sessions \ {opens} : pc'[s] = pc[s]
            /\ loop' = opens /\ conn' = opens /\ qvp' = opens /\ opens' = opens
        BY <1>0, <2>3 DEF OpenStart, Whole, historyVars
      <3> QED
        BY <1>0, <3>1, <3>2, <3>3 DEF Held, Whole, Closing, DisconnectPc
    <2>4. CASE Construct
      <3>1. loop = None
        BY <1>0, <2>4 DEF Construct, Whole
      <3>2. \A s \in Sessions : pc[s] \in {"none", "done"}
        BY <1>0, <3>1 DEF Held
      <3>3. /\ opens' \in Sessions /\ pc'[Control] = "idle"
            /\ \A s \in Sessions \ {opens'} : pc'[s] = pc[s]
            /\ loop' = opens' /\ conn' = opens' /\ qvp' = opens'
        <4>1. opens' \in Sessions
          BY <2>4, Bounds DEF Construct, TypeInv, TypeOK, HistoryType, Sessions
        <4> QED
          BY <1>0, <2>4, <4>1 DEF Construct, Goto
      <3> QED
        BY <1>0, <3>2, <3>3 DEF Held, Whole, Closing, DisconnectPc
    <2>5. CASE CloseBegin \/ Destruct
      BY <1>0, <2>5 DEF CloseBegin, Destruct, Close, Goto, Held, Whole, Closing, DisconnectPc
    <2>6. CASE CloseQuit \/ CloseSay
      BY <1>0, <2>6 DEF CloseQuit, CloseSay, Goto, Held, Whole, Closing, DisconnectPc, nodeVars,
         historyVars
    <2>7. CASE CloseJoin \/ DestructJoin
      <3>1. \A s \in Sessions : pc[s] \in {"none", "done"}
        BY <1>0, <2>7 DEF CloseJoin, DestructJoin, Held
      <3> QED
        BY <1>0, <2>7, <3>1 DEF CloseJoin, DestructJoin, Goto, Held, Whole, Closing, DisconnectPc
    <2>8. CASE CloseNull
      BY <1>0, <2>8 DEF CloseNull, Goto, Held, Whole, Closing, DisconnectPc
    <2> QED
      BY <1>1, <2>1, <2>2, <2>3, <2>4, <2>5, <2>6, <2>7, <2>8 DEF ControlStep
  <1>2. ASSUME NEW t \in Movers, Disconnect(t) PROVE Held' /\ Whole'
    <2>1. /\ pc[t] \in DisconnectPc
          /\ pc'[t] \in DisconnectPc \/ pc'[t] = IF t = Control THEN "cl_join" ELSE "lp_start"
          /\ \A u \in Threads \ {t} : pc'[u] = pc[u]
      BY <1>2, DisconnectMoves
    <2>2. UNCHANGED <<nodeVars, historyVars>>
      BY <1>2, DisconnectFrame
    <2> QED
      BY <1>0, <2>1, <2>2 DEF Held, Whole, Closing, DisconnectPc, nodeVars, historyVars, Movers
  <1>3. ASSUME NEW l \in Sessions, LooperStep(l) \/ LoopError(l) PROVE Held' /\ Whole'
    <2>1. /\ pc[l] \in LoopPc \ {"none", "done"}
          /\ \A u \in Threads \ {l} : pc'[u] = pc[u]
      BY <1>3, LooperMoves
    <2>2. UNCHANGED <<nodeVars, historyVars>>
      BY <1>3, LooperFrame
    <2> QED
      BY <1>0, <2>1, <2>2 DEF Held, Whole, nodeVars, historyVars
  <1>4. CASE \/ \E t \in Callers : UseDeleted(t)
             \/ \E w \in Writers : WriteBegin(w) \/ WriteOut(w) \/ WritePrint(w)
             \/ \E r \in Readers : ReadBegin(r) \/ Update(r) \/ ReaderStep(r)
             \/ \E c \in Conns : ServerSend(c) \/ ServerHangup(c)
    <2>1. /\ UNCHANGED <<nodeVars, historyVars>>
          /\ \A t \in Movers : pc'[t] = pc[t]
      BY <1>4, Others
    <2> QED
      BY <1>0, <2>1 DEF Held, Whole, nodeVars, historyVars
  <1> QED
    BY <1>1, <1>2, <1>3, <1>4 DEF Next

\* And so it never finds it missing.
LEMMA NotLostStep ==
    ASSUME TypeInv, OneLooper, NotLost, Next
    PROVE  NotLost'
  <1> SUFFICES ASSUME ~reopened' PROVE ended' # "lost"
    BY DEF NotLost
  <1>0. Held /\ Whole /\ ended # "lost" /\ None \notin Sessions
    BY Monotone, Places DEF OneLooper, NotLost
  <1>1. ASSUME NEW l \in Sessions PROVE ~LoopLost(l)
    BY <1>0 DEF LoopLost, Held, Whole
  <1>2. ASSUME OpenBegin \/ CloseBegin \/ Construct \/ Destruct \/ ControlStep PROVE ended' # "lost"
    BY <1>0, <1>2 DEF OpenBegin, CloseBegin, Destruct, Close, Construct,
         ControlStep, OpenQueue, OpenStart, CloseQuit, CloseSay, CloseJoin, DestructJoin, CloseNull, Output, EndWith
  <1>3. ASSUME NEW t, Disconnect(t) \/ UseDeleted(t) PROVE ended' # "lost"
    BY <1>0, <1>3 DEF Disconnect, DisconnectCheck, DisconnectFclose, DisconnectMark,
       DisconnectSocket, UseDeleted, Output, EndWith
  <1>4. ASSUME NEW l \in Sessions, LooperStep(l) \/ LoopError(l) PROVE ended' # "lost"
    BY <1>0, <1>1, <1>4 DEF LooperStep, LoopStart, LoopConnect, LoopMark, LoopHello, LoopMessages,
       LoopRecv, LoopData, LoopHangup, LoopError, LoopParse, LoopEnd, LoopDisconnect, Output, EndWith
  <1>5. ASSUME NEW w, WriteBegin(w) \/ WriteOut(w) \/ WritePrint(w) PROVE ended' # "lost"
    BY <1>0, <1>5 DEF WriteBegin, WriteOut, WritePrint, Command, Output, EndWith
  <1>6. ASSUME NEW r, ReadBegin(r) \/ Update(r) \/ ReaderStep(r) PROVE ended' # "lost"
    BY <1>0, <1>6 DEF ReadBegin, Update, ReaderStep, ReadGet, ReadTake, EndWith
  <1>7. ASSUME NEW c, ServerSend(c) \/ ServerHangup(c) PROVE ended' # "lost"
    BY <1>0, <1>7 DEF ServerSend, ServerHangup
  <1> QED
    BY <1>2, <1>3, <1>4, <1>5, <1>6, <1>7 DEF Next

\* A looper works on the last connection.
LEMMA CurrentStep ==
    ASSUME TypeInv, OneLooper, Current, Next
    PROVE  Current'
  <1> SUFFICES ASSUME ~reopened', NEW l \in Sessions
               PROVE  /\ pc'[l] \in Receiving \cup {"lp_connect"} => obj'[l] = l
                      /\ pc'[l] \in Receiving => irc_socket'[l] = conns'
                      /\ pc'[l] = "lp_wait" => lconn'[l] = conns'
    BY DEF Current
  <1>0. /\ Held /\ Whole /\ ~reopened
        /\ None \notin Sessions /\ Control \in Movers /\ Sessions \subseteq Movers
        /\ \A s \in Sessions : s # Control /\ s \in Threads /\ s \in Callers
        /\ pc \in [Threads -> Labels]
    BY Monotone, Places DEF OneLooper
  <1>1. /\ pc[l] \in Receiving \cup {"lp_connect"} => obj[l] = l
        /\ pc[l] \in Receiving => irc_socket[l] = conns
        /\ pc[l] = "lp_wait" => lconn[l] = conns
    BY <1>0 DEF Current
  <1>2. CASE OpenBegin \/ CloseBegin \/ Construct \/ Destruct \/ ControlStep
    <2>1. pc'[l] = pc[l] \/ pc'[l] = "lp_start"
      BY <1>0, <1>2, ControlMoves
    <2>2. UNCHANGED <<ircVars, conns, loopVars>>
      BY <1>2, ControlFrame
    <2>3. obj'[l] = obj[l]
      BY <1>0, <1>2 DEF TypeInv, TypeOK, CallerType, OpenBegin, CloseBegin, Destruct, Close, Construct,
         ControlStep, OpenQueue, OpenStart, CloseQuit, CloseSay, CloseJoin, DestructJoin, CloseNull
    <2> QED
      BY <1>1, <2>1, <2>2, <2>3 DEF Receiving, ircVars, loopVars
  <1>3. CASE \E t \in Movers : Disconnect(t)
    <2>1. PICK t \in Movers : Disconnect(t)
      BY <1>3
    <2>2. pc'[l] = pc[l] \/ pc'[l] \in DisconnectPc \cup {"lp_start"}
      BY <1>0, <2>1, DisconnectMoves
    <2>3. UNCHANGED <<irc_socket, serverVars, obj, loopVars>>
      BY <2>1, DisconnectFrame
    <2> QED
      BY <1>1, <2>2, <2>3 DEF Receiving, DisconnectPc, serverVars, loopVars
  <1>4. CASE \E k \in Sessions : LooperStep(k) \/ LoopError(k)
    <2>1. PICK k \in Sessions : LooperStep(k) \/ LoopError(k)
      BY <1>4
    <2>2. CASE k # l
      <3>1. pc[k] \in LoopPc \ {"none", "done"} /\ pc'[l] = pc[l]
        BY <1>0, <2>1, <2>2, LooperMoves
      <3>2. pc[l] \in {"none", "done"}
        BY <1>0, <2>2, <3>1 DEF Held
      <3> QED
        BY <3>1, <3>2 DEF Receiving
    <2>3. CASE k = l
      <3>1. LooperStep(l) \/ LoopError(l)
        BY <2>1, <2>3
      <3>2. conn = l
        <4>1. pc[l] \in LoopPc \ {"none", "done"}
          BY <3>1, LooperMoves
        <4> QED
          BY <1>0, <4>1 DEF Held, Whole
      <3>3. obj \in [Callers -> {None} \cup Sessions] /\ irc_socket \in [Sessions -> {None} \cup Conns]
            /\ lconn \in [Sessions -> {None} \cup Conns]
        BY DEF TypeInv, TypeOK, CallerType, IrcType, LoopType
      <3>4. CASE LoopStart(l) \/ LoopMessages(l)
        BY <1>0, <1>1, <3>2, <3>3, <3>4 DEF LoopStart, LoopMessages, Goto, Receiving, ircVars, serverVars,
           loopVars
      <3>5. CASE LoopConnect(l)
        BY <1>0, <1>1, <3>3, <3>5 DEF LoopConnect, Goto, Receiving, loopVars
      <3>6. CASE LoopRecv(l)
        BY <1>0, <1>1, <3>3, <3>6 DEF LoopRecv, Goto, Receiving, ircVars, serverVars
      <3>7. CASE LoopMark(l) \/ LoopHello(l) \/ LoopLost(l)
        BY <1>0, <1>1, <3>7 DEF LoopMark, LoopHello, LoopLost, Goto, Receiving, ircVars, serverVars, loopVars
      <3>8. CASE LoopData(l)
        <4>1. pc'[l] \in {"lp_recv", "lp_parse"}
          BY <1>0, <3>8, LooperData DEF Goto
        <4> QED
          BY <1>1, <3>8, <4>1 DEF LoopData, Receiving, ircVars
      <3>9. CASE LoopParse(l)
        BY <1>0, <1>1, <3>9 DEF LoopParse, Goto, Receiving, ircVars, serverVars
      <3>10. CASE LoopHangup(l) \/ LoopError(l) \/ LoopEnd(l) \/ LoopDisconnect(l)
        BY <1>0, <3>10 DEF LoopHangup, LoopError, LoopEnd, LoopDisconnect, Goto, Receiving
      <3> QED
        BY <3>1, <3>4, <3>5, <3>6, <3>7, <3>8, <3>9, <3>10 DEF LooperStep
    <2> QED
      BY <2>2, <2>3
  <1>5. CASE \/ \E t \in Callers : UseDeleted(t)
             \/ \E w \in Writers : WriteBegin(w) \/ WriteOut(w) \/ WritePrint(w)
             \/ \E r \in Readers : ReadBegin(r) \/ Update(r) \/ ReaderStep(r)
             \/ \E c \in Conns : ServerSend(c) \/ ServerHangup(c)
    <2>1. /\ UNCHANGED <<ircVars, conns, loopVars>>
          /\ \A t \in Movers : pc'[t] = pc[t] /\ obj'[t] = obj[t]
      BY <1>5, Others
    <2> QED
      BY <1>0, <1>1, <2>1 DEF ircVars, loopVars
  <1> QED
    BY <1>2, <1>3, <1>4, <1>5 DEF Next

\* The lines of a chunk rise as its halves do, from before what is left of it.
LEMMA ChunkRises ==
    ASSUME NEW q \in Seq(Halves), NEW n \in 1..Len(q), NEW off \in Int, NEW w \in Seq(Halves),
           Rising(q), Spread(w, q, n, off)
    PROVE  /\ Climbing(w)
           /\ Rising(SubSeq(q, n + 1, Len(q)))
           /\ \A i \in 1..Len(w), j \in 1..(Len(q) - n) :
                2 * LineOf(w[i]) < SubSeq(q, n + 1, Len(q))[j]
           /\ \A j \in 1..(Len(q) - n) :
                n + j \in 1..Len(q) /\ SubSeq(q, n + 1, Len(q))[j] = q[n + j]
           /\ \A i \in 1..Len(w) : off + 2 * i \in 1..Len(q)
  <1> USE DEF Spread
  <1>1. PICK r : r = SubSeq(q, n + 1, Len(q))
    OBVIOUS
  <1>2. r \in Seq(Halves) /\ Len(r) = Len(q) - n /\ \A j \in 1..(Len(q) - n) : r[j] = q[n + j]
    BY <1>1, Cut
  <1>3. \A j \in 1..(Len(q) - n) : n + j \in 1..Len(q)
    OBVIOUS
  <1>4. \A i \in 1..Len(w) : off + 2 * i \in 1..Len(q) /\ off + 2 * i \in 1..n
    OBVIOUS
  <1>5. \A i \in 1..Len(q) : q[i] \in Int
    BY Bounds DEF Halves
  <1>6. \A i \in 1..Len(w) : LineOf(w[i]) \in Int
    BY LinesOfHalves
  <1>7. Climbing(w)
    <2> SUFFICES ASSUME NEW i \in 1..Len(w), NEW j \in 1..Len(w), i < j
                 PROVE  LineOf(w[i]) < LineOf(w[j])
      BY DEF Climbing
    <2>1. off + 2 * i < off + 2 * j
      OBVIOUS
    <2>2. q[off + 2 * i] < q[off + 2 * j]
      BY <1>4, <2>1 DEF Rising
    <2> QED
      BY <1>6, <2>2
  <1>8. Rising(r)
    <2> SUFFICES ASSUME NEW i \in 1..Len(r), NEW j \in 1..Len(r), i < j PROVE r[i] < r[j]
      BY DEF Rising
    <2>1. n + i \in 1..Len(q) /\ n + j \in 1..Len(q) /\ n + i < n + j
      BY <1>2
    <2> QED
      BY <1>2, <2>1 DEF Rising
  <1>9. ASSUME NEW i \in 1..Len(w), NEW j \in 1..(Len(q) - n) PROVE 2 * LineOf(w[i]) < r[j]
    <2>1. off + 2 * i < n + j
      BY <1>4
    <2> QED
      BY <1>2, <1>3, <1>4, <2>1 DEF Rising
  <1> QED
    BY <1>1, <1>2, <1>3, <1>4, <1>7, <1>8, <1>9

\* Only connecting, receiving, parsing and sending move lines.
LEMMA LinesStay ==
    ASSUME TypeInv, Next,
           \A l \in Sessions : ~LoopConnect(l) /\ ~LoopData(l) /\ ~LoopParse(l),
           \A c \in Conns : ~ServerSend(c)
    PROVE  UNCHANGED <<conns, inq, sent, lines, given>>
  <1>1. CASE OpenBegin \/ CloseBegin \/ Construct \/ Destruct \/ ControlStep
    BY <1>1, ControlFrame DEF loopVars
  <1>2. CASE \E t \in Movers : Disconnect(t)
    BY <1>2, DisconnectFrame DEF serverVars, loopVars
  <1>3. CASE \E l \in Sessions : LooperStep(l) \/ LoopError(l)
    BY <1>3 DEF LooperStep, LoopLost, LoopStart, LoopMark, LoopHello, LoopMessages, LoopRecv, LoopHangup,
       LoopError, LoopEnd, LoopDisconnect, serverVars, loopVars
  <1>4. CASE \/ \E t \in Callers : UseDeleted(t)
             \/ \E w \in Writers : WriteBegin(w) \/ WriteOut(w) \/ WritePrint(w)
    BY <1>4, WriterFrame DEF serverVars, loopVars
  <1>5. CASE \E r \in Readers : ReadBegin(r) \/ Update(r) \/ ReaderStep(r)
    BY <1>5, ReaderFrame DEF serverVars, loopVars
  <1>6. CASE \E c \in Conns : ServerHangup(c)
    BY <1>6 DEF ServerHangup, loopVars
  <1> QED
    BY <1>1, <1>2, <1>3, <1>4, <1>5, <1>6 DEF Next

\* What the numbers of halves and lines are.
LEMMA Numbers == TypeInv =>
    /\ conns \in 0..MaxConns /\ sent \in Nat
    /\ \A c \in Conns : inq[c] \in Seq(Halves) /\ Len(inq[c]) \in Nat
                        /\ \A i \in 1..Len(inq[c]) : inq[c][i] \in Int
    /\ \A s \in Sessions : lines[s] \in Seq(Halves) /\ Len(lines[s]) \in Nat
                           /\ \A i \in 1..Len(lines[s]) : LineOf(lines[s][i]) \in Int
    /\ \A s \in Sessions : given[s] \in Seq(Halves) /\ Len(given[s]) \in Nat
                           /\ \A i \in 1..Len(given[s]) : LineOf(given[s][i]) \in Int
  <1>2. ASSUME NEW q \in Seq(Halves)
        PROVE  Len(q) \in Nat /\ \A i \in 1..Len(q) : q[i] \in Int
    <2>1. Len(q) \in Nat
      OBVIOUS
    <2>2. ASSUME NEW i \in 1..Len(q) PROVE q[i] \in Int
      <3>1. q[i] \in Halves
        OBVIOUS
      <3> QED
        BY <3>1, Bounds DEF Halves
    <2> QED
      BY <2>1, <2>2
  <1>3. ASSUME NEW q \in Seq(Halves)
        PROVE  Len(q) \in Nat /\ \A i \in 1..Len(q) : LineOf(q[i]) \in Int
    <2>1. ASSUME NEW i \in 1..Len(q) PROVE LineOf(q[i]) \in Int
      <3>1. q[i] \in Halves
        OBVIOUS
      <3> QED
        BY <3>1, LinesOfHalves
    <2> QED
      BY <1>2, <2>1
  <1> QED
    BY <1>2, <1>3, Bounds DEF TypeInv, TypeOK, ServerType, LoopType, ReadType

\* The numbers stay below what has been sent, and rise.
LEMMA ConnectKeepsOrder ==
    ASSUME TypeInv, Order, reopened => reopened', NEW l \in Sessions, LoopConnect(l)
    PROVE  Order'
  <1>1. /\ UNCHANGED <<inq, sent, lines, given>> /\ (conns' = conns \/ conns' = conns + 1)
    BY DEF LoopConnect, loopVars
  <1>2. conns \in Nat
    BY Numbers
  <1>3. SentSoFar'
    BY <1>1, <1>2, Bounds DEF Order, SentSoFar, Conns
  <1>4. Sorted'
    BY <1>1 DEF Order, Sorted
  <1>5. Ahead'
    <2> SUFFICES ASSUME ~reopened'
                 PROVE  /\ \A c \in Conns, s \in Sessions : c = conns' =>
                             /\ \A i \in 1..Len(given[s]), j \in 1..Len(inq[c]) :
                                  2 * LineOf(given[s][i]) < inq[c][j]
                             /\ \A i \in 1..Len(lines[s]), j \in 1..Len(inq[c]) :
                                  2 * LineOf(lines[s][i]) < inq[c][j]
                        /\ \A s, k \in Sessions :
                             \A i \in 1..Len(given[s]), j \in 1..Len(lines[k]) :
                                  LineOf(given[s][i]) < LineOf(lines[k][j])
      BY <1>1 DEF Ahead
    <2>1. Ahead /\ ~reopened
      BY DEF Order
    <2>2. CASE conns' = conns
      BY <2>1, <2>2 DEF Ahead
    <2>3. CASE conns' = conns + 1
      <3>1. \A c \in Conns : c = conns' => Len(inq[c]) = 0
        BY <1>2, <2>3 DEF Order, SentSoFar
      <3> QED
        <4>1. \A c \in Conns : c = conns' => \A j \in 1..Len(inq[c]) : FALSE
          BY <3>1
        <4>2. \A s, k \in Sessions : \A i \in 1..Len(given[s]), j \in 1..Len(lines[k]) :
                   LineOf(given[s][i]) < LineOf(lines[k][j])
          BY <2>1 DEF Ahead
        <4> QED
          BY ONLY <4>1, <4>2
    <2> QED
      BY <1>1, <2>2, <2>3
  <1> QED
    BY <1>3, <1>4, <1>5 DEF Order

\* The looper takes a chunk off what it waits for.
LEMMA DataKeepsOrder ==
    ASSUME TypeInv, Current, Order, reopened => reopened', NEW l \in Sessions, LoopData(l)
    PROVE  Order'
  <1>1. PICK n \in 1..Len(inq[lconn[l]]), off \in Int :
             /\ lconn[l] \in Conns
             /\ inq' = [inq EXCEPT ![lconn[l]] = SubSeq(inq[lconn[l]], n + 1, Len(inq[lconn[l]]))]
             /\ lines'[l] \in Seq(Halves)
             /\ lines' = [lines EXCEPT ![l] = lines'[l]]
             /\ Spread(lines'[l], inq[lconn[l]], n, off)
    BY LooperData
  <1>2. PICK c, q, w, r : /\ c = lconn[l] /\ q = inq[c] /\ w = lines'[l]
                          /\ r = SubSeq(q, n + 1, Len(q))
    OBVIOUS
  <1>3. /\ c \in Conns /\ q \in Seq(Halves) /\ w \in Seq(Halves) /\ n \in 1..Len(q) /\ Rising(q)
        /\ off \in Int /\ Spread(w, q, n, off)
    BY <1>1, <1>2, Numbers DEF Order, Sorted
  <1>4. /\ Climbing(w) /\ Rising(r) /\ Len(r) = Len(q) - n
        /\ \A i \in 1..Len(w), j \in 1..Len(r) : 2 * LineOf(w[i]) < r[j]
        /\ \A j \in 1..Len(r) : n + j \in 1..Len(q) /\ r[j] = q[n + j]
        /\ \A i \in 1..Len(w) : off + 2 * i \in 1..Len(q)
    <2>3. r = SubSeq(q, n + 1, Len(q))
      BY <1>2
    <2>1. /\ Climbing(w) /\ Rising(SubSeq(q, n + 1, Len(q)))
          /\ \A i \in 1..Len(w), j \in 1..(Len(q) - n) :
                2 * LineOf(w[i]) < SubSeq(q, n + 1, Len(q))[j]
          /\ \A j \in 1..(Len(q) - n) :
                n + j \in 1..Len(q) /\ SubSeq(q, n + 1, Len(q))[j] = q[n + j]
          /\ \A i \in 1..Len(w) : off + 2 * i \in 1..Len(q)
      BY ONLY <1>3, ChunkRises
    <2>2. Len(SubSeq(q, n + 1, Len(q))) = Len(q) - n
      BY ONLY <1>3, Cut
    <2>4. Rising(r) /\ Len(r) = Len(q) - n
      BY ONLY <2>1, <2>2, <2>3
    <2>5. \A i \in 1..Len(w), j \in 1..(Len(q) - n) : 2 * LineOf(w[i]) < r[j]
      BY ONLY <2>1, <2>3
    <2>6. \A j \in 1..(Len(q) - n) : n + j \in 1..Len(q) /\ r[j] = q[n + j]
      BY ONLY <2>1, <2>3
    <2> QED
      BY ONLY <2>1, <2>4, <2>5, <2>6
  <1>5. /\ inq' = [inq EXCEPT ![c] = r]
        /\ lines' = [lines EXCEPT ![l] = w]
        /\ UNCHANGED <<conns, sent, given>>
    BY <1>1, <1>2 DEF LoopData
  <1>6. /\ \A d \in Conns : inq'[d] = IF d = c THEN r ELSE inq[d]
        /\ \A s \in Sessions : lines'[s] = IF s = l THEN w ELSE lines[s]
    BY <1>5 DEF TypeInv, TypeOK, ServerType, LoopType
  <1>7. ~reopened => c = conns
    BY <1>2 DEF LoopData, Current
  <1>8. /\ Len(q) \in Nat /\ Len(w) \in Nat
        /\ \A i \in 1..Len(q) : q[i] \in Int
        /\ \A i \in 1..Len(w) : LineOf(w[i]) \in Int
        /\ sent \in Nat /\ conns \in Nat
    <2>1. ASSUME NEW i \in 1..Len(w) PROVE LineOf(w[i]) \in Int
      <3>1. w[i] \in Halves
        BY <1>3
      <3> QED
        BY <3>1, LinesOfHalves
    <2>2. Len(w) \in Nat
      BY <1>3
    <2>3. sent \in Nat /\ conns \in Nat /\ Len(q) \in Nat /\ \A i \in 1..Len(q) : q[i] \in Int
      BY <1>2, <1>3, Numbers
    <2> QED
      BY <2>1, <2>2, <2>3
  <1>9. SentSoFar'
    <2>1. \A d \in Conns : \A i \in 1..Len(inq'[d]) : inq'[d][i] <= 2 * sent
      <3>1. \A i \in 1..Len(r) : r[i] <= 2 * sent
        BY <1>2, <1>3, <1>4 DEF Order, SentSoFar
      <3> QED
        BY <1>6, <3>1 DEF Order, SentSoFar
    <2>2. \A d \in Conns : d > conns => Len(inq'[d]) = 0
      <3>1. Len(q) = 0 => FALSE
        BY <1>3
      <3> QED
        BY <1>2, <1>6, <3>1 DEF Order, SentSoFar
    <2>3. \A s \in Sessions : \A i \in 1..Len(lines'[s]) : LineOf(lines'[s][i]) <= sent
      <3>1. ASSUME NEW i \in 1..Len(w) PROVE LineOf(w[i]) <= sent
        <4>1. q[off + 2 * i] <= 2 * sent
          BY <1>2, <1>3, <1>4 DEF Order, SentSoFar
        <4> QED
          BY <1>3, <1>8, <4>1 DEF Spread
      <3> QED
        BY <1>6, <3>1 DEF Order, SentSoFar
    <2> QED
      BY <1>5, <2>1, <2>2, <2>3 DEF Order, SentSoFar
  <1>10. Sorted'
    BY <1>4, <1>5, <1>6 DEF Order, Sorted
  <1>11. Ahead'
    <2> SUFFICES ASSUME ~reopened', NEW s \in Sessions
                 PROVE  /\ \A i \in 1..Len(given[s]), j \in 1..Len(inq'[conns]) :
                             conns \in Conns => 2 * LineOf(given[s][i]) < inq'[conns][j]
                        /\ \A i \in 1..Len(lines'[s]), j \in 1..Len(inq'[conns]) :
                             conns \in Conns => 2 * LineOf(lines'[s][i]) < inq'[conns][j]
                        /\ \A k \in Sessions :
                             \A i \in 1..Len(given[s]), j \in 1..Len(lines'[k]) :
                                  LineOf(given[s][i]) < LineOf(lines'[k][j])
      BY <1>5 DEF Ahead
    <2>1. Ahead /\ c = conns /\ ~reopened
      BY <1>7 DEF Order
    <2>2. /\ \A i \in 1..Len(given[s]), j \in 1..Len(q) : 2 * LineOf(given[s][i]) < q[j]
          /\ \A i \in 1..Len(lines[s]), j \in 1..Len(q) : 2 * LineOf(lines[s][i]) < q[j]
          /\ \A k \in Sessions : \A i \in 1..Len(given[s]), j \in 1..Len(lines[k]) :
               LineOf(given[s][i]) < LineOf(lines[k][j])
      BY <1>2, <1>3, <2>1 DEF Ahead
    <2>3. inq'[conns] = r
      BY <1>3, <1>6, <2>1
    <2>4. \A i \in 1..Len(given[s]), j \in 1..Len(r) : 2 * LineOf(given[s][i]) < r[j]
      BY <1>4, <2>2
    <2>5. \A i \in 1..Len(lines'[s]), j \in 1..Len(r) : 2 * LineOf(lines'[s][i]) < r[j]
      BY <1>4, <1>6, <2>2
    <2>6. ASSUME NEW k \in Sessions, NEW i \in 1..Len(given[s]), NEW j \in 1..Len(lines'[k])
          PROVE  LineOf(given[s][i]) < LineOf(lines'[k][j])
      <3>1. CASE k # l
        BY <1>6, <2>2, <3>1
      <3>2. CASE k = l
        <4>1. 2 * LineOf(given[s][i]) < q[off + 2 * j] /\ 2 * LineOf(w[j]) = q[off + 2 * j]
          BY <1>3, <1>4, <1>6, <2>2, <3>2 DEF Spread
        <4>2. LineOf(given[s][i]) \in Int /\ LineOf(w[j]) \in Int
          BY <1>6, <1>8, <3>2, Numbers
        <4> QED
          BY <1>6, <3>2, <4>1, <4>2
      <3> QED
        BY <3>1, <3>2
    <2> QED
      BY <2>3, <2>4, <2>5, <2>6
  <1> QED
    BY <1>9, <1>10, <1>11 DEF Order

\* It adds the first line it has to a queue, or none.
LEMMA ParseKeepsOrder ==
    ASSUME TypeInv, OneLooper, Order, reopened => reopened', NEW l \in Sessions, LoopParse(l)
    PROVE  Order'
  <1>1. PICK q, m : q = lines[l] /\ m = Head(lines[l])
    OBVIOUS
  <1>2. /\ q \in Seq(Halves) /\ Climbing(q) /\ m = q[1] /\ m \in Halves
        /\ Len(q) \in Nat \ {0}
        /\ Tail(q) \in Seq(Halves) /\ Len(Tail(q)) = Len(q) - 1
        /\ \A i \in 1..(Len(q) - 1) : Tail(q)[i] = q[i + 1]
    <2>1. q \in Seq(Halves) /\ q # <<>> /\ Climbing(q)
      BY <1>1 DEF LoopParse, TypeInv, TypeOK, LoopType, Order, Sorted
    <2> QED
      BY <1>1, <2>1, CutFirst
  <1>3. PICK r : r = Tail(q)
    OBVIOUS
  <1>4. /\ \A i \in 1..Len(r) : i + 1 \in 1..Len(q) /\ r[i] = q[i + 1]
        /\ 1 \in 1..Len(q)
        /\ \A i \in 1..Len(q) : LineOf(q[i]) \in Int
    <2>1. \A i \in 1..Len(q) : LineOf(q[i]) \in Int
      BY <1>1, Numbers
    <2> QED
      BY <1>2, <1>3, <2>1
  <1>5. Climbing(r)
    BY <1>2, <1>4 DEF Climbing
  <1>6. /\ lines' = [lines EXCEPT ![l] = r]
        /\ UNCHANGED <<conns, inq, sent>>
        /\ UNCHANGED given \/ (qvp # None /\ given' = [given EXCEPT ![qvp] = Append(given[qvp], m)])
    BY <1>1, <1>3 DEF LoopParse, serverVars, TypeInv, TypeOK, LoopType, ReadType
  <1>7. \A s \in Sessions : lines'[s] = IF s = l THEN r ELSE lines[s]
    BY <1>6 DEF TypeInv, TypeOK, LoopType
  <1>8. ASSUME NEW s \in Sessions
        PROVE  given'[s] = given[s] \/ (given'[s] = Append(given[s], m) /\ s = qvp)
    BY <1>6 DEF TypeInv, TypeOK, ReadType
  <1>9. ASSUME NEW s \in Sessions
        PROVE  \A i \in 1..Len(given'[s]) :
                 \/ i \in 1..Len(given[s]) /\ given'[s][i] = given[s][i]
                 \/ given'[s][i] = m /\ \A k \in 1..Len(given'[s]) : k <= i
    <2>1. given[s] \in Seq(Halves)
      BY Numbers
    <2>2. CASE given'[s] = given[s]
      BY <2>2
    <2>3. CASE given'[s] = Append(given[s], m)
      <3>1. /\ Len(given'[s]) = Len(given[s]) + 1 /\ Len(given[s]) \in Nat
            /\ \A i \in 1..Len(given[s]) : given'[s][i] = given[s][i]
            /\ given'[s][Len(given[s]) + 1] = m
        BY <1>2, <2>1, <2>3, AppendProperties
      <3> QED
        BY <3>1
    <2> QED
      BY <1>8, <2>2, <2>3
  <1>10. SentSoFar'
    <2>1. \A s \in Sessions : \A i \in 1..Len(lines'[s]) : LineOf(lines'[s][i]) <= sent
      BY <1>1, <1>4, <1>7 DEF Order, SentSoFar
    <2>2. LineOf(m) <= sent
      BY <1>1, <1>2, <1>4 DEF Order, SentSoFar
    <2>3. \A s \in Sessions : \A i \in 1..Len(given'[s]) : LineOf(given'[s][i]) <= sent
      BY <1>9, <2>2 DEF Order, SentSoFar
    <2> QED
      BY <1>6, <2>1, <2>3 DEF Order, SentSoFar
  <1>11. Sorted'
    <2>1. ASSUME ~reopened', NEW s \in Sessions PROVE Climbing(given'[s])
      <3> SUFFICES ASSUME NEW i \in 1..Len(given'[s]), NEW j \in 1..Len(given'[s]), i < j
                   PROVE  LineOf(given'[s][i]) < LineOf(given'[s][j])
        BY DEF Climbing
      <3>1. i \in 1..Len(given[s]) /\ given'[s][i] = given[s][i]
        BY <1>9
      <3>2. CASE j \in 1..Len(given[s]) /\ given'[s][j] = given[s][j]
        BY <2>1, <3>1, <3>2 DEF Order, Sorted, Climbing
      <3>3. CASE given'[s][j] = m
        <4>1. LineOf(given[s][i]) < LineOf(lines[l][1])
          BY <1>1, <1>4, <2>1, <3>1 DEF Order, Ahead
        <4> QED
          BY <1>1, <1>2, <3>1, <3>3, <4>1
      <3> QED
        BY <1>9, <3>2, <3>3
    <2> QED
      BY <1>5, <1>6, <1>7, <2>1 DEF Order, Sorted
  <1>12. Ahead'
    <2> SUFFICES ASSUME ~reopened' PROVE Ahead'
      BY DEF Ahead
    <2>0. Ahead /\ ~reopened
      BY DEF Order
    <2>1. \A k \in Sessions \ {l} : Len(lines[k]) = 0
      <3> SUFFICES ASSUME NEW k \in Sessions \ {l} PROVE Len(lines[k]) = 0
        OBVIOUS
      <3>1. pc[l] = "lp_parse"
        BY DEF LoopParse
      <3>2. pc[k] # "lp_parse"
        BY <2>0, <3>1 DEF OneLooper, Held
      <3>3. lines[k] = <<>>
        BY <3>2 DEF TypeInv, TypeOK, LoopType
      <3> QED
        BY <3>3
    <2>2. ASSUME NEW s \in Sessions, conns \in Conns, NEW i \in 1..Len(given'[s]),
                 NEW j \in 1..Len(inq[conns])
          PROVE  2 * LineOf(given'[s][i]) < inq[conns][j]
      <3>1. 2 * LineOf(q[1]) < inq[conns][j]
        BY <1>1, <1>4, <2>0, <2>2 DEF Ahead
      <3> QED
        BY <1>2, <1>9, <2>0, <2>2, <3>1 DEF Ahead
    <2>3. ASSUME NEW s \in Sessions, conns \in Conns, NEW i \in 1..Len(lines'[s]),
                 NEW j \in 1..Len(inq[conns])
          PROVE  2 * LineOf(lines'[s][i]) < inq[conns][j]
      <3>1. CASE s = l
        <4>1. i + 1 \in 1..Len(q) /\ lines'[s][i] = q[i + 1]
          BY <1>4, <1>7, <2>3, <3>1
        <4> QED
          BY <1>1, <2>0, <2>3, <4>1 DEF Ahead
      <3>2. CASE s # l
        BY <1>7, <2>0, <2>3, <3>2 DEF Ahead
      <3> QED
        BY <3>1, <3>2
    <2>4. ASSUME NEW s \in Sessions, NEW k \in Sessions, NEW i \in 1..Len(given'[s]),
                 NEW j \in 1..Len(lines'[k])
          PROVE  LineOf(given'[s][i]) < LineOf(lines'[k][j])
      <3>1. k = l /\ lines'[k] = r
        <4>1. CASE k # l
          <5>1. Len(lines'[k]) = 0
            BY <1>7, <2>1, <4>1
          <5> QED
            BY <2>4, <5>1
        <4> QED
          BY <1>7, <4>1
      <3>2. r[j] = q[j + 1] /\ j + 1 \in 1..Len(q)
        BY <1>4, <2>4, <3>1
      <3>3. LineOf(q[1]) < LineOf(q[j + 1])
        BY <1>2, <1>4, <2>4, <3>1, <3>2 DEF Climbing
      <3>4. \A e \in 1..Len(given[s]) : LineOf(given[s][e]) < LineOf(q[j + 1])
        BY <1>1, <2>0, <3>2 DEF Ahead
      <3> QED
        BY <1>2, <1>9, <3>1, <3>2, <3>3, <3>4
    <2>5. conns' = conns /\ inq' = inq
      BY <1>6
    <2> QED
      BY <2>2, <2>3, <2>4, <2>5, SMTT(30) DEF Ahead
  <1> QED
    BY <1>10, <1>11, <1>12 DEF Order

\* A line that is sent has a number above all others.
LEMMA SendKeepsOrder ==
    ASSUME TypeInv, Order, reopened => reopened', NEW c \in Conns, ServerSend(c)
    PROVE  Order'
  <1>1. /\ sent' = sent + 1 /\ sent \in Nat
        /\ \A d \in Conns \ {c} : inq'[d] = inq[d]
        /\ Len(inq'[c]) = Len(inq[c]) + 2
        /\ \A i \in 1..Len(inq[c]) : inq'[c][i] = inq[c][i]
        /\ inq'[c][Len(inq[c]) + 1] = 2 * sent + 1
        /\ inq'[c][Len(inq[c]) + 2] = 2 * sent + 2
    BY ServerSends, Numbers
  <1>2. /\ UNCHANGED <<conns, lines, given>> /\ c \in 1..conns /\ conns \in Nat
    BY ServerFrame, Numbers DEF loopVars
  <1>3. Len(inq[c]) \in Nat
    BY Numbers
  <1>4. \A i \in 1..Len(inq'[c]) :
          \/ i \in 1..Len(inq[c]) /\ inq'[c][i] = inq[c][i]
          \/ i = Len(inq[c]) + 1 /\ inq'[c][i] = 2 * sent + 1
          \/ i = Len(inq[c]) + 2 /\ inq'[c][i] = 2 * sent + 2
    BY ONLY <1>1, <1>3, SMTT(30)
  <1>5. \A d \in Conns : d = c \/ inq'[d] = inq[d]
    BY <1>1
  <1>6. SentSoFar'
    <2>1. \A d \in Conns : \A i \in 1..Len(inq'[d]) : inq'[d][i] <= 2 * sent'
      <3> SUFFICES ASSUME NEW d \in Conns, NEW i \in 1..Len(inq'[d]) PROVE inq'[d][i] <= 2 * sent'
        OBVIOUS
      <3>1. inq'[d] = inq[d] => inq'[d][i] \in Int /\ inq'[d][i] <= 2 * sent
        BY Numbers DEF Order, SentSoFar
      <3>2. CASE d = c
        <4>1. \A k \in 1..Len(inq[c]) : inq[c][k] \in Int /\ inq[c][k] <= 2 * sent
          BY Numbers DEF Order, SentSoFar
        <4>2. \/ i \in 1..Len(inq[c]) /\ inq'[d][i] = inq[c][i]
              \/ inq'[d][i] = 2 * sent + 1
              \/ inq'[d][i] = 2 * sent + 2
          BY <1>4, <3>2
        <4>3. \A x \in Int : x <= 2 * sent => x <= 2 * sent'
          BY <1>1
        <4>4. 2 * sent + 1 <= 2 * sent' /\ 2 * sent + 2 <= 2 * sent'
          BY <1>1
        <4> QED
          BY <4>1, <4>2, <4>3, <4>4
      <3> QED
        BY <1>1, <1>5, <3>1, <3>2
    <2>2. \A d \in Conns : d > conns => Len(inq'[d]) = 0
      <3>1. \A d \in Conns : d > conns => Len(inq[d]) = 0
        BY DEF Order, SentSoFar
      <3>2. \A d \in Conns : d > conns => d # c
        BY <1>2
      <3> QED
        BY <1>5, <3>1, <3>2
    <2>3. \A s \in Sessions : /\ \A i \in 1..Len(lines[s]) : LineOf(lines[s][i]) <= sent + 1
                              /\ \A i \in 1..Len(given[s]) : LineOf(given[s][i]) <= sent + 1
      BY <1>1, Numbers, SMTT(30) DEF Order, SentSoFar
    <2> QED
      BY <1>1, <1>2, <2>1, <2>2, <2>3 DEF SentSoFar
  <1>7. Sorted'
    <2>1. Rising(inq'[c])
      <3> SUFFICES ASSUME NEW i \in 1..Len(inq'[c]), NEW j \in 1..Len(inq'[c]), i < j
                   PROVE  inq'[c][i] < inq'[c][j]
        BY DEF Rising
      <3>1. \A k \in 1..Len(inq[c]) : inq[c][k] \in Int /\ inq[c][k] <= 2 * sent
        BY Numbers DEF Order, SentSoFar
      <3>2. CASE j \in 1..Len(inq[c])
        <4>1. i \in 1..Len(inq[c])
          BY <1>3, <3>2
        <4> QED
          BY <1>1, <3>2, <4>1 DEF Order, Sorted, Rising
      <3>3. CASE j \notin 1..Len(inq[c])
        <4>1. j = Len(inq[c]) + 1 \/ j = Len(inq[c]) + 2
          BY <1>4, <3>3
        <4>2. CASE i \in 1..Len(inq[c])
          <5>1. inq'[c][i] = inq[c][i] /\ inq[c][i] \in Int /\ inq[c][i] <= 2 * sent
            BY <1>1, <3>1, <4>2
          <5> QED
            BY <1>1, <4>1, <5>1
        <4>3. CASE i = Len(inq[c]) + 1 /\ j = Len(inq[c]) + 2
          BY <1>1, <4>3
        <4> QED
          BY <1>3, <1>4, <4>1, <4>2, <4>3
      <3> QED
        BY <3>2, <3>3
    <2> QED
      BY <1>2, <1>5, <2>1 DEF Order, Sorted
  <1>8. Ahead'
    <2> SUFFICES ASSUME ~reopened' PROVE Ahead'
      BY DEF Ahead
    <2>0. Ahead /\ ~reopened
      BY DEF Order
    <2>1. ASSUME NEW s \in Sessions, conns \in Conns, NEW j \in 1..Len(inq'[conns])
          PROVE  /\ \A i \in 1..Len(given[s]) : 2 * LineOf(given[s][i]) < inq'[conns][j]
                 /\ \A i \in 1..Len(lines[s]) : 2 * LineOf(lines[s][i]) < inq'[conns][j]
      <3>1. CASE inq'[conns][j] = inq[conns][j] /\ j \in 1..Len(inq[conns])
        BY <2>0, <2>1, <3>1 DEF Ahead
      <3>2. CASE inq'[conns][j] \in {2 * sent + 1, 2 * sent + 2}
        <4>1. /\ \A i \in 1..Len(given[s]) : LineOf(given[s][i]) \in Int /\ LineOf(given[s][i]) <= sent
              /\ \A i \in 1..Len(lines[s]) : LineOf(lines[s][i]) \in Int /\ LineOf(lines[s][i]) <= sent
          BY Numbers DEF Order, SentSoFar
        <4>2. \A x \in Int : x <= sent => 2 * x < 2 * sent + 1 /\ 2 * x < 2 * sent + 2
          BY <1>1
        <4> QED
          BY <3>2, <4>1, <4>2
      <3> QED
        BY <1>4, <1>5, <2>1, <3>1, <3>2
    <2> QED
      BY <1>2, <2>0, <2>1 DEF Ahead
  <1> QED
    BY <1>6, <1>7, <1>8 DEF Order

\* The lines stay in order.
LEMMA OrderStep ==
    ASSUME TypeInv, OneLooper, Current, Order, Next
    PROVE  Order'
  <1>1. reopened => reopened'
    BY Monotone
  <1>2. CASE UNCHANGED <<conns, inq, sent, lines, given>>
    BY <1>1, <1>2 DEF Order, SentSoFar, Sorted, Ahead
  <1> QED
    BY <1>1, <1>2, LinesStay, ConnectKeepsOrder, DataKeepsOrder, ParseKeepsOrder, SendKeepsOrder

\* The looper and close() do not get into each other's way: the steps of close().
LEMMA CleanControl ==
    ASSUME TypeInv, OneLooper, Clean, ~reopened', ~away', ~reopened, ~away,
           OpenBegin \/ CloseBegin \/ Construct \/ Destruct \/ ControlStep
    PROVE  Clean'
  <1>0. /\ Held /\ Whole /\ Idle
        /\ \A l \in Sessions : l = loop => Turns(l) /\ ByLooper(l) /\ ByClose(l)
        /\ None \notin Sessions
        /\ \A s \in Sessions : s # Control /\ s \in Threads /\ s \in Callers
        /\ Control \in Threads /\ Control \in Callers
        /\ pc \in [Threads -> Labels] /\ obj \in [Callers -> {None} \cup Sessions]
        /\ opens \in 0..MaxOpens
    BY Places DEF OneLooper, Clean, TypeInv, TypeOK, CallerType
  <1>1. UNCHANGED <<ircVars, fds, files, conns>>
    BY ControlFrame
  <1> SUFFICES Idle' /\ \A l \in Sessions : l = loop' => Turns(l)' /\ ByLooper(l)' /\ ByClose(l)'
    BY DEF Clean
  <1>2. CASE OpenBegin
    <2>1. loop = None
      BY <1>2, Zenon DEF OpenBegin
    <2>2. loop' = None /\ ~cancel'
      BY <1>2, <2>1 DEF OpenBegin
    <2>3. opens' = opens \/ opens' = opens + 1
      BY <1>2 DEF OpenBegin
    <2>4. \A s \in Sessions : s >= opens' /\ opens' # opens => s > opens
      BY <1>0, <2>3, Bounds DEF Sessions
    <2>5. opens' = opens => pc'[Control] \notin {"op_queue", "op_start"}
      BY <1>0, <1>2 DEF OpenBegin
    <2>6. Idle'
      <3>1. ASSUME NEW s \in Sessions,
                   s > opens' \/ (s = opens' /\ pc'[Control] \in {"op_queue", "op_start"})
            PROVE  s > opens
        BY <1>0, <2>3, <2>5, <3>1, Bounds DEF Sessions
      <3> QED
        BY <1>0, <1>1, <2>1, <2>2, <3>1 DEF Idle, Shut, ircVars, kernelVars
    <2> QED
      BY <1>0, <2>2, <2>6
  <1>3. CASE OpenQueue
    BY <1>0, <1>1, <1>3 DEF OpenQueue, Goto, Whole, Idle, Shut, ircVars, kernelVars, historyVars
  <1>4. CASE OpenStart
    <2>1. opens \in Sessions
      BY <1>4, Bounds DEF OpenStart, TypeInv, TypeOK, HistoryType, Known, Sessions
    <2>2. Shut /\ ~cancel /\ ~connected[opens]
      BY <1>0, <1>4, <2>1 DEF OpenStart, Whole, Idle
    <2>3. /\ loop' = opens /\ cancel' = cancel /\ opens' = opens
          /\ pc'[Control] = "idle" /\ pc'[opens] = "lp_start"
      BY <1>0, <1>4, <2>1 DEF OpenStart, historyVars
    <2>4. Shut' /\ connected' = connected
      BY <1>1, <2>2 DEF Shut, ircVars, kernelVars
    <2>5. Idle'
      BY <1>0, <2>1, <2>3, <2>4 DEF Idle
    <2>6. Turns(opens)' /\ ByLooper(opens)' /\ ByClose(opens)'
      BY <1>0, <2>1, <2>2, <2>3, <2>4 DEF Turns, ByLooper, ByClose, DisconnectPc, InMessageLoop
    <2> QED
      BY <2>3, <2>5, <2>6
  <1>5. CASE Construct
    <2>1. opens' \in Sessions /\ opens' > opens
      BY <1>5, Bounds DEF Construct, TypeInv, TypeOK, HistoryType, Sessions
    <2>2. loop = None
      BY <1>0, <1>5 DEF Construct, Whole
    <2>3. Shut /\ ~connected[opens']
      BY <1>0, <2>1, <2>2 DEF Idle
    <2>4. /\ loop' = opens' /\ ~cancel' /\ opens' = opens + 1
          /\ pc'[Control] = "idle" /\ pc'[opens'] = "lp_start"
      BY <1>0, <1>5, <2>1 DEF Construct, Goto
    <2>5. Shut' /\ connected' = connected
      BY <1>1, <2>3 DEF Shut, ircVars, kernelVars
    <2>6. Idle'
      <3>1. ASSUME NEW s \in Sessions, s > opens' PROVE s > opens
        BY <1>0, <2>4, <3>1, Bounds DEF Sessions
      <3> QED
        BY <1>0, <2>1, <2>4, <2>5, <3>1 DEF Idle
    <2>7. ASSUME NEW l \in Sessions, l = opens' PROVE Turns(l)' /\ ByLooper(l)' /\ ByClose(l)'
      BY <1>0, <2>3, <2>4, <2>5, <2>7 DEF Turns, ByLooper, ByClose, DisconnectPc, InMessageLoop
    <2> QED
      BY <2>4, <2>6, <2>7
  <1>6. CASE CloseBegin \/ Destruct
    <2>1. Close
      BY <1>6 DEF CloseBegin, Destruct
    <2>2. loop \in Sessions /\ conn = loop /\ pc[Control] = "idle"
      BY <1>0, <2>1 DEF Close, Whole, TypeInv, TypeOK, NodeType
    <2>3. pc[loop] \in InMessageLoop
      BY <2>1, Zenon DEF Close
    <2>4. /\ cancel' /\ pc'[Control] = "cl_quit" /\ obj'[Control] = loop /\ loop' = loop
          /\ opens' = opens
          /\ \A s \in Sessions : pc'[s] = pc[s] /\ obj'[s] = obj[s]
      BY <1>0, <2>1, <2>2 DEF Close, Goto
    <2>5. OnlyLast(loop) /\ connected[loop]
      BY <1>0, <2>2, <2>3 DEF ByClose
    <2>6. (OnlyLast(loop))' /\ connected' = connected
      BY <1>1, <2>4, <2>5 DEF OnlyLast, ircVars, kernelVars
    <2>7. Idle'
      BY <1>0, <2>2, <2>4, <2>6 DEF Idle
    <2>8. ASSUME NEW l \in Sessions, l = loop PROVE Turns(l)' /\ ByLooper(l)' /\ ByClose(l)'
      BY <1>0, <2>3, <2>4, <2>5, <2>6, <2>8 DEF Turns, ByLooper, ByClose, OnlyLast, DisconnectPc, InMessageLoop
    <2> QED
      BY <2>4, <2>7, <2>8
  <1>7. CASE CloseQuit \/ CloseSay
    <2>1. loop \in Sessions
      BY <1>0, <1>7 DEF CloseQuit, CloseSay, Whole, Closing, TypeInv, TypeOK, NodeType
    <2>2. /\ pc[Control] \in {"cl_quit", "cl_say"} /\ pc'[Control] \in {"cl_say", "dc_check"}
          /\ \A s \in Sessions : pc'[s] = pc[s]
          /\ UNCHANGED <<cancel, loop, opens, obj>>
      BY <1>0, <1>7 DEF CloseQuit, CloseSay, Goto, nodeVars, historyVars
    <2>3. UNCHANGED <<connected, dataout, fds, files, conns>>
      BY <1>1 DEF ircVars, kernelVars
    <2>4. Idle'
      BY <1>0, <2>2, <2>3 DEF Idle, Shut
    <2>5. ASSUME NEW l \in Sessions, l = loop PROVE Turns(l)' /\ ByLooper(l)' /\ ByClose(l)'
      BY <1>0, <2>2, <2>3, <2>5 DEF Turns, ByLooper, ByClose, OnlyLast, Shut, DisconnectPc, InMessageLoop
    <2> QED
      BY <2>2, <2>4, <2>5
  <1>8. CASE CloseJoin \/ DestructJoin
    <2>1. loop \in Sessions /\ pc[Control] = "cl_join"
      BY <1>0, <1>8 DEF CloseJoin, DestructJoin, Whole, Closing, TypeInv, TypeOK, NodeType
    <2>2. Shut
      BY <1>0, <2>1 DEF ByClose
    <2>3. loop' = None /\ pc'[Control] \in {"cl_null", "idle"} /\ opens' = opens
      BY <1>0, <1>8 DEF CloseJoin, DestructJoin, Goto, historyVars
    <2>4. Shut' /\ connected' = connected
      BY <1>1, <2>2 DEF Shut, ircVars, kernelVars
    <2>5. Idle'
      BY <1>0, <2>3, <2>4 DEF Idle
    <2> QED
      BY <1>0, <2>3, <2>5
  <1>9. CASE CloseNull
    <2>1. loop = None /\ loop' = None /\ pc'[Control] = "idle" /\ opens' = opens
      BY <1>0, <1>9 DEF CloseNull, Goto, Whole, historyVars
    <2> QED
      BY <1>0, <1>1, <2>1 DEF Idle, Shut, ircVars, kernelVars
  <1> QED
    BY <1>2, <1>3, <1>4, <1>5, <1>6, <1>7, <1>8, <1>9 DEF ControlStep

\* The same for disconnect(), whoever calls it.
LEMMA CleanDisconnect ==
    ASSUME TypeInv, OneLooper, Clean, ~reopened, ~away, NEW t \in Movers, Disconnect(t)
    PROVE  Clean'
  <1>0. /\ Held /\ Whole /\ Idle
        /\ \A l \in Sessions : l = loop => Turns(l) /\ ByLooper(l) /\ ByClose(l)
        /\ None \notin Sessions
        /\ \A s \in Sessions : s # Control /\ s \in Threads /\ s \in Callers
        /\ Control \in Threads /\ Control \in Callers
        /\ pc \in [Threads -> Labels] /\ connected \in [Sessions -> BOOLEAN]
        /\ t \in Threads
    BY Places, Roles DEF OneLooper, Clean, TypeInv, TypeOK, IrcType
  <1>1. UNCHANGED <<nodeVars, dataout, conns, obj, historyVars>>
    BY DisconnectFrame DEF serverVars
  <1>2. /\ pc[t] \in DisconnectPc
        /\ pc'[t] \in DisconnectPc \/ pc'[t] = IF t = Control THEN "cl_join" ELSE "lp_start"
        /\ \A u \in Threads \ {t} : pc'[u] = pc[u]
    BY DisconnectMoves
  <1>3. PICK l : l = loop
    OBVIOUS
  <1>4. l \in Sessions /\ obj[t] = l /\ t \in {Control, l}
    <2>1. CASE t = Control
      <3>1. loop \in Sessions
        BY <1>0, <1>2, <2>1 DEF Whole, Closing, TypeInv, TypeOK, NodeType
      <3>2. pc[Control] # "idle"
        BY <1>2, <2>1 DEF DisconnectPc
      <3> QED
        BY <1>0, <1>3, <2>1, <3>1, <3>2 DEF Turns
    <2>2. CASE t \in Sessions
      <3>1. loop = t
        BY <1>0, <1>2, <2>2 DEF Held, DisconnectPc
      <3> QED
        BY <1>0, <1>2, <1>3, <2>2, <3>1 DEF ByLooper
    <2> QED
      BY <2>1, <2>2 DEF Movers
  <1>5. Turns(l) /\ ByLooper(l) /\ ByClose(l)
    BY <1>0, <1>3, <1>4
  <1> SUFFICES Idle' /\ Turns(l)' /\ ByLooper(l)' /\ ByClose(l)'
    BY <1>1, <1>3 DEF Clean, nodeVars
  <1>6. loop' = l /\ cancel' = cancel /\ opens' = opens /\ loop # None
    BY <1>0, <1>1, <1>3, <1>4 DEF nodeVars, historyVars
  <1>7. \A s \in Sessions : connected'[s] => connected[s]
    BY <1>0 DEF Disconnect, DisconnectCheck, DisconnectFclose, DisconnectMark, DisconnectSocket, ircVars
  <1>8. Idle'
    <2>1. pc'[Control] \in {"op_queue", "op_start"} => pc[Control] \in {"op_queue", "op_start"}
      BY <1>0, <1>2 DEF DisconnectPc
    <2>2. loop' # None
      BY <1>3, <1>6
    <2>3. pc'[Control] \in {"op_queue", "op_start"} => ~cancel'
      BY <1>0, <1>6, <2>1 DEF Idle
    <2>4. ASSUME NEW s \in Sessions,
                 s > opens' \/ (s = opens' /\ pc'[Control] \in {"op_queue", "op_start"})
          PROVE  ~connected'[s]
      <3>1. opens' = opens
        BY <1>6
      <3>2. s > opens \/ (s = opens /\ pc[Control] \in {"op_queue", "op_start"})
        BY <2>1, <2>4, <3>1
      <3>3. ~connected[s]
        BY <1>0, <3>2 DEF Idle
      <3> QED
        BY <1>7, <3>3
    <2> QED
      BY <2>2, <2>3, <2>4 DEF Idle
  <1>9. CASE t = Control
    <2>1. pc'[l] = pc[l] /\ cancel /\ pc[l] \in InMessageLoop \cup {"done"} /\ obj[Control] = l
      <3>1. pc[Control] # "idle"
        BY <1>2, <1>9 DEF DisconnectPc
      <3> QED
        BY <1>0, <1>2, <1>4, <1>5, <1>9, <3>1 DEF Turns
    <2>2. pc'[Control] \in DisconnectPc \cup {"cl_join"}
      BY <1>0, <1>2, <1>9
    <2>3. Turns(l)' /\ ByLooper(l)'
      BY <1>1, <1>6, <2>1, <2>2 DEF Turns, ByLooper, DisconnectPc, InMessageLoop
    <2>4. ByClose(l)'
      <3>1. CASE DisconnectCheck(t)
        <4>1. OnlyLast(l) /\ connected[l]
          BY <1>5, <1>9, <2>1, <3>1 DEF DisconnectCheck, ByClose
        <4>2. pc'[Control] = "dc_fclose" /\ UNCHANGED <<connected, dataout, fds, files, conns>>
          BY <1>0, <1>4, <1>9, <3>1, <4>1 DEF DisconnectCheck, Goto, ircVars, kernelVars, serverVars
        <4> QED
          BY <2>1, <4>1, <4>2 DEF ByClose, OnlyLast
      <3>2. CASE DisconnectFclose(t)
        <4>1. OnlyLast(l)
          BY <1>5, <1>9, <2>1, <3>2 DEF DisconnectFclose, ByClose
        <4>2. pc'[Control] = "dc_mark" /\ fds' = {} /\ files' = {}
          BY <1>0, <1>4, <1>9, <3>2, <4>1 DEF DisconnectFclose, Goto, OnlyLast
        <4> QED
          BY <4>2 DEF ByClose, Shut
      <3>3. CASE DisconnectMark(t) \/ DisconnectSocket(t)
        <4>1. Shut
          BY <1>5, <1>9, <3>3 DEF DisconnectMark, DisconnectSocket, ByClose
        <4>2. pc'[Control] \in {"dc_socket", "cl_join"} /\ fds' = {} /\ files' = {}
          BY <1>0, <1>9, <3>3, <4>1 DEF DisconnectMark, DisconnectSocket, Disconnected, Goto, Shut,
             kernelVars
        <4> QED
          BY <4>2 DEF ByClose, Shut
      <3> QED
        BY <3>1, <3>2, <3>3 DEF Disconnect
    <2> QED
      BY <1>8, <2>3, <2>4
  <1>10. CASE t = l
    <2>1. pc[Control] = "idle" /\ pc'[Control] = "idle" /\ ~cancel
      <3>1. pc[l] \notin InMessageLoop \cup {"done"}
        BY <1>2, <1>10 DEF DisconnectPc, InMessageLoop
      <3>2. pc[Control] = "idle" /\ ~cancel
        BY <1>5, <3>1 DEF Turns
      <3>3. pc'[Control] = pc[Control]
        BY <1>0, <1>2, <1>4, <1>10
      <3> QED
        BY <3>2, <3>3
    <2>2. pc'[l] \in DisconnectPc \cup {"lp_start"}
      BY <1>0, <1>2, <1>4, <1>10
    <2>3. Turns(l)' /\ ByClose(l)'
      BY <1>6, <2>1, <2>2 DEF Turns, ByClose, DisconnectPc, InMessageLoop
    <2>4. ByLooper(l)'
      <3>0. obj'[l] = l
        BY <1>1, <1>4, <1>10
      <3>1. CASE DisconnectCheck(t)
        <4>1. OnlyLast(l) /\ connected[l]
          BY <1>5, <1>10, <3>1 DEF DisconnectCheck, ByLooper
        <4>2. pc'[l] = "dc_fclose" /\ UNCHANGED <<connected, dataout, fds, files, conns>>
          BY <1>0, <1>4, <1>10, <3>1, <4>1 DEF DisconnectCheck, Goto, ircVars, kernelVars, serverVars
        <4> QED
          BY <3>0, <4>1, <4>2 DEF ByLooper, OnlyLast
      <3>2. CASE DisconnectFclose(t)
        <4>1. OnlyLast(l)
          BY <1>5, <1>10, <3>2 DEF DisconnectFclose, ByLooper
        <4>2. pc'[l] = "dc_mark" /\ fds' = {} /\ files' = {}
          BY <1>0, <1>4, <1>10, <3>2, <4>1 DEF DisconnectFclose, Goto, OnlyLast
        <4> QED
          BY <3>0, <4>2 DEF ByLooper, Shut
      <3>3. CASE DisconnectMark(t)
        <4>1. Shut
          BY <1>5, <1>10, <3>3 DEF DisconnectMark, ByLooper
        <4>2. pc'[l] = "dc_socket" /\ fds' = {} /\ files' = {} /\ ~connected'[l]
          BY <1>0, <1>4, <1>10, <3>3, <4>1 DEF DisconnectMark, Goto, Shut, kernelVars
        <4> QED
          BY <3>0, <4>2 DEF ByLooper, Shut
      <3>4. CASE DisconnectSocket(t)
        <4>1. Shut /\ ~connected[l]
          BY <1>5, <1>10, <3>4 DEF DisconnectSocket, ByLooper
        <4>2. pc'[l] = "lp_start" /\ fds' = {} /\ files' = {} /\ ~connected'[l]
          BY <1>0, <1>4, <1>10, <3>4, <4>1 DEF DisconnectSocket, Disconnected, Goto, Shut, ircVars
        <4> QED
          BY <4>2 DEF ByLooper, Shut, DisconnectPc
      <3> QED
        BY <3>1, <3>2, <3>3, <3>4 DEF Disconnect
    <2> QED
      BY <1>8, <2>3, <2>4
  <1> QED
    BY <1>4, <1>9, <1>10

\* The same for the looper.
LEMMA CleanLooper ==
    ASSUME TypeInv, OneLooper, Current, Clean, ~reopened, ~away, NEW l \in Sessions,
           LooperStep(l) \/ LoopError(l)
    PROVE  Clean'
  <1>0. /\ Held /\ Whole /\ Idle
        /\ \A k \in Sessions : k = loop => Turns(k) /\ ByLooper(k) /\ ByClose(k)
        /\ None \notin Sessions
        /\ l # Control /\ l \in Threads /\ l \in Callers
        /\ Control \in Threads /\ Control \in Callers
        /\ pc \in [Threads -> Labels] /\ connected \in [Sessions -> BOOLEAN]
        /\ obj \in [Callers -> {None} \cup Sessions] /\ dataout \in [Sessions -> {None} \cup Conns]
    BY Places DEF OneLooper, Clean, TypeInv, TypeOK, IrcType, CallerType
  <1>1. UNCHANGED <<nodeVars, historyVars>>
    BY LooperFrame
  <1>2. /\ pc[l] \in LoopPc \ {"none", "done"}
        /\ \A u \in Threads \ {l} : pc'[u] = pc[u]
    BY LooperMoves
  <1>3. loop = l /\ conn = l /\ loop' = l /\ cancel' = cancel /\ opens' = opens /\ l = opens
    BY <1>0, <1>1, <1>2 DEF Held, Whole, nodeVars, historyVars
  <1>4. Turns(l) /\ ByLooper(l) /\ ByClose(l)
    BY <1>0, <1>3
  <1>5. pc'[Control] = pc[Control]
    BY <1>0, <1>2
  <1>6. obj'[Control] = obj[Control]
    BY <1>0 DEF LooperStep, LoopLost, LoopStart, LoopConnect, LoopMark, LoopHello, LoopMessages,
       LoopRecv, LoopData, LoopHangup, LoopError, LoopParse, LoopEnd, LoopDisconnect
  <1> SUFFICES Idle' /\ Turns(l)' /\ ByLooper(l)' /\ ByClose(l)'
    BY <1>3 DEF Clean
  <1>7. pc[Control] \notin {"op_queue", "op_start"}
    BY <1>0, <1>3 DEF Whole
  <1>8. \A k \in Sessions \ {l} : connected'[k] = connected[k]
    <2>1. UNCHANGED connected \/ (LoopMark(l) /\ obj[l] = l)
      BY <1>0 DEF Current, LooperStep, LoopLost, LoopStart, LoopConnect, LoopMark, LoopHello, LoopMessages,
         LoopRecv, LoopData, LoopHangup, LoopError, LoopParse, LoopEnd, LoopDisconnect, ircVars, Receiving
    <2> QED
      BY <1>0, <2>1 DEF LoopMark
  <1>9. Idle'
    <2>1. ASSUME NEW s \in Sessions, s > opens PROVE s # l
      BY <1>3, <2>1, Bounds DEF Sessions
    <2>2. loop' # None
      BY <1>0, <1>3
    <2> QED
      BY <1>0, <1>3, <1>5, <1>7, <1>8, <2>1, <2>2 DEF Idle
  <1>10. CASE LoopLost(l)
    BY <1>0, <1>2, <1>3, <1>10 DEF LoopLost, Whole
  <1>11. CASE LoopStart(l) \/ LoopConnect(l) \/ LoopMark(l) \/ LoopHello(l) \/ LoopDisconnect(l)
    <2>1. pc[Control] = "idle" /\ ~cancel
      BY <1>4, <1>11 DEF Turns, LoopStart, LoopConnect, LoopMark, LoopHello, LoopDisconnect, InMessageLoop
    <2>2. CASE LoopStart(l)
      <3>1. Shut /\ ~connected[l]
        BY <1>4, <2>2 DEF LoopStart, ByLooper
      <3>2. pc'[l] = "lp_connect" /\ UNCHANGED <<connected, fds, files>>
        BY <1>0, <2>2 DEF LoopStart, Goto, ircVars, kernelVars
      <3> QED
        BY <1>3, <1>5, <1>9, <2>1, <3>1, <3>2 DEF Turns, ByLooper, ByClose, Shut, DisconnectPc, InMessageLoop
    <2>3. CASE LoopConnect(l)
      <3>1. Shut /\ ~connected[l] /\ obj[l] = l
        BY <1>4, <2>3 DEF LoopConnect, ByLooper, Current
      <3>2. CASE UNCHANGED <<conns, irc_socket, dataout, fds, files, pc>>
        BY <1>3, <1>4, <1>9, <2>1, <2>3, <3>1, <3>2 DEF LoopConnect, Turns, ByLooper, ByClose, Shut,
           DisconnectPc, InMessageLoop
      <3>3. CASE /\ conns < MaxConns
                 /\ conns' = conns + 1
                 /\ irc_socket' = [irc_socket EXCEPT ![obj[l]] = conns + 1]
                 /\ dataout' = [dataout EXCEPT ![obj[l]] = conns + 1]
                 /\ fds' = fds \cup {conns + 1}
                 /\ files' = files \cup {conns + 1}
                 /\ Goto(l, "lp_mark")
        <4>1. OnlyLast(l)' /\ pc'[l] = "lp_mark"
          BY <1>0, <3>1, <3>3 DEF OnlyLast, Shut, Goto
        <4> QED
          BY <1>3, <1>5, <1>9, <2>1, <4>1 DEF Turns, ByLooper, ByClose, DisconnectPc, InMessageLoop
      <3> QED
        BY <2>3, <3>2, <3>3 DEF LoopConnect
    <2>4. CASE LoopMark(l) \/ LoopHello(l)
      <3>1. OnlyLast(l) /\ obj[l] = l
        BY <1>4, <2>4 DEF LoopMark, LoopHello, ByLooper, Current, Receiving
      <3>2. LoopHello(l) => connected[l]
        BY <1>4 DEF LoopHello, ByLooper
      <3>3. /\ pc'[l] \in {"lp_hello", "lp_loop"} /\ connected'[l]
            /\ UNCHANGED <<dataout, fds, files, conns>>
        BY <1>0, <2>4, <3>1, <3>2 DEF LoopMark, LoopHello, Goto, ircVars, kernelVars, serverVars
      <3> QED
        BY <1>3, <1>5, <1>9, <2>1, <3>1, <3>3 DEF Turns, ByLooper, ByClose, OnlyLast, DisconnectPc, InMessageLoop
    <2>5. CASE LoopDisconnect(l)
      <3>1. OnlyLast(l) /\ connected[l]
        BY <1>4, <2>5 DEF LoopDisconnect, ByLooper
      <3>2. /\ pc'[l] = "dc_check" /\ obj'[l] = l
            /\ UNCHANGED <<connected, dataout, fds, files, conns>>
        BY <1>0, <1>3, <2>5 DEF LoopDisconnect, Goto, ircVars, kernelVars, serverVars
      <3> QED
        BY <1>3, <1>5, <1>9, <2>1, <3>1, <3>2 DEF Turns, ByLooper, ByClose, OnlyLast, DisconnectPc, InMessageLoop
    <2> QED
      BY <1>11, <2>2, <2>3, <2>4, <2>5
  <1>12. CASE \/ LoopMessages(l) \/ LoopRecv(l) \/ LoopData(l) \/ LoopHangup(l) \/ LoopError(l)
              \/ LoopParse(l)
    <2>1. pc[l] \in InMessageLoop
      BY <1>12 DEF LoopMessages, LoopRecv, LoopData, LoopHangup, LoopError, LoopParse, InMessageLoop
    <2>2. pc'[l] \in InMessageLoop
      <3>1. CASE LoopData(l)
        BY <1>0, <3>1, LooperData DEF Goto, InMessageLoop
      <3>2. CASE ~LoopData(l)
        BY <1>0, <1>12, <3>2 DEF LoopMessages, LoopRecv, LoopHangup, LoopError, LoopParse, Goto, InMessageLoop
      <3> QED
        BY <3>1, <3>2
    <2>3. UNCHANGED <<connected, dataout, fds, files, conns>>
      BY <1>12 DEF LoopMessages, LoopRecv, LoopData, LoopHangup, LoopError, LoopParse, ircVars, kernelVars,
         serverVars
    <2>4. Turns(l)' /\ ByLooper(l)' /\ ByClose(l)'
      BY <1>3, <1>4, <1>5, <1>6, <2>1, <2>2, <2>3 DEF Turns, ByLooper, ByClose, OnlyLast, Shut, DisconnectPc,
         InMessageLoop
    <2> QED
      BY <1>9, <2>4
  <1>13. CASE LoopEnd(l)
    <2>1. pc[l] = "lp_end" /\ pc'[l] = IF cancel THEN "done" ELSE "lp_disc"
      BY <1>0, <1>13 DEF LoopEnd, Goto
    <2>2. UNCHANGED <<connected, dataout, fds, files, conns>>
      BY <1>13 DEF LoopEnd, ircVars, kernelVars, serverVars
    <2>3. CASE pc[Control] = "idle"
      <3>1. ~cancel /\ pc'[l] = "lp_disc" /\ OnlyLast(l) /\ connected[l]
        BY <1>4, <2>1, <2>3 DEF Turns, ByClose, InMessageLoop
      <3> QED
        BY <1>3, <1>5, <1>9, <2>2, <2>3, <3>1 DEF Turns, ByLooper, ByClose, OnlyLast, DisconnectPc, InMessageLoop
    <2>4. CASE pc[Control] # "idle"
      <3>1. cancel /\ pc'[l] = "done"
        BY <1>4, <2>1, <2>4 DEF Turns
      <3> QED
        BY <1>3, <1>4, <1>5, <1>6, <1>9, <2>1, <2>2, <2>4, <3>1 DEF Turns, ByLooper, ByClose, OnlyLast, Shut,
           DisconnectPc, InMessageLoop
    <2> QED
      BY <2>3, <2>4
  <1> QED
    BY <1>10, <1>11, <1>12, <1>13 DEF LooperStep

\* The looper and close() do not get into each other's way.
LEMMA CleanStep ==
    ASSUME TypeInv, OneLooper, Current, Clean, Next
    PROVE  Clean'
  <1> SUFFICES ASSUME ~reopened', ~away' PROVE Clean'
    BY DEF Clean
  <1>1. ~reopened /\ ~away
    BY Monotone
  <1>2. CASE \/ \E t \in Callers : UseDeleted(t)
             \/ \E w \in Writers : WriteBegin(w) \/ WriteOut(w) \/ WritePrint(w)
             \/ \E r \in Readers : ReadBegin(r) \/ Update(r) \/ ReaderStep(r)
             \/ \E c \in Conns : ServerSend(c) \/ ServerHangup(c)
    <2>1. /\ UNCHANGED <<nodeVars, ircVars, kernelVars, conns, historyVars>>
          /\ \A t \in Movers : pc'[t] = pc[t] /\ obj'[t] = obj[t]
      BY <1>2, Others
    <2>2. Control \in Movers /\ Sessions \subseteq Movers
      BY Places
    <2> QED
      BY <1>1, <2>1, <2>2 DEF Clean, Idle, Turns, ByLooper, ByClose, OnlyLast, Shut, nodeVars, ircVars,
         kernelVars, historyVars
  <1> QED
    BY <1>1, <1>2, CleanControl, CleanDisconnect, CleanLooper DEF Next

\* The invariant is inductive.
LEMMA Invariant == Spec => []IInv
  <1>1. Init => IInv
    <2> SUFFICES ASSUME Init PROVE IInv
      OBVIOUS
    <2>1. TypeInv
      BY TypeInit
    <2>2. pc[Control] = "idle" /\ \A s \in Sessions : pc[s] = "none"
      BY Roles DEF Init
    <2>3. OneLooper /\ NotLost /\ Current
      BY <2>2 DEF Init, OneLooper, Held, Whole, Closing, DisconnectPc, NotLost, Current, Receiving
    <2>4. /\ \A c \in Conns : Len(inq[c]) = 0
          /\ \A s \in Sessions : Len(lines[s]) = 0 /\ Len(given[s]) = 0
      BY DEF Init
    <2>5. Order
      <3>1. SentSoFar
        BY <2>4 DEF SentSoFar
      <3>2. Sorted
        BY <2>4 DEF Sorted, Rising, Climbing
      <3>3. Ahead
        BY <2>4 DEF Ahead
      <3> QED
        BY <3>1, <3>2, <3>3 DEF Order
    <2>6. Clean
      BY <2>2, Places, <2>1 DEF Init, Clean, Idle, Shut
    <2> QED
      BY <2>1, <2>3, <2>5, <2>6 DEF IInv
  <1>2. IInv /\ [Next]_vars => IInv'
    <2> SUFFICES ASSUME IInv, [Next]_vars PROVE IInv'
      OBVIOUS
    <2>1. TypeInv'
      BY TypeStep DEF IInv
    <2>2. CASE Next
      BY <2>1, <2>2, OneLooperStep, NotLostStep, CurrentStep, OrderStep, CleanStep DEF IInv
    <2>3. CASE UNCHANGED vars
      BY <2>1, <2>3 DEF IInv, OneLooper, Held, Whole, NotLost, Current, Order, SentSoFar, Sorted, Ahead,
         Clean, Idle, Turns, ByLooper, ByClose, OnlyLast, Shut, vars, nodeVars, ircVars, kernelVars,
         serverVars, loopVars, historyVars
    <2> QED
      BY <2>2, <2>3
  <1> QED
    BY <1>1, <1>2, PTL DEF Spec

\* As long as close() comes before the next open(), the messages of a queue are
\* in the order in which the server sent their lines, and no line is there twice,
\* as a whole or as a tail, over all lost connections and whatever recv() returns.
THEOREM MessagesInOrder == Spec => []InOrder
  <1>1. IInv => InOrder
    <2> SUFFICES ASSUME IInv, ~reopened, NEW s \in Sessions, NEW i \in DOMAIN given[s],
                        NEW j \in DOMAIN given[s], i < j
                 PROVE  LineOf(given[s][i]) < LineOf(given[s][j])
      BY DEF InOrder
    <2>1. given[s] \in Seq(Halves)
      BY Numbers DEF IInv
    <2>2. i \in 1..Len(given[s]) /\ j \in 1..Len(given[s])
      BY <2>1
    <2> QED
      BY <2>2 DEF IInv, Order, Sorted, Climbing
  <1> QED
    BY <1>1, Invariant, PTL

\* As long as close() comes before the next open(), no looper finds _conn or
\* _qvp null, however close() and a lost connection overlap.
THEOREM NodeKept == Spec => []LooperKeepsNode
  <1>1. IInv => LooperKeepsNode
    BY DEF IInv, NotLost, LooperKeepsNode
  <1> QED
    BY <1>1, Invariant, PTL

\* After a close() that found the looper in message_loop() there is no looper,
\* and every connection that was made has had its FILE and descriptor closed.
THEOREM ClosedQuiet == Spec => []ClosedIsQuiet
  <1>1. IInv => ClosedIsQuiet
    <2> SUFFICES ASSUME IInv, ~reopened, ~away, pc[Control] = "idle", conn = None
                 PROVE  /\ \A s \in Sessions : pc[s] \in {"none", "done"}
                        /\ fds = {} /\ files = {}
      BY DEF ClosedIsQuiet
    <2>1. loop = None /\ None \notin Sessions
      BY Places DEF IInv, OneLooper, Whole
    <2> QED
      BY <2>1 DEF IInv, OneLooper, Held, Clean, Idle, Shut
  <1> QED
    BY <1>1, Invariant, PTL

-----------------------------------------------------------------------------
(* What ends the looper that close() joins                                  *)

\* close() says QUIT on the last connection before it takes it down, and marks the
\* object before it waits.
Quit == ~reopened /\ ~away => \A l \in Sessions : l = loop =>
    /\ pc[Control] \in DisconnectPc \cup {"cl_join"} => conns \in quits
    /\ pc[Control] \in {"dc_socket", "cl_join"} => ~connected[l]

\* A step of close() keeps it: the object is connected when close() begins.
LEMMA QuitControl ==
    ASSUME TypeInv, OneLooper, Clean, Quit, ~reopened, ~away, Next,
           OpenBegin \/ CloseBegin \/ Construct \/ Destruct \/ ControlStep
    PROVE  Quit'
  <1>0. /\ \A l \in Sessions : l = loop => Turns(l) /\ ByLooper(l) /\ ByClose(l)
        /\ Control \in Threads /\ pc \in [Threads -> Labels] /\ Held /\ Whole
        /\ \A s \in Sessions : s # Control
        /\ opens \in 0..MaxOpens
    BY Places DEF Clean, OneLooper
  <1>1. UNCHANGED <<connected, dataout, fds, files, conns>>
    BY ControlFrame DEF ircVars, kernelVars
  <1> SUFFICES ASSUME NEW l \in Sessions, l = loop'
               PROVE  /\ pc'[Control] \in DisconnectPc \cup {"cl_join"} => conns' \in quits'
                      /\ pc'[Control] \in {"dc_socket", "cl_join"} => ~connected'[l]
    BY DEF Quit
  <1>2. CASE CloseQuit
    <2>1. pc[Control] = "cl_quit" /\ loop = l
      BY <1>2 DEF CloseQuit, nodeVars
    <2>2. connected[l] /\ obj[Control] = l
      BY <1>0, <2>1 DEF Turns, ByClose
    <2>3. pc'[Control] = "cl_say"
      BY <1>0, <1>2, <2>2 DEF CloseQuit, Goto
    <2> QED
      BY <2>3 DEF DisconnectPc
  <1>3. CASE CloseSay
    <2>1. pc[Control] = "cl_say" /\ loop = l /\ pc'[Control] = "dc_check"
      BY <1>0, <1>3 DEF CloseSay, Goto, nodeVars
    <2>2. OnlyLast(l) /\ obj[Control] = l
      BY <1>0, <2>1 DEF Turns, ByClose
    <2>3. conns \in quits'
      BY <1>3, <2>2 DEF CloseSay, OnlyLast
    <2> QED
      BY <1>1, <2>1, <2>3
  <1>4. CASE CloseBegin \/ Destruct
    <2>1. pc'[Control] = "cl_quit"
      BY <1>0, <1>4 DEF CloseBegin, Destruct, Close, Goto
    <2> QED
      BY <2>1 DEF DisconnectPc
  <1>5. CASE Construct
    <2>1. opens' \in Sessions
      BY <1>0, <1>5, Bounds DEF Construct, Sessions
    <2>2. pc'[Control] = "idle"
      BY <1>0, <1>5, <2>1 DEF Construct, Goto
    <2> QED
      BY <2>2 DEF DisconnectPc
  <1>6. CASE OpenStart
    <2>1. pc'[Control] = "idle" \/ pc'[Control] = "lp_start"
      BY <1>0, <1>6 DEF OpenStart
    <2> QED
      BY <2>1 DEF DisconnectPc
  <1>7. CASE OpenBegin \/ OpenQueue \/ CloseJoin \/ DestructJoin \/ CloseNull
    <2>1. pc'[Control] \in {"idle", "op_queue", "op_start", "cl_null"}
      BY <1>0, <1>7 DEF OpenBegin, OpenQueue, CloseJoin, DestructJoin, CloseNull, Goto
    <2> QED
      BY <2>1 DEF DisconnectPc
  <1> QED
    BY <1>2, <1>3, <1>4, <1>5, <1>6, <1>7 DEF ControlStep

\* So does a disconnect(): close() reaches its end only by marking the object.
LEMMA QuitDisconnect ==
    ASSUME TypeInv, OneLooper, Clean, Quit, ~reopened, ~away, NEW t \in Movers, Disconnect(t)
    PROVE  Quit'
  <1>0. /\ \A l \in Sessions : l = loop => Turns(l) /\ ByLooper(l) /\ ByClose(l)
        /\ Control \in Threads /\ pc \in [Threads -> Labels] /\ Held
        /\ \A s \in Sessions : s # Control /\ s \in Threads
        /\ connected \in [Sessions -> BOOLEAN]
    BY Places DEF Clean, OneLooper, TypeInv, TypeOK, IrcType
  <1>1. UNCHANGED <<loop, conns, quits, obj>>
    BY DisconnectFrame DEF nodeVars, serverVars
  <1>2. /\ pc[t] \in DisconnectPc
        /\ \A u \in Threads \ {t} : pc'[u] = pc[u]
    BY DisconnectMoves
  <1> SUFFICES ASSUME NEW l \in Sessions, l = loop
               PROVE  /\ pc'[Control] \in DisconnectPc \cup {"cl_join"} => conns \in quits
                      /\ pc'[Control] \in {"dc_socket", "cl_join"} => ~connected'[l]
    BY <1>1 DEF Quit
  <1>3. CASE t = Control
    <2>1. /\ conns \in quits
          /\ pc[Control] = "dc_socket" => ~connected[l]
      BY <1>2, <1>3 DEF Quit
    <2>2. obj[Control] = l
      <3>1. pc[Control] # "idle"
        BY <1>2, <1>3 DEF DisconnectPc
      <3> QED
        BY <1>0, <3>1 DEF Turns
    <2>3. CASE DisconnectCheck(t)
      <3>1. connected[l]
        BY <1>0, <1>3, <2>3 DEF DisconnectCheck, Turns, ByClose
      <3>2. pc'[Control] = "dc_fclose"
        BY <1>0, <1>3, <2>2, <2>3, <3>1 DEF DisconnectCheck, Goto
      <3> QED
        BY <2>1, <3>2
    <2>4. CASE DisconnectFclose(t)
      <3>1. pc'[Control] = "dc_mark"
        BY <1>0, <1>3, <2>4 DEF DisconnectFclose, Goto
      <3> QED
        BY <2>1, <3>1
    <2>5. CASE DisconnectMark(t)
      BY <1>0, <1>3, <2>1, <2>2, <2>5 DEF DisconnectMark
    <2>6. CASE DisconnectSocket(t)
      <3>1. ~connected[l] /\ connected' = connected
        BY <1>3, <2>1, <2>6 DEF DisconnectSocket, ircVars
      <3> QED
        BY <2>1, <3>1
    <2> QED
      BY <2>3, <2>4, <2>5, <2>6 DEF Disconnect
  <1>4. CASE t \in Sessions
    <2>1. t = l /\ pc[l] \notin InMessageLoop \cup {"done"}
      BY <1>0, <1>2, <1>4 DEF Held, DisconnectPc, InMessageLoop
    <2>2. pc[Control] = "idle"
      BY <1>0, <2>1 DEF Turns
    <2>3. pc'[Control] = "idle"
      BY <1>0, <1>2, <1>4, <2>2
    <2> QED
      BY <2>3 DEF DisconnectPc
  <1> QED
    BY <1>3, <1>4 DEF Movers

\* So does the looper, which makes no connection while close() goes on.
LEMMA QuitLooper ==
    ASSUME TypeInv, OneLooper, Clean, Quit, ~reopened, ~away, NEW k \in Sessions,
           LooperStep(k) \/ LoopError(k)
    PROVE  Quit'
  <1>0. /\ \A l \in Sessions : l = loop => Turns(l) /\ ByLooper(l) /\ ByClose(l)
        /\ Control \in Threads /\ Held /\ k # Control
    BY Places DEF Clean, OneLooper
  <1>1. UNCHANGED <<loop, quits>>
    BY LooperFrame DEF nodeVars
  <1>2. /\ pc[k] \in LoopPc \ {"none", "done"}
        /\ pc'[Control] = pc[Control]
    BY <1>0, LooperMoves
  <1> SUFFICES ASSUME NEW l \in Sessions, l = loop, pc[Control] \in DisconnectPc \cup {"cl_join"}
               PROVE  /\ conns' \in quits
                      /\ pc[Control] \in {"dc_socket", "cl_join"} => ~connected'[l]
    BY <1>1, <1>2 DEF Quit, DisconnectPc
  <1>3. k = l
    BY <1>0, <1>2 DEF Held
  <1>4. pc[k] \in InMessageLoop
    BY <1>0, <1>2, <1>3 DEF Turns, DisconnectPc
  <1>5. ~LoopConnect(k) /\ ~LoopMark(k)
    BY <1>4 DEF LoopConnect, LoopMark, InMessageLoop
  <1>6. UNCHANGED <<conns, connected>>
    BY <1>5 DEF LooperStep, LoopLost, LoopStart, LoopHello, LoopMessages, LoopRecv, LoopData, LoopHangup,
       LoopError, LoopParse, LoopEnd, LoopDisconnect, ircVars, serverVars
  <1> QED
    BY <1>6 DEF Quit

LEMMA QuitStep ==
    ASSUME IInv, Quit, Next
    PROVE  Quit'
  <1>0. TypeInv /\ OneLooper /\ Clean
    BY DEF IInv
  <1> SUFFICES ASSUME ~reopened', ~away' PROVE Quit'
    BY DEF Quit
  <1>1. ~reopened /\ ~away
    BY <1>0, Monotone
  <1>2. CASE OpenBegin \/ CloseBegin \/ Construct \/ Destruct \/ ControlStep
    BY <1>0, <1>1, <1>2, QuitControl
  <1>3. ASSUME NEW t \in Movers, Disconnect(t) PROVE Quit'
    BY <1>0, <1>1, <1>3, QuitDisconnect
  <1>4. ASSUME NEW l \in Sessions, LooperStep(l) \/ LoopError(l) PROVE Quit'
    BY <1>0, <1>1, <1>4, QuitLooper
  <1>5. CASE \/ \E t \in Callers : UseDeleted(t)
             \/ \E w \in Writers : WriteBegin(w) \/ WriteOut(w) \/ WritePrint(w)
             \/ \E r \in Readers : ReadBegin(r) \/ Update(r) \/ ReaderStep(r)
             \/ \E c \in Conns : ServerSend(c) \/ ServerHangup(c)
    <2>1. /\ UNCHANGED <<nodeVars, ircVars, conns>>
          /\ pc'[Control] = pc[Control]
      BY <1>0, <1>5, Others, Places
    <2>2. quits' = quits
      <3>1. ASSUME NEW t \in Callers, UseDeleted(t) PROVE quits' = quits
        BY <3>1, WriterFrame DEF serverVars
      <3>2. ASSUME NEW w \in Writers, WriteBegin(w) \/ WriteOut(w) \/ WritePrint(w)
            PROVE  quits' = quits
        BY <3>2, WriterFrame DEF serverVars
      <3>3. ASSUME NEW r \in Readers, ReadBegin(r) \/ Update(r) \/ ReaderStep(r)
            PROVE  quits' = quits
        BY <3>3, ReaderFrame DEF serverVars
      <3>4. ASSUME NEW c \in Conns, ServerSend(c) \/ ServerHangup(c) PROVE quits' = quits
        BY <1>0, <3>4, ServerFrame
      <3> QED
        BY <1>5, <3>1, <3>2, <3>3, <3>4
    <2> QED
      BY <1>1, <2>1, <2>2 DEF Quit, nodeVars, ircVars
  <1> QED
    BY <1>2, <1>3, <1>4, <1>5 DEF Next

\* A close() that found the looper in message_loop() never waits at its join for a
\* looper that waits for a server which was not told QUIT, or that would go on
\* receiving.
THEOREM JoinCorrect == Spec => []JoinCannotHang
  <1>1. Init => Quit
    BY DEF Init, Quit, Sessions, None
  <1>2. IInv /\ Quit /\ [Next]_vars => Quit'
    <2>1. IInv /\ Quit /\ Next => Quit'
      BY QuitStep
    <2>2. Quit /\ UNCHANGED vars => Quit'
      BY DEF Quit, vars, nodeVars, ircVars, serverVars, historyVars
    <2> QED
      BY <2>1, <2>2
  <1>3. IInv /\ Quit => JoinCannotHang
    <2> SUFFICES ASSUME IInv, Quit, pc[Control] = "cl_join", ~away, ~reopened
                 PROVE  /\ cancel /\ pc[loop] \in InMessageLoop \cup {"done"}
                        /\ ~connected[loop] /\ irc_socket[loop] \notin fds
                        /\ pc[loop] = "lp_wait" => lconn[loop] \in quits
      BY DEF JoinCannotHang
    <2>1. loop \in Sessions
      BY DEF IInv, OneLooper, Whole, Closing, TypeInv, TypeOK, NodeType
    <2>2. Turns(loop) /\ ByClose(loop)
      BY <2>1 DEF IInv, Clean
    <2>3. pc[loop] = "lp_wait" => lconn[loop] = conns
      BY <2>1 DEF IInv, Current
    <2> QED
      BY <2>1, <2>2, <2>3 DEF Quit, Turns, ByClose, Shut
  <1> QED
    BY <1>1, <1>2, <1>3, Invariant, PTL DEF Spec
=============================================================================
