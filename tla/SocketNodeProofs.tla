-------------------------- MODULE SocketNodeProofs --------------------------
(* What holds of SocketNode for every choice of its constants.              *)
EXTENDS SocketNode, SequenceTheorems, TLAPS

\* The bounds are natural numbers.
LEMMA Bounds ==
    /\ MaxMsgs \in Nat
    /\ MsgLen \in Nat
    /\ MaxCloses \in Nat
    /\ MaxSent \in Nat
  BY BoundAssumption

\* Cutting a sequence in two yields sequences of the same elements.
LEMMA PrefixType ==
    ASSUME NEW S, NEW s \in Seq(S), NEW k \in Nat
    PROVE  Prefix(s, k) \in Seq(S) /\ Suffix(s, k) \in Seq(S)
  BY DEF Prefix, Suffix

\* Joining sequences of bytes yields a sequence of bytes.
LEMMA ConcatType ==
    ASSUME NEW S
    PROVE  <<>> \in Seq(S) /\ \A s, t \in Seq(S) : s \o t \in Seq(S)
  OBVIOUS

\* A step moves the program counter of one thread, within its own role.
LEMMA GotoReader ==
    ASSUME PcType, NEW r \in Readers, NEW l \in {"idle"} \cup ReadPc, Goto(r, l)
    PROVE  /\ PcType'
           /\ pc'[r] = l
           /\ \A q \in Readers \ {r} : pc'[q] = pc[q]
           /\ \A w \in Writers : pc'[w] = pc[w]
           /\ \A t \in Control : pc'[t] = pc[t]
  <1>1. /\ pc'[r] = l
        /\ \A u \in Threads \ {r} : pc'[u] = pc[u]
        /\ DOMAIN pc' = Threads
    BY DEF PcType, Goto, Threads
  <1>2. /\ \A w \in Writers : w # r
        /\ \A t \in Control : t # r
    BY ThreadAssumption
  <1>3. /\ \A w \in Writers : pc'[w] = pc[w]
        /\ \A t \in Control : pc'[t] = pc[t]
    BY <1>1, <1>2 DEF Threads
  <1>4. pc' \in [Threads -> {"idle"} \cup ReadPc \cup WritePc \cup OpenPc \cup ClosePc]
    BY DEF PcType, Goto
  <1> QED
    BY <1>1, <1>3, <1>4 DEF PcType, Threads

\* The same for a writer.
LEMMA GotoWriter ==
    ASSUME PcType, NEW w \in Writers, NEW l \in {"idle"} \cup WritePc, Goto(w, l)
    PROVE  /\ PcType'
           /\ pc'[w] = l
           /\ \A r \in Readers : pc'[r] = pc[r]
           /\ \A v \in Writers \ {w} : pc'[v] = pc[v]
           /\ \A t \in Control : pc'[t] = pc[t]
  <1>1. /\ pc'[w] = l
        /\ \A u \in Threads \ {w} : pc'[u] = pc[u]
    BY DEF PcType, Goto, Threads
  <1>2. /\ \A r \in Readers : r # w
        /\ \A t \in Control : t # w
    BY ThreadAssumption
  <1>3. /\ \A r \in Readers : pc'[r] = pc[r]
        /\ \A t \in Control : pc'[t] = pc[t]
    BY <1>1, <1>2 DEF Threads
  <1>4. pc' \in [Threads -> {"idle"} \cup ReadPc \cup WritePc \cup OpenPc \cup ClosePc]
    BY DEF PcType, Goto
  <1> QED
    BY <1>1, <1>3, <1>4 DEF PcType, Threads

\* The same for a thread that opens and closes.
LEMMA GotoControl ==
    ASSUME PcType, NEW t \in Control, NEW l \in {"idle"} \cup OpenPc \cup ClosePc, Goto(t, l)
    PROVE  /\ PcType'
           /\ pc'[t] = l
           /\ \A r \in Readers : pc'[r] = pc[r]
           /\ \A w \in Writers : pc'[w] = pc[w]
           /\ \A u \in Control \ {t} : pc'[u] = pc[u]
  <1>1. /\ pc'[t] = l
        /\ \A u \in Threads \ {t} : pc'[u] = pc[u]
    BY DEF PcType, Goto, Threads
  <1>2. /\ \A r \in Readers : r # t
        /\ \A w \in Writers : w # t
    BY ThreadAssumption
  <1>3. /\ \A r \in Readers : pc'[r] = pc[r]
        /\ \A w \in Writers : pc'[w] = pc[w]
    BY <1>1, <1>2 DEF Threads
  <1>4. pc' \in [Threads -> {"idle"} \cup ReadPc \cup WritePc \cup OpenPc \cup ClosePc]
    BY DEF PcType, Goto
  <1> QED
    BY <1>1, <1>3, <1>4 DEF PcType, Threads

\* Every variable starts in its type.
LEMMA InitType == Init => TypeOK
  <1> SUFFICES ASSUME Init PROVE TypeOK
    OBVIOUS
  <1>0. /\ read_buf \in Seq(Byte) /\ rcvd \in Seq(Byte) /\ backlog \in Seq(Conns)
        /\ inq \in [Conns -> Seq(Byte)] /\ sent \in [Conns -> Seq(Byte)]
        /\ out \in [Conns -> Seq(OutByte)]
        /\ chunk \in [Readers -> Seq(Byte)] /\ last \in [Readers -> Seq(Byte)]
    BY DEF Init
  <1>1. NodeType
    BY <1>0 DEF Init, NodeType
  <1>2. KernelType
    <2>1. sockfile \in BOOLEAN
      BY DEF Init
    <2>2. fdtab \in [Fds -> Plain \cup Conns] /\ used \in SUBSET Conns
      BY DEF Init, Plain
    <2>3. hup \in [Conns -> BOOLEAN]
      BY DEF Init
    <2> QED
      BY <1>0, <2>1, <2>2, <2>3 DEF KernelType
  <1>3. PcType
    BY DEF Init, PcType, Threads
  <1>4. ReadType
    BY <1>0, <1>3 DEF Init, ReadType, Threads
  <1>5. WriteType
    BY Bounds DEF Init, WriteType, Threads
  <1>6. HistoryType
    <2>1. closes \in 0..MaxCloses
      BY Bounds DEF Init
    <2>2. torn \in BOOLEAN
      BY DEF Init
    <2> QED
      BY <1>0, <2>1, <2>2 DEF HistoryType
  <1> QED
    BY <1>1, <1>2, <1>3, <1>4, <1>5, <1>6 DEF TypeOK

\* Every step keeps every variable in its type.
LEMMA TypeStep ==
    ASSUME TypeOK, Next
    PROVE  TypeOK'
  <1>1. ASSUME NEW r \in Readers, ReadBegin(r) PROVE TypeOK'
    <2>0. ReadBegin(r)
      BY <1>1
    <2>1. PICK l \in {"idle"} \cup ReadPc : Goto(r, l)
      BY <2>0 DEF ReadBegin, ReadPc
    <2>2. PcType' /\ pc'[r] = l
      BY <2>1, GotoReader DEF TypeOK
    <2>3. /\ \A u \in Readers \ {r} : pc'[u] = pc[u]
          /\ \A u \in Writers : pc'[u] = pc[u]
          /\ \A u \in Control : pc'[u] = pc[u]
      BY <2>1, GotoReader DEF TypeOK
    <2>4. NodeType'
      BY <2>0, PrefixType DEF TypeOK, NodeType, ReadBegin, nodeVars, Threads
    <2>5. KernelType'
      BY <2>0 DEF TypeOK, KernelType, NodeType, ReadBegin, kernVars, Plain
    <2>6. ReadType'
      BY <2>0, <2>2, <2>3 DEF TypeOK, ReadType, ReadBegin, Goto, readVars, NodeType, KernelType, PcType, Threads
    <2>7. WriteType'
      BY <2>0, <2>2, <2>3, Bounds DEF TypeOK, WriteType, ReadBegin, writeVars
    <2>8. HistoryType'
      BY <2>0 DEF TypeOK, HistoryType, ReadBegin, histVars
    <2> QED
      BY <2>2, <2>4, <2>5, <2>6, <2>7, <2>8 DEF TypeOK
  <1>2. ASSUME NEW r \in Readers, ReadLock(r) PROVE TypeOK'
    <2>0. ReadLock(r)
      BY <1>2
    <2>1. PICK l \in {"idle"} \cup ReadPc : Goto(r, l)
      BY <2>0 DEF ReadLock, ReadPc
    <2>2. PcType' /\ pc'[r] = l
      BY <2>1, GotoReader DEF TypeOK
    <2>3. /\ \A u \in Readers \ {r} : pc'[u] = pc[u]
          /\ \A u \in Writers : pc'[u] = pc[u]
          /\ \A u \in Control : pc'[u] = pc[u]
      BY <2>1, GotoReader DEF TypeOK
    <2>4. NodeType'
      BY <2>0, PrefixType DEF TypeOK, NodeType, ReadLock, nodeVars, Threads
    <2>5. KernelType'
      BY <2>0 DEF TypeOK, KernelType, NodeType, ReadLock, kernVars, Plain
    <2>6. ReadType'
      BY <2>0, <2>2, <2>3 DEF TypeOK, ReadType, ReadLock, Goto, readVars, NodeType, KernelType, PcType, Threads
    <2>7. WriteType'
      BY <2>0, <2>2, <2>3, Bounds DEF TypeOK, WriteType, ReadLock, writeVars
    <2>8. HistoryType'
      BY <2>0 DEF TypeOK, HistoryType, ReadLock, histVars
    <2> QED
      BY <2>2, <2>4, <2>5, <2>6, <2>7, <2>8 DEF TypeOK
  <1>3. ASSUME NEW r \in Readers, ReadAccept(r) PROVE TypeOK'
    <2>0. ReadAccept(r)
      BY <1>3
    <2>1. PICK l \in {"idle"} \cup ReadPc : Goto(r, l)
      BY <2>0 DEF ReadAccept, AcceptBlock, Accepted, AcceptFails, ReadPc
    <2>2. PcType' /\ pc'[r] = l
      BY <2>1, GotoReader DEF TypeOK
    <2>3. /\ \A u \in Readers \ {r} : pc'[u] = pc[u]
          /\ \A u \in Writers : pc'[u] = pc[u]
          /\ \A u \in Control : pc'[u] = pc[u]
      BY <2>1, GotoReader DEF TypeOK
    <2>4. NodeType'
      BY <2>0, PrefixType DEF TypeOK, NodeType, ReadAccept, AcceptBlock, Accepted, AcceptFails, nodeVars, Threads
    <2>5. KernelType'
      <3>1. CASE UNCHANGED <<client_fd, fdtab, backlog>>
        BY <2>0, <3>1 DEF ReadAccept, AcceptBlock, TypeOK, KernelType
      <3>2. CASE Accepted
        <4>1. Head(backlog) \in Conns /\ Tail(backlog) \in Seq(Conns)
          BY <3>2 DEF Accepted, TypeOK, KernelType
        <4>2. fdtab' \in [Fds -> Plain \cup Conns] /\ backlog' \in Seq(Conns)
          BY <3>2, <4>1 DEF Accepted, TypeOK, KernelType
        <4> QED
          BY <2>0, <4>2 DEF ReadAccept, AcceptBlock, TypeOK, KernelType
      <3> QED
        BY <2>0, <3>1, <3>2 DEF ReadAccept, AcceptBlock
    <2>6. ReadType'
      BY <2>0, <2>2, <2>3 DEF TypeOK, ReadType, ReadAccept, AcceptBlock, Accepted, AcceptFails, Goto, readVars, NodeType, KernelType, PcType, Threads
    <2>7. WriteType'
      BY <2>0, <2>2, <2>3, Bounds DEF TypeOK, WriteType, ReadAccept, AcceptBlock, Accepted, AcceptFails, writeVars
    <2>8. HistoryType'
      BY <2>0 DEF TypeOK, HistoryType, ReadAccept, AcceptBlock, Accepted, AcceptFails, histVars
    <2> QED
      BY <2>2, <2>4, <2>5, <2>6, <2>7, <2>8 DEF TypeOK
  <1>4. ASSUME NEW r \in Readers, ReadScan(r) PROVE TypeOK'
    <2>0. ReadScan(r)
      BY <1>4
    <2>1. PICK l \in {"idle"} \cup ReadPc : Goto(r, l)
      BY <2>0 DEF ReadScan, IsFirstNewline, ReadPc
    <2>2. PcType' /\ pc'[r] = l
      BY <2>1, GotoReader DEF TypeOK
    <2>3. /\ \A u \in Readers \ {r} : pc'[u] = pc[u]
          /\ \A u \in Writers : pc'[u] = pc[u]
          /\ \A u \in Control : pc'[u] = pc[u]
      BY <2>1, GotoReader DEF TypeOK
    <2>4. NodeType'
      BY <2>0, PrefixType DEF TypeOK, NodeType, ReadScan, IsFirstNewline, nodeVars, Threads
    <2>5. KernelType'
      BY <2>0 DEF TypeOK, KernelType, NodeType, ReadScan, IsFirstNewline, kernVars, Plain
    <2>6. ReadType'
      <3>1. nl' \in [Readers -> Nat]
        BY <2>0 DEF ReadScan, TypeOK, ReadType, NodeType
      <3>2. pc'[r] \in {"rd_take", "rd_copy"}
        BY <2>0 DEF ReadScan, Goto, TypeOK, PcType, Threads
      <3> QED
        BY <2>0, <2>3, <3>1, <3>2 DEF ReadScan, TypeOK, ReadType
    <2>7. WriteType'
      BY <2>0, <2>2, <2>3, Bounds DEF TypeOK, WriteType, ReadScan, IsFirstNewline, writeVars
    <2>8. HistoryType'
      BY <2>0 DEF TypeOK, HistoryType, ReadScan, IsFirstNewline, histVars
    <2> QED
      BY <2>2, <2>4, <2>5, <2>6, <2>7, <2>8 DEF TypeOK
  <1>5. ASSUME NEW r \in Readers, ReadTake(r) PROVE TypeOK'
    <2>0. ReadTake(r)
      BY <1>5
    <2>1. PICK l \in {"idle"} \cup ReadPc : Goto(r, l)
      BY <2>0 DEF ReadTake, Return, ReadPc
    <2>2. PcType' /\ pc'[r] = l
      BY <2>1, GotoReader DEF TypeOK
    <2>3. /\ \A u \in Readers \ {r} : pc'[u] = pc[u]
          /\ \A u \in Writers : pc'[u] = pc[u]
          /\ \A u \in Control : pc'[u] = pc[u]
      BY <2>1, GotoReader DEF TypeOK
    <2>4. NodeType'
      BY <2>0, PrefixType DEF ReadTake, TypeOK, NodeType, ReadType
    <2>5. KernelType'
      BY <2>0 DEF TypeOK, KernelType, NodeType, ReadTake, Return, kernVars, Plain
    <2>6. ReadType'
      BY <2>0, <2>2, <2>3 DEF TypeOK, ReadType, ReadTake, Return, Goto, readVars, NodeType, KernelType, PcType, Threads
    <2>7. WriteType'
      BY <2>0, <2>2, <2>3, Bounds DEF TypeOK, WriteType, ReadTake, Return, writeVars
    <2>8. HistoryType'
      <3>1. Prefix(read_buf, nl[r]) \in Seq(Byte)
        BY PrefixType DEF TypeOK, NodeType, ReadType
      <3>2. rcvd' \in Seq(Byte) /\ last' \in [Readers -> Seq(Byte)]
        BY <2>0, <3>1, ConcatType DEF ReadTake, Return, TypeOK, HistoryType
      <3> QED
        BY <3>2, <2>0 DEF ReadTake, Return, TypeOK, HistoryType
    <2> QED
      BY <2>2, <2>4, <2>5, <2>6, <2>7, <2>8 DEF TypeOK
  <1>6. ASSUME NEW r \in Readers, ReadCopy(r) PROVE TypeOK'
    <2>0. ReadCopy(r)
      BY <1>6
    <2>1. PICK l \in {"idle"} \cup ReadPc : Goto(r, l)
      BY <2>0 DEF ReadCopy, Return, ReadPc
    <2>2. PcType' /\ pc'[r] = l
      BY <2>1, GotoReader DEF TypeOK
    <2>3. /\ \A u \in Readers \ {r} : pc'[u] = pc[u]
          /\ \A u \in Writers : pc'[u] = pc[u]
          /\ \A u \in Control : pc'[u] = pc[u]
      BY <2>1, GotoReader DEF TypeOK
    <2>4. NodeType'
      BY <2>0, PrefixType DEF TypeOK, NodeType, ReadCopy, Return, nodeVars, Threads
    <2>5. KernelType'
      BY <2>0 DEF TypeOK, KernelType, NodeType, ReadCopy, Return, kernVars, Plain
    <2>6. ReadType'
      <3>1. CASE client_fd # NoFd
        <4>1. /\ client_fd \in Fds
              /\ cfd' = [cfd EXCEPT ![r] = client_fd]
              /\ UNCHANGED <<src, chunk, nl>>
              /\ pc'[r] = "rd_call"
          BY <2>0, <3>1 DEF ReadCopy, TypeOK, NodeType, PcType, Goto, Threads
        <4> QED
          BY <4>1, <2>3 DEF TypeOK, ReadType
      <3>2. CASE Return(r, <<>>)
        <4>1. pc'[r] = "idle"
          BY <3>2 DEF Return, Goto, TypeOK, PcType, Threads
        <4> QED
          BY <4>1, <3>2, <2>3 DEF Return, TypeOK, ReadType
      <3> QED
        BY <2>0, <3>1, <3>2 DEF ReadCopy
    <2>7. WriteType'
      BY <2>0, <2>2, <2>3, Bounds DEF TypeOK, WriteType, ReadCopy, Return, writeVars
    <2>8. HistoryType'
      <3>1. CASE UNCHANGED histVars
        BY <3>1 DEF histVars, TypeOK, HistoryType
      <3>2. CASE Return(r, <<>>)
        <4>1. rcvd' \in Seq(Byte) /\ last' \in [Readers -> Seq(Byte)]
          BY <3>2, ConcatType DEF Return, TypeOK, HistoryType
        <4> QED
          BY <3>2, <4>1 DEF Return, TypeOK, HistoryType
      <3> QED
        BY <2>0, <3>1, <3>2 DEF ReadCopy
    <2> QED
      BY <2>2, <2>4, <2>5, <2>6, <2>7, <2>8 DEF TypeOK
  <1>7. ASSUME NEW r \in Readers, ReadCall(r) PROVE TypeOK'
    <2>0. ReadCall(r)
      BY <1>7
    <2>1. PICK l \in {"idle"} \cup ReadPc : Goto(r, l)
      BY <2>0 DEF ReadCall, ReadPc
    <2>2. PcType' /\ pc'[r] = l
      BY <2>1, GotoReader DEF TypeOK
    <2>3. /\ \A u \in Readers \ {r} : pc'[u] = pc[u]
          /\ \A u \in Writers : pc'[u] = pc[u]
          /\ \A u \in Control : pc'[u] = pc[u]
      BY <2>1, GotoReader DEF TypeOK
    <2>4. NodeType'
      BY <2>0, PrefixType DEF TypeOK, NodeType, ReadCall, nodeVars, Threads
    <2>5. KernelType'
      BY <2>0 DEF TypeOK, KernelType, NodeType, ReadCall, kernVars, Plain
    <2>6. ReadType'
      BY <2>0, <2>2, <2>3 DEF TypeOK, ReadType, ReadCall, Goto, readVars, NodeType, KernelType, PcType, Threads
    <2>7. WriteType'
      BY <2>0, <2>2, <2>3, Bounds DEF TypeOK, WriteType, ReadCall, writeVars
    <2>8. HistoryType'
      BY <2>0 DEF TypeOK, HistoryType, ReadCall, histVars
    <2> QED
      BY <2>2, <2>4, <2>5, <2>6, <2>7, <2>8 DEF TypeOK
  <1>8. ASSUME NEW r \in Readers, ReadData(r) PROVE TypeOK'
    <2>0. ReadData(r)
      BY <1>8
    <2>1. PICK l \in {"idle"} \cup ReadPc : Goto(r, l)
      BY <2>0 DEF ReadData, ReadPc
    <2>2. PcType' /\ pc'[r] = l
      BY <2>1, GotoReader DEF TypeOK
    <2>3. /\ \A u \in Readers \ {r} : pc'[u] = pc[u]
          /\ \A u \in Writers : pc'[u] = pc[u]
          /\ \A u \in Control : pc'[u] = pc[u]
      BY <2>1, GotoReader DEF TypeOK
    <2>4. NodeType'
      BY <2>0, PrefixType DEF TypeOK, NodeType, ReadData, nodeVars, Threads
    <2>5. KernelType'
      <3>1. src[r] \in Conns
        BY <2>0 DEF ReadData, TypeOK, ReadType
      <3>2. inq' \in [Conns -> Seq(Byte)]
        <4>1. PICK k \in 1..Len(inq[src[r]]) :
                 /\ chunk' = [chunk EXCEPT ![r] = Prefix(inq[src[r]], k)]
                 /\ inq' = [inq EXCEPT ![src[r]] = Suffix(@, k)]
          BY <2>0 DEF ReadData
        <4>2. Prefix(inq[src[r]], k) \in Seq(Byte) /\ Suffix(inq[src[r]], k) \in Seq(Byte)
          <5>1. inq[src[r]] \in Seq(Byte) /\ k \in Nat
            BY <3>1 DEF TypeOK, KernelType
          <5> QED
            BY <5>1, PrefixType
        <4> QED
          BY <3>1, <4>1, <4>2 DEF TypeOK, KernelType
      <3> QED
        BY <2>0, <3>2 DEF ReadData, TypeOK, KernelType
    <2>6. ReadType'
      <3>1. src[r] \in Conns
        BY <2>0 DEF ReadData, TypeOK, ReadType
      <3>2. chunk' \in [Readers -> Seq(Byte)]
        <4>1. PICK k \in 1..Len(inq[src[r]]) :
                 /\ chunk' = [chunk EXCEPT ![r] = Prefix(inq[src[r]], k)]
                 /\ inq' = [inq EXCEPT ![src[r]] = Suffix(@, k)]
          BY <2>0 DEF ReadData
        <4>2. Prefix(inq[src[r]], k) \in Seq(Byte) /\ Suffix(inq[src[r]], k) \in Seq(Byte)
          <5>1. inq[src[r]] \in Seq(Byte) /\ k \in Nat
            BY <3>1 DEF TypeOK, KernelType
          <5> QED
            BY <5>1, PrefixType
        <4> QED
          BY <3>1, <4>1, <4>2 DEF TypeOK, ReadType, KernelType
      <3>3. pc'[r] = "rd_append"
        BY <2>0 DEF ReadData, Goto, TypeOK, PcType, Threads
      <3> QED
        BY <2>0, <2>3, <3>2, <3>3 DEF ReadData, TypeOK, ReadType
    <2>7. WriteType'
      BY <2>0, <2>2, <2>3, Bounds DEF TypeOK, WriteType, ReadData, writeVars
    <2>8. HistoryType'
      BY <2>0 DEF TypeOK, HistoryType, ReadData, histVars
    <2> QED
      BY <2>2, <2>4, <2>5, <2>6, <2>7, <2>8 DEF TypeOK
  <1>9. ASSUME NEW r \in Readers, ReadNothing(r) PROVE TypeOK'
    <2>0. ReadNothing(r)
      BY <1>9
    <2>1. PICK l \in {"idle"} \cup ReadPc : Goto(r, l)
      BY <2>0 DEF ReadNothing, ReadPc
    <2>2. PcType' /\ pc'[r] = l
      BY <2>1, GotoReader DEF TypeOK
    <2>3. /\ \A u \in Readers \ {r} : pc'[u] = pc[u]
          /\ \A u \in Writers : pc'[u] = pc[u]
          /\ \A u \in Control : pc'[u] = pc[u]
      BY <2>1, GotoReader DEF TypeOK
    <2>4. NodeType'
      BY <2>0, PrefixType DEF TypeOK, NodeType, ReadNothing, nodeVars, Threads
    <2>5. KernelType'
      BY <2>0 DEF TypeOK, KernelType, NodeType, ReadNothing, kernVars, Plain
    <2>6. ReadType'
      BY <2>0, <2>2, <2>3 DEF TypeOK, ReadType, ReadNothing, Goto, readVars, NodeType, KernelType, PcType, Threads
    <2>7. WriteType'
      BY <2>0, <2>2, <2>3, Bounds DEF TypeOK, WriteType, ReadNothing, writeVars
    <2>8. HistoryType'
      BY <2>0 DEF TypeOK, HistoryType, ReadNothing, histVars
    <2> QED
      BY <2>2, <2>4, <2>5, <2>6, <2>7, <2>8 DEF TypeOK
  <1>10. ASSUME NEW r \in Readers, ReadAppend(r) PROVE TypeOK'
    <2>0. ReadAppend(r)
      BY <1>10
    <2>1. PICK l \in {"idle"} \cup ReadPc : Goto(r, l)
      BY <2>0 DEF ReadAppend, ReadPc
    <2>2. PcType' /\ pc'[r] = l
      BY <2>1, GotoReader DEF TypeOK
    <2>3. /\ \A u \in Readers \ {r} : pc'[u] = pc[u]
          /\ \A u \in Writers : pc'[u] = pc[u]
          /\ \A u \in Control : pc'[u] = pc[u]
      BY <2>1, GotoReader DEF TypeOK
    <2>4. NodeType'
      <3>1. read_buf \o chunk[r] \in Seq(Byte)
        BY ConcatType DEF TypeOK, NodeType, ReadType
      <3> QED
        BY <2>0, <3>1 DEF ReadAppend, TypeOK, NodeType
    <2>5. KernelType'
      BY <2>0 DEF TypeOK, KernelType, NodeType, ReadAppend, kernVars, Plain
    <2>6. ReadType'
      <3>1. chunk' \in [Readers -> Seq(Byte)]
        BY <2>0, ConcatType DEF ReadAppend, TypeOK, ReadType
      <3>2. pc'[r] = "rd_scan"
        BY <2>0 DEF ReadAppend, Goto, TypeOK, PcType, Threads
      <3> QED
        BY <2>0, <2>3, <3>1, <3>2 DEF ReadAppend, TypeOK, ReadType
    <2>7. WriteType'
      BY <2>0, <2>2, <2>3, Bounds DEF TypeOK, WriteType, ReadAppend, writeVars
    <2>8. HistoryType'
      BY <2>0 DEF TypeOK, HistoryType, ReadAppend, histVars
    <2> QED
      BY <2>2, <2>4, <2>5, <2>6, <2>7, <2>8 DEF TypeOK
  <1>11. ASSUME NEW r \in Readers, ReadEof(r) PROVE TypeOK'
    <2>0. ReadEof(r)
      BY <1>11
    <2>1. PICK l \in {"idle"} \cup ReadPc : Goto(r, l)
      BY <2>0 DEF ReadEof, Return, ReadPc
    <2>2. PcType' /\ pc'[r] = l
      BY <2>1, GotoReader DEF TypeOK
    <2>3. /\ \A u \in Readers \ {r} : pc'[u] = pc[u]
          /\ \A u \in Writers : pc'[u] = pc[u]
          /\ \A u \in Control : pc'[u] = pc[u]
      BY <2>1, GotoReader DEF TypeOK
    <2>4. NodeType'
      BY <2>0, PrefixType DEF TypeOK, NodeType, ReadEof, Return, nodeVars, Threads
    <2>5. KernelType'
      BY <2>0 DEF TypeOK, KernelType, NodeType, ReadEof, Return, kernVars, Plain
    <2>6. ReadType'
      BY <2>0, <2>2, <2>3 DEF TypeOK, ReadType, ReadEof, Return, Goto, readVars, NodeType, KernelType, PcType, Threads
    <2>7. WriteType'
      BY <2>0, <2>2, <2>3, Bounds DEF TypeOK, WriteType, ReadEof, Return, writeVars
    <2>8. HistoryType'
      <3>1. rcvd \o read_buf \in Seq(Byte)
        BY ConcatType DEF TypeOK, NodeType, HistoryType
      <3>2. rcvd' \in Seq(Byte) /\ last' \in [Readers -> Seq(Byte)]
        BY <3>1, <2>0 DEF ReadEof, Return, TypeOK, NodeType, HistoryType
      <3> QED
        BY <3>2, <2>0 DEF ReadEof, Return, TypeOK, HistoryType
    <2> QED
      BY <2>2, <2>4, <2>5, <2>6, <2>7, <2>8 DEF TypeOK
  <1>12. ASSUME NEW w \in Writers, WriteBegin(w) PROVE TypeOK'
    <2>0. WriteBegin(w)
      BY <1>12
    <2>1. PICK l \in {"idle"} \cup WritePc : Goto(w, l)
      BY <2>0 DEF WriteBegin, WritePc
    <2>2. PcType' /\ pc'[w] = l
      BY <2>1, GotoWriter DEF TypeOK
    <2>3. /\ \A u \in Readers : pc'[u] = pc[u]
          /\ \A u \in Writers \ {w} : pc'[u] = pc[u]
          /\ \A u \in Control : pc'[u] = pc[u]
      BY <2>1, GotoWriter DEF TypeOK
    <2>4. NodeType'
      BY <2>0, PrefixType DEF TypeOK, NodeType, WriteBegin, nodeVars, Threads
    <2>5. KernelType'
      BY <2>0 DEF TypeOK, KernelType, NodeType, WriteBegin, kernVars, Plain
    <2>6. ReadType'
      BY <2>0, <2>2, <2>3 DEF TypeOK, ReadType, WriteBegin, Goto, readVars, NodeType, KernelType, PcType, Threads
    <2>7. WriteType'
      BY <2>0, <2>2, <2>3, Bounds DEF TypeOK, WriteType, WriteBegin, writeVars
    <2>8. HistoryType'
      BY <2>0 DEF TypeOK, HistoryType, WriteBegin, histVars
    <2> QED
      BY <2>2, <2>4, <2>5, <2>6, <2>7, <2>8 DEF TypeOK
  <1>13. ASSUME NEW w \in Writers, WriteLock(w) PROVE TypeOK'
    <2>0. WriteLock(w)
      BY <1>13
    <2>1. PICK l \in {"idle"} \cup WritePc : Goto(w, l)
      BY <2>0 DEF WriteLock, WritePc
    <2>2. PcType' /\ pc'[w] = l
      BY <2>1, GotoWriter DEF TypeOK
    <2>3. /\ \A u \in Readers : pc'[u] = pc[u]
          /\ \A u \in Writers \ {w} : pc'[u] = pc[u]
          /\ \A u \in Control : pc'[u] = pc[u]
      BY <2>1, GotoWriter DEF TypeOK
    <2>4. NodeType'
      BY <2>0, PrefixType DEF TypeOK, NodeType, WriteLock, nodeVars, Threads
    <2>5. KernelType'
      BY <2>0 DEF TypeOK, KernelType, NodeType, WriteLock, kernVars, Plain
    <2>6. ReadType'
      BY <2>0, <2>2, <2>3 DEF TypeOK, ReadType, WriteLock, Goto, readVars, NodeType, KernelType, PcType, Threads
    <2>7. WriteType'
      BY <2>0, <2>2, <2>3, Bounds DEF TypeOK, WriteType, WriteLock, writeVars
    <2>8. HistoryType'
      BY <2>0 DEF TypeOK, HistoryType, WriteLock, histVars
    <2> QED
      BY <2>2, <2>4, <2>5, <2>6, <2>7, <2>8 DEF TypeOK
  <1>14. ASSUME NEW w \in Writers, WriteAccept(w) PROVE TypeOK'
    <2>0. WriteAccept(w)
      BY <1>14
    <2>1. PICK l \in {"idle"} \cup WritePc : Goto(w, l)
      BY <2>0 DEF WriteAccept, AcceptBlock, Accepted, AcceptFails, WritePc
    <2>2. PcType' /\ pc'[w] = l
      BY <2>1, GotoWriter DEF TypeOK
    <2>3. /\ \A u \in Readers : pc'[u] = pc[u]
          /\ \A u \in Writers \ {w} : pc'[u] = pc[u]
          /\ \A u \in Control : pc'[u] = pc[u]
      BY <2>1, GotoWriter DEF TypeOK
    <2>4. NodeType'
      BY <2>0, PrefixType DEF TypeOK, NodeType, WriteAccept, AcceptBlock, Accepted, AcceptFails, nodeVars, Threads
    <2>5. KernelType'
      <3>1. CASE UNCHANGED <<client_fd, fdtab, backlog>>
        BY <2>0, <3>1 DEF WriteAccept, AcceptBlock, TypeOK, KernelType
      <3>2. CASE Accepted
        <4>1. Head(backlog) \in Conns /\ Tail(backlog) \in Seq(Conns)
          BY <3>2 DEF Accepted, TypeOK, KernelType
        <4>2. fdtab' \in [Fds -> Plain \cup Conns] /\ backlog' \in Seq(Conns)
          BY <3>2, <4>1 DEF Accepted, TypeOK, KernelType
        <4> QED
          BY <2>0, <4>2 DEF WriteAccept, AcceptBlock, TypeOK, KernelType
      <3> QED
        BY <2>0, <3>1, <3>2 DEF WriteAccept, AcceptBlock
    <2>6. ReadType'
      BY <2>0, <2>2, <2>3 DEF TypeOK, ReadType, WriteAccept, AcceptBlock, Accepted, AcceptFails, Goto, readVars, NodeType, KernelType, PcType, Threads
    <2>7. WriteType'
      BY <2>0, <2>2, <2>3, Bounds DEF TypeOK, WriteType, WriteAccept, AcceptBlock, Accepted, AcceptFails, writeVars
    <2>8. HistoryType'
      BY <2>0 DEF TypeOK, HistoryType, WriteAccept, AcceptBlock, Accepted, AcceptFails, histVars
    <2> QED
      BY <2>2, <2>4, <2>5, <2>6, <2>7, <2>8 DEF TypeOK
  <1>15. ASSUME NEW w \in Writers, WriteSome(w) PROVE TypeOK'
    <2>0. WriteSome(w)
      BY <1>15
    <2>1. PICK l \in {"idle"} \cup WritePc : Goto(w, l)
      BY <2>0 DEF WriteSome, Writable, OutByte, WritePc
    <2>2. PcType' /\ pc'[w] = l
      BY <2>1, GotoWriter DEF TypeOK
    <2>3. /\ \A u \in Readers : pc'[u] = pc[u]
          /\ \A u \in Writers \ {w} : pc'[u] = pc[u]
          /\ \A u \in Control : pc'[u] = pc[u]
      BY <2>1, GotoWriter DEF TypeOK
    <2>4. NodeType'
      BY <2>0, PrefixType DEF TypeOK, NodeType, WriteSome, Writable, OutByte, nodeVars, Threads
    <2>5. KernelType'
      <3>1. PICK c \in Conns, k \in 1..(MsgLen - pos[w]) :
               out' = [out EXCEPT ![c] =
                        @ \o [i \in 1..k |-> [w |-> w, m |-> msg[w], p |-> pos[w] + i]]]
        BY <2>0 DEF WriteSome
      <3>2. [i \in 1..k |-> [w |-> w, m |-> msg[w], p |-> pos[w] + i]] \in Seq(OutByte)
        <4>1. msg[w] \in 1..MaxMsgs /\ pos[w] \in 0..MsgLen
          BY <2>0 DEF WriteSome, TypeOK, WriteType
        <4>2. \A i \in 1..k : [w |-> w, m |-> msg[w], p |-> pos[w] + i] \in OutByte
          BY <4>1, Bounds DEF OutByte
        <4> QED
          BY <4>1, <4>2, Bounds
      <3>3. out' \in [Conns -> Seq(OutByte)]
        BY <3>1, <3>2, ConcatType DEF TypeOK, KernelType
      <3> QED
        BY <2>0, <3>3 DEF WriteSome, TypeOK, KernelType
    <2>6. ReadType'
      BY <2>0, <2>2, <2>3 DEF TypeOK, ReadType, WriteSome, Writable, OutByte, Goto, readVars, NodeType, KernelType, PcType, Threads
    <2>7. WriteType'
      <3>1. pos' \in [Writers -> 0..MsgLen]
        <4>1. PICK k \in 1..(MsgLen - pos[w]) : pos' = [pos EXCEPT ![w] = (@ + k) % MsgLen]
          BY <2>0 DEF WriteSome
        <4>2. (pos[w] + k) % MsgLen \in 0..MsgLen
          BY Bounds DEF TypeOK, WriteType
        <4> QED
          BY <4>1, <4>2 DEF TypeOK, WriteType
      <3>2. pc'[w] # "idle" => pc[w] # "idle"
        BY <2>0 DEF WriteSome
      <3> QED
        BY <2>0, <2>3, <3>1, <3>2 DEF WriteSome, TypeOK, WriteType
    <2>8. HistoryType'
      BY <2>0 DEF TypeOK, HistoryType, WriteSome, Writable, OutByte, histVars
    <2> QED
      BY <2>2, <2>4, <2>5, <2>6, <2>7, <2>8 DEF TypeOK
  <1>16. ASSUME NEW w \in Writers, WriteFail(w) PROVE TypeOK'
    <2>0. WriteFail(w)
      BY <1>16
    <2>1. PICK l \in {"idle"} \cup WritePc : Goto(w, l)
      BY <2>0 DEF WriteFail, WritePc
    <2>2. PcType' /\ pc'[w] = l
      BY <2>1, GotoWriter DEF TypeOK
    <2>3. /\ \A u \in Readers : pc'[u] = pc[u]
          /\ \A u \in Writers \ {w} : pc'[u] = pc[u]
          /\ \A u \in Control : pc'[u] = pc[u]
      BY <2>1, GotoWriter DEF TypeOK
    <2>4. NodeType'
      BY <2>0, PrefixType DEF TypeOK, NodeType, WriteFail, nodeVars, Threads
    <2>5. KernelType'
      BY <2>0 DEF TypeOK, KernelType, NodeType, WriteFail, kernVars, Plain
    <2>6. ReadType'
      BY <2>0, <2>2, <2>3 DEF TypeOK, ReadType, WriteFail, Goto, readVars, NodeType, KernelType, PcType, Threads
    <2>7. WriteType'
      BY <2>0, <2>2, <2>3, Bounds DEF TypeOK, WriteType, WriteFail, writeVars
    <2>8. HistoryType'
      BY <2>0 DEF TypeOK, HistoryType, WriteFail, histVars
    <2> QED
      BY <2>2, <2>4, <2>5, <2>6, <2>7, <2>8 DEF TypeOK
  <1>17. ASSUME NEW t \in Control, OpenBegin(t) PROVE TypeOK'
    <2>0. OpenBegin(t)
      BY <1>17
    <2>1. PICK l \in {"idle"} \cup OpenPc \cup ClosePc : Goto(t, l)
      BY <2>0 DEF OpenBegin, OpenPc, ClosePc
    <2>2. PcType' /\ pc'[t] = l
      BY <2>1, GotoControl DEF TypeOK
    <2>3. /\ \A u \in Readers : pc'[u] = pc[u]
          /\ \A u \in Writers : pc'[u] = pc[u]
          /\ \A u \in Control \ {t} : pc'[u] = pc[u]
      BY <2>1, GotoControl DEF TypeOK
    <2>4. NodeType'
      BY <2>0, PrefixType DEF TypeOK, NodeType, OpenBegin, nodeVars, Threads
    <2>5. KernelType'
      BY <2>0 DEF TypeOK, KernelType, NodeType, OpenBegin, kernVars, Plain
    <2>6. ReadType'
      BY <2>0, <2>2, <2>3 DEF TypeOK, ReadType, OpenBegin, Goto, readVars, NodeType, KernelType, PcType, Threads
    <2>7. WriteType'
      BY <2>0, <2>2, <2>3, Bounds DEF TypeOK, WriteType, OpenBegin, writeVars
    <2>8. HistoryType'
      BY <2>0 DEF TypeOK, HistoryType, OpenBegin, histVars
    <2> QED
      BY <2>2, <2>4, <2>5, <2>6, <2>7, <2>8 DEF TypeOK
  <1>18. ASSUME NEW t \in Control, OpenSocket(t) PROVE TypeOK'
    <2>0. OpenSocket(t)
      BY <1>18
    <2>1. PICK l \in {"idle"} \cup OpenPc \cup ClosePc : Goto(t, l)
      BY <2>0 DEF OpenSocket, ClaimPath, OpenPc, ClosePc
    <2>2. PcType' /\ pc'[t] = l
      BY <2>1, GotoControl DEF TypeOK
    <2>3. /\ \A u \in Readers : pc'[u] = pc[u]
          /\ \A u \in Writers : pc'[u] = pc[u]
          /\ \A u \in Control \ {t} : pc'[u] = pc[u]
      BY <2>1, GotoControl DEF TypeOK
    <2>4. NodeType'
      BY <2>0, PrefixType DEF TypeOK, NodeType, OpenSocket, ClaimPath, nodeVars, Threads
    <2>5. KernelType'
      BY <2>0 DEF TypeOK, KernelType, NodeType, OpenSocket, ClaimPath, kernVars, Plain
    <2>6. ReadType'
      BY <2>0, <2>2, <2>3 DEF TypeOK, ReadType, OpenSocket, ClaimPath, Goto, readVars, NodeType, KernelType, PcType, Threads
    <2>7. WriteType'
      BY <2>0, <2>2, <2>3, Bounds DEF TypeOK, WriteType, OpenSocket, ClaimPath, writeVars
    <2>8. HistoryType'
      BY <2>0 DEF TypeOK, HistoryType, OpenSocket, ClaimPath, histVars
    <2> QED
      BY <2>2, <2>4, <2>5, <2>6, <2>7, <2>8 DEF TypeOK
  <1>19. ASSUME NEW t \in Control, OpenBind(t) PROVE TypeOK'
    <2>0. OpenBind(t)
      BY <1>19
    <2>1. PICK l \in {"idle"} \cup OpenPc \cup ClosePc : Goto(t, l)
      BY <2>0 DEF OpenBind, OpenFail, CloseFds, IsSocket, OpenPc, ClosePc
    <2>2. PcType' /\ pc'[t] = l
      BY <2>1, GotoControl DEF TypeOK
    <2>3. /\ \A u \in Readers : pc'[u] = pc[u]
          /\ \A u \in Writers : pc'[u] = pc[u]
          /\ \A u \in Control \ {t} : pc'[u] = pc[u]
      BY <2>1, GotoControl DEF TypeOK
    <2>4. NodeType'
      BY <2>0, PrefixType DEF TypeOK, NodeType, OpenBind, OpenFail, CloseFds, IsSocket, nodeVars, Threads
    <2>5. KernelType'
      <3>1. backlog' \in Seq(Conns)
        BY <2>0, ConcatType DEF OpenBind, OpenFail, CloseFds, TypeOK, KernelType
      <3>2. fdtab' \in [Fds -> Plain \cup Conns]
        BY <2>0 DEF OpenBind, OpenFail, CloseFds, IsSocket, TypeOK, KernelType, Plain
      <3>3. sockfile' \in BOOLEAN
        BY <2>0 DEF OpenBind, TypeOK, KernelType
      <3> QED
        BY <2>0, <3>1, <3>2, <3>3 DEF OpenBind, TypeOK, KernelType
    <2>6. ReadType'
      BY <2>0, <2>2, <2>3 DEF TypeOK, ReadType, OpenBind, OpenFail, CloseFds, IsSocket, Goto, readVars, NodeType, KernelType, PcType, Threads
    <2>7. WriteType'
      BY <2>0, <2>2, <2>3, Bounds DEF TypeOK, WriteType, OpenBind, OpenFail, CloseFds, IsSocket, writeVars
    <2>8. HistoryType'
      BY <2>0 DEF TypeOK, HistoryType, OpenBind, OpenFail, CloseFds, IsSocket, histVars
    <2> QED
      BY <2>2, <2>4, <2>5, <2>6, <2>7, <2>8 DEF TypeOK
  <1>20. ASSUME NEW t \in Control, OpenListen(t) PROVE TypeOK'
    <2>0. OpenListen(t)
      BY <1>20
    <2>1. PICK l \in {"idle"} \cup OpenPc \cup ClosePc : Goto(t, l)
      BY <2>0 DEF OpenListen, OpenFail, CloseFds, IsSocket, OpenPc, ClosePc
    <2>2. PcType' /\ pc'[t] = l
      BY <2>1, GotoControl DEF TypeOK
    <2>3. /\ \A u \in Readers : pc'[u] = pc[u]
          /\ \A u \in Writers : pc'[u] = pc[u]
          /\ \A u \in Control \ {t} : pc'[u] = pc[u]
      BY <2>1, GotoControl DEF TypeOK
    <2>4. NodeType'
      BY <2>0, PrefixType DEF TypeOK, NodeType, OpenListen, OpenFail, CloseFds, IsSocket, nodeVars, Threads
    <2>5. KernelType'
      <3>1. backlog' \in Seq(Conns)
        BY <2>0, ConcatType DEF OpenListen, OpenFail, CloseFds, TypeOK, KernelType
      <3>2. fdtab' \in [Fds -> Plain \cup Conns]
        BY <2>0 DEF OpenListen, OpenFail, CloseFds, IsSocket, TypeOK, KernelType, Plain
      <3>3. sockfile' \in BOOLEAN
        BY <2>0 DEF OpenListen, TypeOK, KernelType
      <3> QED
        BY <2>0, <3>1, <3>2, <3>3 DEF OpenListen, TypeOK, KernelType
    <2>6. ReadType'
      BY <2>0, <2>2, <2>3 DEF TypeOK, ReadType, OpenListen, OpenFail, CloseFds, IsSocket, Goto, readVars, NodeType, KernelType, PcType, Threads
    <2>7. WriteType'
      BY <2>0, <2>2, <2>3, Bounds DEF TypeOK, WriteType, OpenListen, OpenFail, CloseFds, IsSocket, writeVars
    <2>8. HistoryType'
      BY <2>0 DEF TypeOK, HistoryType, OpenListen, OpenFail, CloseFds, IsSocket, histVars
    <2> QED
      BY <2>2, <2>4, <2>5, <2>6, <2>7, <2>8 DEF TypeOK
  <1>21. ASSUME NEW t \in Control, CloseBegin(t) PROVE TypeOK'
    <2>0. CloseBegin(t)
      BY <1>21
    <2>1. PICK l \in {"idle"} \cup OpenPc \cup ClosePc : Goto(t, l)
      BY <2>0 DEF CloseBegin, OpenPc, ClosePc
    <2>2. PcType' /\ pc'[t] = l
      BY <2>1, GotoControl DEF TypeOK
    <2>3. /\ \A u \in Readers : pc'[u] = pc[u]
          /\ \A u \in Writers : pc'[u] = pc[u]
          /\ \A u \in Control \ {t} : pc'[u] = pc[u]
      BY <2>1, GotoControl DEF TypeOK
    <2>4. NodeType'
      BY <2>0, PrefixType DEF TypeOK, NodeType, CloseBegin, nodeVars, Threads
    <2>5. KernelType'
      BY <2>0 DEF TypeOK, KernelType, NodeType, CloseBegin, kernVars, Plain
    <2>6. ReadType'
      BY <2>0, <2>2, <2>3 DEF TypeOK, ReadType, CloseBegin, Goto, readVars, NodeType, KernelType, PcType, Threads
    <2>7. WriteType'
      BY <2>0, <2>2, <2>3, Bounds DEF TypeOK, WriteType, CloseBegin, writeVars
    <2>8. HistoryType'
      BY <2>0, Bounds DEF CloseBegin, TypeOK, HistoryType
    <2> QED
      BY <2>2, <2>4, <2>5, <2>6, <2>7, <2>8 DEF TypeOK
  <1>22. ASSUME NEW t \in Control, CloseLock(t) PROVE TypeOK'
    <2>0. CloseLock(t)
      BY <1>22
    <2>1. PICK l \in {"idle"} \cup OpenPc \cup ClosePc : Goto(t, l)
      BY <2>0 DEF CloseLock, OpenPc, ClosePc
    <2>2. PcType' /\ pc'[t] = l
      BY <2>1, GotoControl DEF TypeOK
    <2>3. /\ \A u \in Readers : pc'[u] = pc[u]
          /\ \A u \in Writers : pc'[u] = pc[u]
          /\ \A u \in Control \ {t} : pc'[u] = pc[u]
      BY <2>1, GotoControl DEF TypeOK
    <2>4. NodeType'
      BY <2>0, PrefixType DEF TypeOK, NodeType, CloseLock, nodeVars, Threads
    <2>5. KernelType'
      BY <2>0 DEF TypeOK, KernelType, NodeType, CloseLock, kernVars, Plain
    <2>6. ReadType'
      BY <2>0, <2>2, <2>3 DEF TypeOK, ReadType, CloseLock, Goto, readVars, NodeType, KernelType, PcType, Threads
    <2>7. WriteType'
      BY <2>0, <2>2, <2>3, Bounds DEF TypeOK, WriteType, CloseLock, writeVars
    <2>8. HistoryType'
      BY <2>0 DEF TypeOK, HistoryType, CloseLock, histVars
    <2> QED
      BY <2>2, <2>4, <2>5, <2>6, <2>7, <2>8 DEF TypeOK
  <1>23. ASSUME NEW t \in Control, CloseDescriptors(t) PROVE TypeOK'
    <2>0. CloseDescriptors(t)
      BY <1>23
    <2>1. PICK l \in {"idle"} \cup OpenPc \cup ClosePc : Goto(t, l)
      BY <2>0 DEF CloseDescriptors, CloseFds, OpenPc, ClosePc
    <2>2. PcType' /\ pc'[t] = l
      BY <2>1, GotoControl DEF TypeOK
    <2>3. /\ \A u \in Readers : pc'[u] = pc[u]
          /\ \A u \in Writers : pc'[u] = pc[u]
          /\ \A u \in Control \ {t} : pc'[u] = pc[u]
      BY <2>1, GotoControl DEF TypeOK
    <2>4. NodeType'
      BY <2>0, PrefixType DEF TypeOK, NodeType, CloseDescriptors, CloseFds, nodeVars, Threads
    <2>5. KernelType'
      <3>1. backlog' \in Seq(Conns)
        BY <2>0, ConcatType DEF CloseDescriptors, CloseFds, TypeOK, KernelType
      <3>2. fdtab' \in [Fds -> Plain \cup Conns]
        BY <2>0 DEF CloseDescriptors, CloseFds, TypeOK, KernelType, Plain
      <3> QED
        BY <2>0, <3>1, <3>2 DEF CloseDescriptors, TypeOK, KernelType
    <2>6. ReadType'
      BY <2>0, <2>2, <2>3 DEF TypeOK, ReadType, CloseDescriptors, CloseFds, Goto, readVars, NodeType, KernelType, PcType, Threads
    <2>7. WriteType'
      BY <2>0, <2>2, <2>3, Bounds DEF TypeOK, WriteType, CloseDescriptors, CloseFds, writeVars
    <2>8. HistoryType'
      BY <2>0 DEF TypeOK, HistoryType, CloseDescriptors, CloseFds, histVars
    <2> QED
      BY <2>2, <2>4, <2>5, <2>6, <2>7, <2>8 DEF TypeOK
  <1>24. ASSUME NEW t \in Control, CloseFinish(t) PROVE TypeOK'
    <2>0. CloseFinish(t)
      BY <1>24
    <2>1. PICK l \in {"idle"} \cup OpenPc \cup ClosePc : Goto(t, l)
      BY <2>0 DEF CloseFinish, OpenPc, ClosePc
    <2>2. PcType' /\ pc'[t] = l
      BY <2>1, GotoControl DEF TypeOK
    <2>3. /\ \A u \in Readers : pc'[u] = pc[u]
          /\ \A u \in Writers : pc'[u] = pc[u]
          /\ \A u \in Control \ {t} : pc'[u] = pc[u]
      BY <2>1, GotoControl DEF TypeOK
    <2>4. NodeType'
      BY <2>0, ConcatType DEF CloseFinish, TypeOK, NodeType
    <2>5. KernelType'
      BY <2>0 DEF TypeOK, KernelType, NodeType, CloseFinish, kernVars, Plain
    <2>6. ReadType'
      BY <2>0, <2>2, <2>3 DEF TypeOK, ReadType, CloseFinish, Goto, readVars, NodeType, KernelType, PcType, Threads
    <2>7. WriteType'
      BY <2>0, <2>2, <2>3, Bounds DEF TypeOK, WriteType, CloseFinish, writeVars
    <2>8. HistoryType'
      BY <2>0, ConcatType DEF CloseFinish, TypeOK, HistoryType
    <2> QED
      BY <2>2, <2>4, <2>5, <2>6, <2>7, <2>8 DEF TypeOK
  <1>25. ASSUME NEW c \in Conns, ClientConnect(c) PROVE TypeOK'
    <2>0. ClientConnect(c)
      BY <1>25
    <2>2. PcType'
      BY <2>0 DEF TypeOK, PcType, ClientConnect
    <2>3. pc' = pc
      BY <2>0 DEF ClientConnect
    <2>4. NodeType'
      BY <2>0, PrefixType DEF TypeOK, NodeType, ClientConnect, nodeVars, Threads
    <2>5. KernelType'
      <3>1. Append(backlog, c) \in Seq(Conns)
        BY DEF TypeOK, KernelType
      <3> QED
        BY <2>0, <3>1 DEF ClientConnect, TypeOK, KernelType
    <2>6. ReadType'
      BY <2>0, <2>2, <2>3 DEF TypeOK, ReadType, ClientConnect, Goto, readVars, NodeType, KernelType, PcType, Threads
    <2>7. WriteType'
      BY <2>0, <2>2, <2>3, Bounds DEF TypeOK, WriteType, ClientConnect, writeVars
    <2>8. HistoryType'
      BY <2>0 DEF TypeOK, HistoryType, ClientConnect, histVars
    <2> QED
      BY <2>2, <2>4, <2>5, <2>6, <2>7, <2>8 DEF TypeOK
  <1>26. ASSUME NEW c \in Conns, ClientSend(c) PROVE TypeOK'
    <2>0. ClientSend(c)
      BY <1>26
    <2>2. PcType'
      BY <2>0 DEF TypeOK, PcType, ClientSend, Byte
    <2>3. pc' = pc
      BY <2>0 DEF ClientSend, Byte
    <2>4. NodeType'
      BY <2>0, PrefixType DEF TypeOK, NodeType, ClientSend, Byte, nodeVars, Threads
    <2>5. KernelType'
      <3>1. PICK newline \in BOOLEAN :
               LET b == [from |-> c, n |-> Len(sent[c]) + 1, nl |-> newline]
               IN  /\ sent' = [sent EXCEPT ![c] = Append(@, b)]
                   /\ inq' = [inq EXCEPT ![c] = Append(@, b)]
        BY <2>0 DEF ClientSend
      <3>2. [from |-> c, n |-> Len(sent[c]) + 1, nl |-> newline] \in Byte
        BY <2>0, Bounds DEF ClientSend, Byte, TypeOK, HistoryType
      <3>3. inq' \in [Conns -> Seq(Byte)]
        BY <3>1, <3>2 DEF TypeOK, KernelType
      <3> QED
        BY <2>0, <3>3 DEF ClientSend, TypeOK, KernelType
    <2>6. ReadType'
      BY <2>0, <2>2, <2>3 DEF TypeOK, ReadType, ClientSend, Byte, Goto, readVars, NodeType, KernelType, PcType, Threads
    <2>7. WriteType'
      BY <2>0, <2>2, <2>3, Bounds DEF TypeOK, WriteType, ClientSend, Byte, writeVars
    <2>8. HistoryType'
      <3>1. PICK newline \in BOOLEAN :
               LET b == [from |-> c, n |-> Len(sent[c]) + 1, nl |-> newline]
               IN  /\ sent' = [sent EXCEPT ![c] = Append(@, b)]
                   /\ inq' = [inq EXCEPT ![c] = Append(@, b)]
        BY <2>0 DEF ClientSend
      <3>2. [from |-> c, n |-> Len(sent[c]) + 1, nl |-> newline] \in Byte
        BY <2>0, Bounds DEF ClientSend, Byte, TypeOK, HistoryType
      <3>3. sent' \in [Conns -> Seq(Byte)]
        BY <3>1, <3>2 DEF TypeOK, HistoryType
      <3> QED
        BY <2>0, <3>3 DEF ClientSend, TypeOK, HistoryType
    <2> QED
      BY <2>2, <2>4, <2>5, <2>6, <2>7, <2>8 DEF TypeOK
  <1>27. ASSUME NEW c \in Conns, ClientHangup(c) PROVE TypeOK'
    <2>0. ClientHangup(c)
      BY <1>27
    <2>2. PcType'
      BY <2>0 DEF TypeOK, PcType, ClientHangup
    <2>3. pc' = pc
      BY <2>0 DEF ClientHangup
    <2>4. NodeType'
      BY <2>0, PrefixType DEF TypeOK, NodeType, ClientHangup, nodeVars, Threads
    <2>5. KernelType'
      BY <2>0 DEF TypeOK, KernelType, NodeType, ClientHangup, kernVars, Plain
    <2>6. ReadType'
      BY <2>0, <2>2, <2>3 DEF TypeOK, ReadType, ClientHangup, Goto, readVars, NodeType, KernelType, PcType, Threads
    <2>7. WriteType'
      BY <2>0, <2>2, <2>3, Bounds DEF TypeOK, WriteType, ClientHangup, writeVars
    <2>8. HistoryType'
      BY <2>0 DEF TypeOK, HistoryType, ClientHangup, histVars
    <2> QED
      BY <2>2, <2>4, <2>5, <2>6, <2>7, <2>8 DEF TypeOK
  <1>28. ASSUME NEW w \in Writers, WriteKilled(w) PROVE TypeOK'
    <2>0. WriteKilled(w)
      BY <1>28
    <2>1. PICK l \in {"idle"} \cup WritePc : Goto(w, l)
      BY <2>0 DEF WriteKilled, WritePc
    <2>2. PcType' /\ pc'[w] = l
      BY <2>1, GotoWriter DEF TypeOK
    <2>3. /\ \A u \in Readers : pc'[u] = pc[u]
          /\ \A u \in Writers \ {w} : pc'[u] = pc[u]
          /\ \A u \in Control : pc'[u] = pc[u]
      BY <2>1, GotoWriter DEF TypeOK
    <2>4. NodeType'
      BY <2>0, PrefixType DEF TypeOK, NodeType, WriteKilled, nodeVars, Threads
    <2>5. KernelType'
      BY <2>0 DEF TypeOK, KernelType, NodeType, WriteKilled, kernVars, Plain
    <2>6. ReadType'
      BY <2>0, <2>2, <2>3 DEF TypeOK, ReadType, WriteKilled, Goto, readVars, NodeType, KernelType, PcType, Threads
    <2>7. WriteType'
      BY <2>0, <2>2, <2>3, Bounds DEF TypeOK, WriteType, WriteKilled, writeVars
    <2>8. HistoryType'
      BY <2>0 DEF TypeOK, HistoryType, WriteKilled, histVars
    <2> QED
      BY <2>2, <2>4, <2>5, <2>6, <2>7, <2>8 DEF TypeOK
  <1> QED
    BY <1>1, <1>2, <1>3, <1>4, <1>5, <1>6, <1>7, <1>8, <1>9, <1>10, <1>11, <1>12, <1>13, <1>14, <1>15, <1>16, <1>17, <1>18, <1>19, <1>20, <1>21, <1>22, <1>23, <1>24, <1>25, <1>26, <1>27, <1>28
    DEF Next, ReaderStep, WriterStep, OpenStep, CloseStep

\* Nor does a step that changes nothing.
LEMMA TypeStutter ==
    ASSUME TypeOK, UNCHANGED vars
    PROVE  TypeOK'
  BY DEF vars, nodeVars, kernVars, readVars, writeVars, histVars, TypeOK,
         NodeType, KernelType, PcType, ReadType, WriteType, HistoryType

\* Whatever the constants, every variable keeps its type; in particular a
\* writer never writes past the end of its string and never beyond what the
\* bounds allow, and a reader never calls ::read() on no descriptor.
THEOREM TypeCorrect == Spec => []TypeOK
  <1>1. TypeOK /\ [Next]_vars => TypeOK'
    BY TypeStep, TypeStutter
  <1> QED
    BY InitType, <1>1, PTL DEF Spec

\* _mtx is held by exactly the thread that is in a locked region.
LockInv ==
    \A t \in Threads :
        mtx = t <=> pc[t] \in {"rd_accept", "wr_accept", "cl_fds", "cl_buf"}

\* The two descriptors of the node name what they should.
FdInv ==
    /\ client_fd # NoFd => fdtab[client_fd] \in Conns
    /\ listen_fd # NoFd => fdtab[listen_fd] \in {"socket", "listener"}

\* A connection is queued once, and it is neither named by a descriptor nor
\* read from before it leaves the queue; until then all it carried is unread.
Queued(c) == \E i \in DOMAIN backlog : backlog[i] = c
QueuedUsed == \A c \in Conns : Queued(c) => c \in used
QueuedOnce == \A i, j \in DOMAIN backlog : backlog[i] = backlog[j] => i = j
NamedNotQueued ==
    \A f \in Fds : fdtab[f] \in Conns => fdtab[f] \in used /\ ~Queued(fdtab[f])
SourceNotQueued ==
    \A r \in Readers : src[r] \in Conns => src[r] \in used /\ ~Queued(src[r])
FreshUnread == \A c \in Conns : (c \notin used \/ Queued(c)) => inq[c] = sent[c]
QueueInv ==
    QueuedUsed /\ QueuedOnce /\ NamedNotQueued /\ SourceNotQueued /\ FreshUnread

\* In do_read(), past the block that accepts.
Connected == {"rd_scan", "rd_take", "rd_copy", "rd_call", "rd_wait",
              "rd_append", "rd_eof"}

\* While calls do not overlap there is one reader at a time, never with a
\* close body, and it works on the current connection; without a connection
\* nothing is buffered.
OneReader == \A r, q \in Readers : pc[r] # "idle" /\ pc[q] # "idle" => r = q
ClosesAlone ==
    \A r \in Readers, t \in Control : pc[t] \in CloseBody => pc[r] = "idle"
HasClient == \A r \in Readers : pc[r] \in Connected => client_fd # NoFd
ReadsClient ==
    /\ \A r \in Readers : pc[r] = "rd_call" => cfd[r] = client_fd
    /\ \A r \in Readers : pc[r] = "rd_wait" => src[r] = fdtab[client_fd]
EmptyAtFirst ==
    (client_fd = NoFd /\ \A t \in Control : pc[t] # "cl_buf")
        => rcvd = <<>> /\ read_buf = <<>>
AloneInv ==
    ~torn => OneReader /\ ClosesAlone /\ HasClient /\ ReadsClient /\ EmptyAtFirst

\* The lock is taken and released as the program counters say.
LEMMA LockStep ==
    ASSUME TypeOK, LockInv, Next
    PROVE  LockInv'
  <1>1. ASSUME NEW r \in Readers, ReadBegin(r) PROVE LockInv'
    BY <1>1, ThreadAssumption DEF ReadBegin, Goto, LockInv, TypeOK, NodeType, PcType, Threads, nodeVars
  <1>2. ASSUME NEW r \in Readers, ReadLock(r) PROVE LockInv'
    BY <1>2, ThreadAssumption DEF ReadLock, Goto, LockInv, TypeOK, NodeType, PcType, Threads, nodeVars
  <1>3. ASSUME NEW r \in Readers, ReadAccept(r) PROVE LockInv'
    BY <1>3, ThreadAssumption DEF ReadAccept, AcceptBlock, Goto, LockInv, TypeOK, NodeType, PcType, Threads, nodeVars
  <1>4. ASSUME NEW r \in Readers, ReadScan(r) PROVE LockInv'
    BY <1>4, ThreadAssumption DEF ReadScan, Goto, LockInv, TypeOK, NodeType, PcType, Threads, nodeVars
  <1>5. ASSUME NEW r \in Readers, ReadTake(r) PROVE LockInv'
    BY <1>5, ThreadAssumption DEF ReadTake, Return, Goto, LockInv, TypeOK, NodeType, PcType, Threads, nodeVars
  <1>6. ASSUME NEW r \in Readers, ReadCopy(r) PROVE LockInv'
    BY <1>6, ThreadAssumption DEF ReadCopy, Return, Goto, LockInv, TypeOK, NodeType, PcType, Threads, nodeVars
  <1>7. ASSUME NEW r \in Readers, ReadCall(r) PROVE LockInv'
    BY <1>7, ThreadAssumption DEF ReadCall, Goto, LockInv, TypeOK, NodeType, PcType, Threads, nodeVars
  <1>8. ASSUME NEW r \in Readers, ReadData(r) PROVE LockInv'
    BY <1>8, ThreadAssumption DEF ReadData, Goto, LockInv, TypeOK, NodeType, PcType, Threads, nodeVars
  <1>9. ASSUME NEW r \in Readers, ReadNothing(r) PROVE LockInv'
    BY <1>9, ThreadAssumption DEF ReadNothing, Goto, LockInv, TypeOK, NodeType, PcType, Threads, nodeVars
  <1>10. ASSUME NEW r \in Readers, ReadAppend(r) PROVE LockInv'
    BY <1>10, ThreadAssumption DEF ReadAppend, Goto, LockInv, TypeOK, NodeType, PcType, Threads, nodeVars
  <1>11. ASSUME NEW r \in Readers, ReadEof(r) PROVE LockInv'
    BY <1>11, ThreadAssumption DEF ReadEof, Return, Goto, LockInv, TypeOK, NodeType, PcType, Threads, nodeVars
  <1>12. ASSUME NEW w \in Writers, WriteBegin(w) PROVE LockInv'
    BY <1>12, ThreadAssumption DEF WriteBegin, Goto, LockInv, TypeOK, NodeType, PcType, Threads, nodeVars
  <1>13. ASSUME NEW w \in Writers, WriteLock(w) PROVE LockInv'
    BY <1>13, ThreadAssumption DEF WriteLock, Goto, LockInv, TypeOK, NodeType, PcType, Threads, nodeVars
  <1>14. ASSUME NEW w \in Writers, WriteAccept(w) PROVE LockInv'
    BY <1>14, ThreadAssumption DEF WriteAccept, AcceptBlock, Goto, LockInv, TypeOK, NodeType, PcType, Threads, nodeVars
  <1>15. ASSUME NEW w \in Writers, WriteSome(w) PROVE LockInv'
    BY <1>15, ThreadAssumption DEF WriteSome, Goto, LockInv, TypeOK, NodeType, PcType, Threads, nodeVars
  <1>16. ASSUME NEW w \in Writers, WriteFail(w) PROVE LockInv'
    BY <1>16, ThreadAssumption DEF WriteFail, Goto, LockInv, TypeOK, NodeType, PcType, Threads, nodeVars
  <1>17. ASSUME NEW t \in Control, OpenBegin(t) PROVE LockInv'
    BY <1>17, ThreadAssumption DEF OpenBegin, Goto, LockInv, TypeOK, NodeType, PcType, Threads, nodeVars
  <1>18. ASSUME NEW t \in Control, OpenSocket(t) PROVE LockInv'
    BY <1>18, ThreadAssumption DEF OpenSocket, Goto, LockInv, TypeOK, NodeType, PcType, Threads, nodeVars
  <1>19. ASSUME NEW t \in Control, OpenBind(t) PROVE LockInv'
    BY <1>19, ThreadAssumption DEF OpenBind, OpenFail, Goto, LockInv, TypeOK, NodeType, PcType, Threads, nodeVars
  <1>20. ASSUME NEW t \in Control, OpenListen(t) PROVE LockInv'
    BY <1>20, ThreadAssumption DEF OpenListen, OpenFail, Goto, LockInv, TypeOK, NodeType, PcType, Threads, nodeVars
  <1>21. ASSUME NEW t \in Control, CloseBegin(t) PROVE LockInv'
    BY <1>21, ThreadAssumption DEF CloseBegin, Goto, LockInv, TypeOK, NodeType, PcType, Threads, nodeVars
  <1>22. ASSUME NEW t \in Control, CloseLock(t) PROVE LockInv'
    BY <1>22, ThreadAssumption DEF CloseLock, Goto, LockInv, TypeOK, NodeType, PcType, Threads, nodeVars
  <1>23. ASSUME NEW t \in Control, CloseDescriptors(t) PROVE LockInv'
    BY <1>23, ThreadAssumption DEF CloseDescriptors, Goto, LockInv, TypeOK, NodeType, PcType, Threads, nodeVars
  <1>24. ASSUME NEW t \in Control, CloseFinish(t) PROVE LockInv'
    BY <1>24, ThreadAssumption DEF CloseFinish, Goto, LockInv, TypeOK, NodeType, PcType, Threads, nodeVars
  <1>25. ASSUME NEW c \in Conns, ClientConnect(c) PROVE LockInv'
    BY <1>25, ThreadAssumption DEF ClientConnect, Goto, LockInv, TypeOK, NodeType, PcType, Threads, nodeVars
  <1>26. ASSUME NEW c \in Conns, ClientSend(c) PROVE LockInv'
    BY <1>26, ThreadAssumption DEF ClientSend, Goto, LockInv, TypeOK, NodeType, PcType, Threads, nodeVars
  <1>27. ASSUME NEW c \in Conns, ClientHangup(c) PROVE LockInv'
    BY <1>27, ThreadAssumption DEF ClientHangup, Goto, LockInv, TypeOK, NodeType, PcType, Threads, nodeVars
  <1>28. ASSUME NEW w \in Writers, WriteKilled(w) PROVE LockInv'
    BY <1>28, ThreadAssumption DEF WriteKilled, Goto, LockInv, TypeOK, NodeType, PcType, Threads, nodeVars
  <1> QED
    BY <1>1, <1>2, <1>3, <1>4, <1>5, <1>6, <1>7, <1>8, <1>9, <1>10, <1>11, <1>12, <1>13, <1>14, <1>15, <1>16, <1>17, <1>18, <1>19, <1>20, <1>21, <1>22, <1>23, <1>24, <1>25, <1>26, <1>27, <1>28
    DEF Next, ReaderStep, WriterStep, OpenStep, CloseStep

\* open(), do_accept() and close() keep the two descriptors meaningful.
LEMMA FdStep ==
    ASSUME TypeOK, FdInv, Next
    PROVE  FdInv'
  <1>1. ASSUME NEW r \in Readers, ReadBegin(r) PROVE FdInv'
    BY <1>1, NameAssumption DEF ReadBegin, FdInv, TypeOK, NodeType, KernelType, nodeVars, kernVars, Plain
  <1>2. ASSUME NEW r \in Readers, ReadLock(r) PROVE FdInv'
    BY <1>2, NameAssumption DEF ReadLock, FdInv, TypeOK, NodeType, KernelType, nodeVars, kernVars, Plain
  <1>3. ASSUME NEW r \in Readers, ReadAccept(r) PROVE FdInv'
    BY <1>3, NameAssumption DEF ReadAccept, AcceptBlock, Accepted, FdInv, TypeOK, NodeType, KernelType, nodeVars, kernVars, Plain
  <1>4. ASSUME NEW r \in Readers, ReadScan(r) PROVE FdInv'
    BY <1>4, NameAssumption DEF ReadScan, FdInv, TypeOK, NodeType, KernelType, nodeVars, kernVars, Plain
  <1>5. ASSUME NEW r \in Readers, ReadTake(r) PROVE FdInv'
    BY <1>5, NameAssumption DEF ReadTake, Return, FdInv, TypeOK, NodeType, KernelType, nodeVars, kernVars, Plain
  <1>6. ASSUME NEW r \in Readers, ReadCopy(r) PROVE FdInv'
    BY <1>6, NameAssumption DEF ReadCopy, Return, FdInv, TypeOK, NodeType, KernelType, nodeVars, kernVars, Plain
  <1>7. ASSUME NEW r \in Readers, ReadCall(r) PROVE FdInv'
    BY <1>7, NameAssumption DEF ReadCall, FdInv, TypeOK, NodeType, KernelType, nodeVars, kernVars, Plain
  <1>8. ASSUME NEW r \in Readers, ReadData(r) PROVE FdInv'
    BY <1>8, NameAssumption DEF ReadData, FdInv, TypeOK, NodeType, KernelType, nodeVars, kernVars, Plain
  <1>9. ASSUME NEW r \in Readers, ReadNothing(r) PROVE FdInv'
    BY <1>9, NameAssumption DEF ReadNothing, FdInv, TypeOK, NodeType, KernelType, nodeVars, kernVars, Plain
  <1>10. ASSUME NEW r \in Readers, ReadAppend(r) PROVE FdInv'
    BY <1>10, NameAssumption DEF ReadAppend, FdInv, TypeOK, NodeType, KernelType, nodeVars, kernVars, Plain
  <1>11. ASSUME NEW r \in Readers, ReadEof(r) PROVE FdInv'
    BY <1>11, NameAssumption DEF ReadEof, Return, FdInv, TypeOK, NodeType, KernelType, nodeVars, kernVars, Plain
  <1>12. ASSUME NEW w \in Writers, WriteBegin(w) PROVE FdInv'
    BY <1>12, NameAssumption DEF WriteBegin, FdInv, TypeOK, NodeType, KernelType, nodeVars, kernVars, Plain
  <1>13. ASSUME NEW w \in Writers, WriteLock(w) PROVE FdInv'
    BY <1>13, NameAssumption DEF WriteLock, FdInv, TypeOK, NodeType, KernelType, nodeVars, kernVars, Plain
  <1>14. ASSUME NEW w \in Writers, WriteAccept(w) PROVE FdInv'
    BY <1>14, NameAssumption DEF WriteAccept, AcceptBlock, Accepted, FdInv, TypeOK, NodeType, KernelType, nodeVars, kernVars, Plain
  <1>15. ASSUME NEW w \in Writers, WriteSome(w) PROVE FdInv'
    BY <1>15, NameAssumption DEF WriteSome, FdInv, TypeOK, NodeType, KernelType, nodeVars, kernVars, Plain
  <1>16. ASSUME NEW w \in Writers, WriteFail(w) PROVE FdInv'
    BY <1>16, NameAssumption DEF WriteFail, FdInv, TypeOK, NodeType, KernelType, nodeVars, kernVars, Plain
  <1>17. ASSUME NEW t \in Control, OpenBegin(t) PROVE FdInv'
    BY <1>17, NameAssumption DEF OpenBegin, FdInv, TypeOK, NodeType, KernelType, nodeVars, kernVars, Plain
  <1>18. ASSUME NEW t \in Control, OpenSocket(t) PROVE FdInv'
    BY <1>18, NameAssumption DEF OpenSocket, FdInv, TypeOK, NodeType, KernelType, nodeVars, kernVars, Plain
  <1>19. ASSUME NEW t \in Control, OpenBind(t) PROVE FdInv'
    BY <1>19, NameAssumption DEF OpenBind, OpenFail, IsSocket, CloseFds, FdInv, TypeOK, NodeType, KernelType, nodeVars, kernVars, Plain
  <1>20. ASSUME NEW t \in Control, OpenListen(t) PROVE FdInv'
    BY <1>20, NameAssumption DEF OpenListen, OpenFail, IsSocket, CloseFds, FdInv, TypeOK, NodeType, KernelType, nodeVars, kernVars, Plain
  <1>21. ASSUME NEW t \in Control, CloseBegin(t) PROVE FdInv'
    BY <1>21, NameAssumption DEF CloseBegin, FdInv, TypeOK, NodeType, KernelType, nodeVars, kernVars, Plain
  <1>22. ASSUME NEW t \in Control, CloseLock(t) PROVE FdInv'
    BY <1>22, NameAssumption DEF CloseLock, FdInv, TypeOK, NodeType, KernelType, nodeVars, kernVars, Plain
  <1>23. ASSUME NEW t \in Control, CloseDescriptors(t) PROVE FdInv'
    BY <1>23, NameAssumption DEF CloseDescriptors, CloseFds, FdInv, TypeOK, NodeType, KernelType, nodeVars, kernVars, Plain
  <1>24. ASSUME NEW t \in Control, CloseFinish(t) PROVE FdInv'
    BY <1>24, NameAssumption DEF CloseFinish, FdInv, TypeOK, NodeType, KernelType, nodeVars, kernVars, Plain
  <1>25. ASSUME NEW c \in Conns, ClientConnect(c) PROVE FdInv'
    BY <1>25, NameAssumption DEF ClientConnect, FdInv, TypeOK, NodeType, KernelType, nodeVars, kernVars, Plain
  <1>26. ASSUME NEW c \in Conns, ClientSend(c) PROVE FdInv'
    BY <1>26, NameAssumption DEF ClientSend, FdInv, TypeOK, NodeType, KernelType, nodeVars, kernVars, Plain
  <1>27. ASSUME NEW c \in Conns, ClientHangup(c) PROVE FdInv'
    BY <1>27, NameAssumption DEF ClientHangup, FdInv, TypeOK, NodeType, KernelType, nodeVars, kernVars, Plain
  <1>28. ASSUME NEW w \in Writers, WriteKilled(w) PROVE FdInv'
    BY <1>28, NameAssumption DEF WriteKilled, FdInv, TypeOK, NodeType, KernelType, nodeVars, kernVars, Plain
  <1> QED
    BY <1>1, <1>2, <1>3, <1>4, <1>5, <1>6, <1>7, <1>8, <1>9, <1>10, <1>11, <1>12, <1>13, <1>14, <1>15, <1>16, <1>17, <1>18, <1>19, <1>20, <1>21, <1>22, <1>23, <1>24, <1>25, <1>26, <1>27, <1>28
    DEF Next, ReaderStep, WriterStep, OpenStep, CloseStep

\* What leaving the queue does to the connections in it.
LEMMA QueueTail ==
    ASSUME NEW q \in Seq(Conns), q # <<>>,
           \A i, j \in DOMAIN q : q[i] = q[j] => i = j
    PROVE  /\ Head(q) \in Conns /\ \E i \in DOMAIN q : q[i] = Head(q)
           /\ \A i \in DOMAIN Tail(q) : \E k \in DOMAIN q : q[k] = Tail(q)[i]
           /\ \A i \in DOMAIN Tail(q) : Tail(q)[i] # Head(q)
           /\ \A i, j \in DOMAIN Tail(q) : Tail(q)[i] = Tail(q)[j] => i = j
  <1>1. /\ Len(q) \in Nat \ {0}
        /\ DOMAIN q = 1..Len(q)
        /\ Head(q) = q[1]
        /\ DOMAIN Tail(q) = 1..(Len(q) - 1)
        /\ \A i \in 1..(Len(q) - 1) : Tail(q)[i] = q[i + 1]
    OBVIOUS
  <1> QED
    BY <1>1

\* What joining the queue does to the connections in it.
LEMMA QueueAppend ==
    ASSUME NEW q \in Seq(Conns), NEW c \in Conns,
           \A i \in DOMAIN q : q[i] # c,
           \A i, j \in DOMAIN q : q[i] = q[j] => i = j
    PROVE  /\ \A i \in DOMAIN Append(q, c) :
                Append(q, c)[i] = c \/ \E k \in DOMAIN q : q[k] = Append(q, c)[i]
           /\ \A i, j \in DOMAIN Append(q, c) : Append(q, c)[i] = Append(q, c)[j] => i = j
  <1>1. /\ Len(q) \in Nat
        /\ DOMAIN q = 1..Len(q)
        /\ DOMAIN Append(q, c) = 1..(Len(q) + 1)
        /\ Append(q, c)[Len(q) + 1] = c
        /\ \A i \in 1..Len(q) : Append(q, c)[i] = q[i]
    OBVIOUS
  <1> QED
    BY <1>1

\* Connections are queued once, accepted once, and read only after that.
LEMMA QueueStep ==
    ASSUME TypeOK, FdInv, QueueInv, Next
    PROVE  QueueInv'
  <1>1. ASSUME NEW r \in Readers, ReadBegin(r) PROVE QueueInv'
    BY <1>1, NameAssumption DEF ReadBegin, QueueInv, QueuedUsed, QueuedOnce, NamedNotQueued, SourceNotQueued, FreshUnread, Queued, TypeOK, KernelType, ReadType, HistoryType, nodeVars, kernVars, readVars, histVars, Plain
  <1>2. ASSUME NEW r \in Readers, ReadLock(r) PROVE QueueInv'
    BY <1>2, NameAssumption DEF ReadLock, QueueInv, QueuedUsed, QueuedOnce, NamedNotQueued, SourceNotQueued, FreshUnread, Queued, TypeOK, KernelType, ReadType, HistoryType, nodeVars, kernVars, readVars, histVars, Plain
  <1>3. ASSUME NEW r \in Readers, ReadAccept(r) PROVE QueueInv'
    <2>0. ReadAccept(r)
      BY <1>3
    <2>1. UNCHANGED <<used, inq, sent, src>>
      BY <2>0 DEF ReadAccept, AcceptBlock, readVars, histVars
    <2>2. CASE UNCHANGED <<client_fd, fdtab, backlog>>
      BY <2>1, <2>2 DEF QueueInv, QueuedUsed, QueuedOnce, NamedNotQueued, SourceNotQueued, FreshUnread, Queued
    <2>3. CASE Accepted
      <3>1. /\ Queued(Head(backlog)) /\ ~(\E i \in DOMAIN backlog' : backlog'[i] = Head(backlog))
            /\ \A c \in Conns : Queued(c)' => Queued(c)
            /\ QueuedOnce'
        <4>1. /\ backlog \in Seq(Conns) /\ backlog # <<>> /\ backlog' = Tail(backlog)
              /\ \A i, j \in DOMAIN backlog : backlog[i] = backlog[j] => i = j
          BY <2>3 DEF Accepted, QueueInv, QueuedOnce, TypeOK, KernelType
        <4>2. QueuedOnce'
          BY <4>1, QueueTail DEF QueuedOnce
        <4>3. Queued(Head(backlog)) /\ ~(\E i \in DOMAIN backlog' : backlog'[i] = Head(backlog))
          BY <4>1, QueueTail DEF Queued
        <4>4. \A c \in Conns : Queued(c)' => Queued(c)
          BY <4>1, QueueTail DEF Queued
        <4> QED
          BY <4>2, <4>3, <4>4
      <3>2. PICK f \in Fds : fdtab' = [fdtab EXCEPT ![f] = Head(backlog)]
        BY <2>3 DEF Accepted
      <3>3. Head(backlog) \in Conns
        BY <2>3 DEF Accepted, TypeOK, KernelType
      <3>4. NamedNotQueued'
        <4>1. Head(backlog) \in used'
          BY <2>1, <3>1, <3>3 DEF QueueInv, QueuedUsed
        <4>2. \A g \in Fds : fdtab'[g] = Head(backlog) \/ fdtab'[g] = fdtab[g]
          BY <3>2 DEF TypeOK, KernelType
        <4>3. \A g \in Fds : fdtab[g] \in Conns =>
                     fdtab[g] \in used' /\ ~(\E i \in DOMAIN backlog' : backlog'[i] = fdtab[g])
          BY <2>1, <3>1 DEF QueueInv, NamedNotQueued, Queued
        <4> QED
          BY <3>1, <4>1, <4>2, <4>3 DEF NamedNotQueued, Queued
      <3>5. QueuedUsed' /\ SourceNotQueued' /\ FreshUnread'
        BY <2>1, <3>1 DEF QueueInv, QueuedUsed, SourceNotQueued, FreshUnread
      <3> QED
        BY <3>1, <3>4, <3>5 DEF QueueInv
    <2> QED
      BY <2>0, <2>2, <2>3 DEF ReadAccept, AcceptBlock
  <1>4. ASSUME NEW r \in Readers, ReadScan(r) PROVE QueueInv'
    BY <1>4, NameAssumption DEF ReadScan, QueueInv, QueuedUsed, QueuedOnce, NamedNotQueued, SourceNotQueued, FreshUnread, Queued, TypeOK, KernelType, ReadType, HistoryType, nodeVars, kernVars, readVars, histVars, Plain
  <1>5. ASSUME NEW r \in Readers, ReadTake(r) PROVE QueueInv'
    BY <1>5, NameAssumption DEF ReadTake, Return, QueueInv, QueuedUsed, QueuedOnce, NamedNotQueued, SourceNotQueued, FreshUnread, Queued, TypeOK, KernelType, ReadType, HistoryType, nodeVars, kernVars, readVars, histVars, Plain
  <1>6. ASSUME NEW r \in Readers, ReadCopy(r) PROVE QueueInv'
    BY <1>6, NameAssumption DEF ReadCopy, Return, QueueInv, QueuedUsed, QueuedOnce, NamedNotQueued, SourceNotQueued, FreshUnread, Queued, TypeOK, KernelType, ReadType, HistoryType, nodeVars, kernVars, readVars, histVars, Plain
  <1>7. ASSUME NEW r \in Readers, ReadCall(r) PROVE QueueInv'
    <2>0. UNCHANGED <<used, inq, sent, backlog, fdtab>>
      BY <1>7 DEF ReadCall, kernVars, histVars
    <2>1. QueuedUsed' /\ QueuedOnce' /\ NamedNotQueued' /\ FreshUnread'
      BY <2>0 DEF QueueInv, QueuedUsed, QueuedOnce, NamedNotQueued, SourceNotQueued, FreshUnread, Queued
    <2>2. src' = src \/ (/\ cfd[r] \in Fds /\ fdtab[cfd[r]] \in Conns
                       /\ src' = [src EXCEPT ![r] = fdtab[cfd[r]]])
      BY <1>7 DEF ReadCall, TypeOK, ReadType
    <2>3. SourceNotQueued'
      <3>1. \A c \in Conns : Queued(c)' <=> Queued(c)
        BY <2>0 DEF Queued
      <3>2. \A q \in Readers : \/ src'[q] = src[q]
                               \/ \E f \in Fds : fdtab[f] \in Conns /\ src'[q] = fdtab[f]
        BY <2>2 DEF TypeOK, ReadType
      <3> QED
        BY <2>0, <3>1, <3>2 DEF QueueInv, SourceNotQueued, NamedNotQueued
    <2> QED
      BY <2>1, <2>3 DEF QueueInv
  <1>8. ASSUME NEW r \in Readers, ReadData(r) PROVE QueueInv'
    <2>0. UNCHANGED <<used, sent, backlog, fdtab, src>>
      BY <1>8 DEF ReadData, histVars
    <2>1. QueuedUsed' /\ QueuedOnce' /\ NamedNotQueued' /\ SourceNotQueued'
      BY <2>0 DEF QueueInv, QueuedUsed, QueuedOnce, NamedNotQueued, SourceNotQueued, FreshUnread, Queued
    <2>2. /\ src[r] \in used /\ ~Queued(src[r])
          /\ \A c \in Conns \ {src[r]} : inq'[c] = inq[c]
      BY <1>8 DEF ReadData, QueueInv, SourceNotQueued, TypeOK, ReadType, KernelType
    <2>3. FreshUnread'
      BY <2>0, <2>2 DEF QueueInv, FreshUnread, Queued
    <2> QED
      BY <2>1, <2>3 DEF QueueInv
  <1>9. ASSUME NEW r \in Readers, ReadNothing(r) PROVE QueueInv'
    BY <1>9, NameAssumption DEF ReadNothing, QueueInv, QueuedUsed, QueuedOnce, NamedNotQueued, SourceNotQueued, FreshUnread, Queued, TypeOK, KernelType, ReadType, HistoryType, nodeVars, kernVars, readVars, histVars, Plain
  <1>10. ASSUME NEW r \in Readers, ReadAppend(r) PROVE QueueInv'
    BY <1>10, NameAssumption DEF ReadAppend, QueueInv, QueuedUsed, QueuedOnce, NamedNotQueued, SourceNotQueued, FreshUnread, Queued, TypeOK, KernelType, ReadType, HistoryType, nodeVars, kernVars, readVars, histVars, Plain
  <1>11. ASSUME NEW r \in Readers, ReadEof(r) PROVE QueueInv'
    BY <1>11, NameAssumption DEF ReadEof, Return, QueueInv, QueuedUsed, QueuedOnce, NamedNotQueued, SourceNotQueued, FreshUnread, Queued, TypeOK, KernelType, ReadType, HistoryType, nodeVars, kernVars, readVars, histVars, Plain
  <1>12. ASSUME NEW w \in Writers, WriteBegin(w) PROVE QueueInv'
    BY <1>12, NameAssumption DEF WriteBegin, QueueInv, QueuedUsed, QueuedOnce, NamedNotQueued, SourceNotQueued, FreshUnread, Queued, TypeOK, KernelType, ReadType, HistoryType, nodeVars, kernVars, readVars, histVars, Plain
  <1>13. ASSUME NEW w \in Writers, WriteLock(w) PROVE QueueInv'
    BY <1>13, NameAssumption DEF WriteLock, QueueInv, QueuedUsed, QueuedOnce, NamedNotQueued, SourceNotQueued, FreshUnread, Queued, TypeOK, KernelType, ReadType, HistoryType, nodeVars, kernVars, readVars, histVars, Plain
  <1>14. ASSUME NEW w \in Writers, WriteAccept(w) PROVE QueueInv'
    <2>0. WriteAccept(w)
      BY <1>14
    <2>1. UNCHANGED <<used, inq, sent, src>>
      BY <2>0 DEF WriteAccept, AcceptBlock, readVars, histVars
    <2>2. CASE UNCHANGED <<client_fd, fdtab, backlog>>
      BY <2>1, <2>2 DEF QueueInv, QueuedUsed, QueuedOnce, NamedNotQueued, SourceNotQueued, FreshUnread, Queued
    <2>3. CASE Accepted
      <3>1. /\ Queued(Head(backlog)) /\ ~(\E i \in DOMAIN backlog' : backlog'[i] = Head(backlog))
            /\ \A c \in Conns : Queued(c)' => Queued(c)
            /\ QueuedOnce'
        <4>1. /\ backlog \in Seq(Conns) /\ backlog # <<>> /\ backlog' = Tail(backlog)
              /\ \A i, j \in DOMAIN backlog : backlog[i] = backlog[j] => i = j
          BY <2>3 DEF Accepted, QueueInv, QueuedOnce, TypeOK, KernelType
        <4>2. QueuedOnce'
          BY <4>1, QueueTail DEF QueuedOnce
        <4>3. Queued(Head(backlog)) /\ ~(\E i \in DOMAIN backlog' : backlog'[i] = Head(backlog))
          BY <4>1, QueueTail DEF Queued
        <4>4. \A c \in Conns : Queued(c)' => Queued(c)
          BY <4>1, QueueTail DEF Queued
        <4> QED
          BY <4>2, <4>3, <4>4
      <3>2. PICK f \in Fds : fdtab' = [fdtab EXCEPT ![f] = Head(backlog)]
        BY <2>3 DEF Accepted
      <3>3. Head(backlog) \in Conns
        BY <2>3 DEF Accepted, TypeOK, KernelType
      <3>4. NamedNotQueued'
        <4>1. Head(backlog) \in used'
          BY <2>1, <3>1, <3>3 DEF QueueInv, QueuedUsed
        <4>2. \A g \in Fds : fdtab'[g] = Head(backlog) \/ fdtab'[g] = fdtab[g]
          BY <3>2 DEF TypeOK, KernelType
        <4>3. \A g \in Fds : fdtab[g] \in Conns =>
                     fdtab[g] \in used' /\ ~(\E i \in DOMAIN backlog' : backlog'[i] = fdtab[g])
          BY <2>1, <3>1 DEF QueueInv, NamedNotQueued, Queued
        <4> QED
          BY <3>1, <4>1, <4>2, <4>3 DEF NamedNotQueued, Queued
      <3>5. QueuedUsed' /\ SourceNotQueued' /\ FreshUnread'
        BY <2>1, <3>1 DEF QueueInv, QueuedUsed, SourceNotQueued, FreshUnread
      <3> QED
        BY <3>1, <3>4, <3>5 DEF QueueInv
    <2> QED
      BY <2>0, <2>2, <2>3 DEF WriteAccept, AcceptBlock
  <1>15. ASSUME NEW w \in Writers, WriteSome(w) PROVE QueueInv'
    BY <1>15, NameAssumption DEF WriteSome, QueueInv, QueuedUsed, QueuedOnce, NamedNotQueued, SourceNotQueued, FreshUnread, Queued, TypeOK, KernelType, ReadType, HistoryType, nodeVars, kernVars, readVars, histVars, Plain
  <1>16. ASSUME NEW w \in Writers, WriteFail(w) PROVE QueueInv'
    BY <1>16, NameAssumption DEF WriteFail, QueueInv, QueuedUsed, QueuedOnce, NamedNotQueued, SourceNotQueued, FreshUnread, Queued, TypeOK, KernelType, ReadType, HistoryType, nodeVars, kernVars, readVars, histVars, Plain
  <1>17. ASSUME NEW t \in Control, OpenBegin(t) PROVE QueueInv'
    BY <1>17, NameAssumption DEF OpenBegin, QueueInv, QueuedUsed, QueuedOnce, NamedNotQueued, SourceNotQueued, FreshUnread, Queued, TypeOK, KernelType, ReadType, HistoryType, nodeVars, kernVars, readVars, histVars, Plain
  <1>18. ASSUME NEW t \in Control, OpenSocket(t) PROVE QueueInv'
    <2>0. UNCHANGED <<used, inq, sent, src, backlog>>
      BY <1>18 DEF OpenSocket, readVars, histVars
    <2>1. \A f \in Fds : fdtab'[f] \in Conns => fdtab'[f] = fdtab[f]
      BY <1>18, NameAssumption DEF OpenSocket, TypeOK, KernelType, Plain
    <2> QED
      BY <2>0, <2>1 DEF QueueInv, QueuedUsed, QueuedOnce, NamedNotQueued, SourceNotQueued, FreshUnread, Queued
  <1>19. ASSUME NEW t \in Control, OpenBind(t) PROVE QueueInv'
    <2>0. UNCHANGED <<used, inq, sent, src>>
      BY <1>19 DEF OpenBind, readVars, histVars
    <2>1. backlog' \in {backlog, <<>>}
      BY <1>19 DEF OpenBind, OpenFail, IsSocket, CloseFds
    <2>2. /\ \A c \in Conns : Queued(c)' => Queued(c)
          /\ QueuedOnce'
      BY <2>1 DEF QueueInv, QueuedOnce, Queued, TypeOK, KernelType
    <2>3. \A f \in Fds : fdtab'[f] \in Conns => fdtab'[f] = fdtab[f]
      BY <1>19, NameAssumption DEF OpenBind, OpenFail, IsSocket, CloseFds, TypeOK, KernelType, Plain
    <2> QED
      BY <2>0, <2>2, <2>3 DEF QueueInv, QueuedUsed, NamedNotQueued, SourceNotQueued, FreshUnread
  <1>20. ASSUME NEW t \in Control, OpenListen(t) PROVE QueueInv'
    <2>0. UNCHANGED <<used, inq, sent, src>>
      BY <1>20 DEF OpenListen, readVars, histVars
    <2>1. backlog' \in {backlog, <<>>}
      BY <1>20 DEF OpenListen, OpenFail, IsSocket, CloseFds
    <2>2. /\ \A c \in Conns : Queued(c)' => Queued(c)
          /\ QueuedOnce'
      BY <2>1 DEF QueueInv, QueuedOnce, Queued, TypeOK, KernelType
    <2>3. \A f \in Fds : fdtab'[f] \in Conns => fdtab'[f] = fdtab[f]
      BY <1>20, NameAssumption DEF OpenListen, OpenFail, IsSocket, CloseFds, TypeOK, KernelType, Plain
    <2> QED
      BY <2>0, <2>2, <2>3 DEF QueueInv, QueuedUsed, NamedNotQueued, SourceNotQueued, FreshUnread
  <1>21. ASSUME NEW t \in Control, CloseBegin(t) PROVE QueueInv'
    BY <1>21, NameAssumption DEF CloseBegin, QueueInv, QueuedUsed, QueuedOnce, NamedNotQueued, SourceNotQueued, FreshUnread, Queued, TypeOK, KernelType, ReadType, HistoryType, nodeVars, kernVars, readVars, histVars, Plain
  <1>22. ASSUME NEW t \in Control, CloseLock(t) PROVE QueueInv'
    BY <1>22, NameAssumption DEF CloseLock, QueueInv, QueuedUsed, QueuedOnce, NamedNotQueued, SourceNotQueued, FreshUnread, Queued, TypeOK, KernelType, ReadType, HistoryType, nodeVars, kernVars, readVars, histVars, Plain
  <1>23. ASSUME NEW t \in Control, CloseDescriptors(t) PROVE QueueInv'
    <2>0. UNCHANGED <<used, inq, sent, src>>
      BY <1>23 DEF CloseDescriptors, readVars, histVars
    <2>1. backlog' \in {backlog, <<>>}
      BY <1>23 DEF CloseDescriptors, CloseFds
    <2>2. /\ \A c \in Conns : Queued(c)' => Queued(c)
          /\ QueuedOnce'
      BY <2>1 DEF QueueInv, QueuedOnce, Queued, TypeOK, KernelType
    <2>3. \A f \in Fds : fdtab'[f] \in Conns => fdtab'[f] = fdtab[f]
      BY <1>23, NameAssumption DEF CloseDescriptors, CloseFds, TypeOK, KernelType, Plain
    <2> QED
      BY <2>0, <2>2, <2>3 DEF QueueInv, QueuedUsed, NamedNotQueued, SourceNotQueued, FreshUnread
  <1>24. ASSUME NEW t \in Control, CloseFinish(t) PROVE QueueInv'
    BY <1>24, NameAssumption DEF CloseFinish, QueueInv, QueuedUsed, QueuedOnce, NamedNotQueued, SourceNotQueued, FreshUnread, Queued, TypeOK, KernelType, ReadType, HistoryType, nodeVars, kernVars, readVars, histVars, Plain
  <1>25. ASSUME NEW c \in Conns, ClientConnect(c) PROVE QueueInv'
    <2>0. /\ c \notin used /\ used' = used \cup {c} /\ backlog' = Append(backlog, c)
          /\ UNCHANGED <<inq, sent, src, fdtab>>
      BY <1>25 DEF ClientConnect, readVars, histVars
    <2>1. ~Queued(c)
      BY <2>0 DEF QueueInv, QueuedUsed
    <2>2. /\ \A d \in Conns : Queued(d)' => Queued(d) \/ d = c
          /\ QueuedOnce'
      <3>1. backlog \in Seq(Conns)
        BY DEF TypeOK, KernelType
      <3>2. /\ \A i \in DOMAIN backlog : backlog[i] # c
            /\ \A i, j \in DOMAIN backlog : backlog[i] = backlog[j] => i = j
        BY <2>1 DEF QueueInv, QueuedOnce, Queued
      <3>3. /\ \A i \in DOMAIN backlog' :
                 backlog'[i] = c \/ \E k \in DOMAIN backlog : backlog[k] = backlog'[i]
            /\ \A i, j \in DOMAIN backlog' : backlog'[i] = backlog'[j] => i = j
        BY <2>0, <3>1, <3>2, QueueAppend
      <3> QED
        BY ONLY <3>3 DEF QueuedOnce, Queued
    <2>3. QueuedUsed' /\ NamedNotQueued' /\ SourceNotQueued'
      BY <2>0, <2>2 DEF QueueInv, QueuedUsed, NamedNotQueued, SourceNotQueued
    <2>4. FreshUnread'
      BY <2>0, <2>2 DEF QueueInv, FreshUnread
    <2> QED
      BY <2>2, <2>3, <2>4 DEF QueueInv
  <1>26. ASSUME NEW c \in Conns, ClientSend(c) PROVE QueueInv'
    BY <1>26, NameAssumption DEF ClientSend, QueueInv, QueuedUsed, QueuedOnce, NamedNotQueued, SourceNotQueued, FreshUnread, Queued, TypeOK, KernelType, ReadType, HistoryType, nodeVars, kernVars, readVars, histVars, Plain
  <1>27. ASSUME NEW c \in Conns, ClientHangup(c) PROVE QueueInv'
    BY <1>27, NameAssumption DEF ClientHangup, QueueInv, QueuedUsed, QueuedOnce, NamedNotQueued, SourceNotQueued, FreshUnread, Queued, TypeOK, KernelType, ReadType, HistoryType, nodeVars, kernVars, readVars, histVars, Plain
  <1>28. ASSUME NEW w \in Writers, WriteKilled(w) PROVE QueueInv'
    BY <1>28, NameAssumption DEF WriteKilled, QueueInv, QueuedUsed, QueuedOnce, NamedNotQueued, SourceNotQueued, FreshUnread, Queued, TypeOK, KernelType, ReadType, HistoryType, nodeVars, kernVars, readVars, histVars, Plain
  <1> QED
    BY <1>1, <1>2, <1>3, <1>4, <1>5, <1>6, <1>7, <1>8, <1>9, <1>10, <1>11, <1>12, <1>13, <1>14, <1>15, <1>16, <1>17, <1>18, <1>19, <1>20, <1>21, <1>22, <1>23, <1>24, <1>25, <1>26, <1>27, <1>28
    DEF Next, ReaderStep, WriterStep, OpenStep, CloseStep

\* Calls that do not overlap leave each other alone.
LEMMA AloneStep ==
    ASSUME TypeOK, LockInv, FdInv, AloneInv, Next
    PROVE  AloneInv'
  <1>1. ASSUME NEW r \in Readers, ReadBegin(r) PROVE AloneInv'
    BY <1>1, NameAssumption, ThreadAssumption DEF ReadBegin, AloneInv, OneReader, ClosesAlone, HasClient, ReadsClient, EmptyAtFirst, Goto, Connected, CloseBody, LockInv, FdInv, TypeOK, NodeType, KernelType, PcType, ReadType, HistoryType, nodeVars, kernVars, readVars, histVars, Plain, Threads, ReadPc, WritePc, OpenPc, ClosePc
  <1>2. ASSUME NEW r \in Readers, ReadLock(r) PROVE AloneInv'
    <2> SUFFICES ASSUME ~torn' PROVE OneReader' /\ ClosesAlone' /\ HasClient' /\ ReadsClient' /\ EmptyAtFirst'
      BY DEF AloneInv
    <2>0. ReadLock(r) /\ ~torn
      BY <1>2 DEF ReadLock, histVars
    <2>1. PICK l \in {"idle"} \cup ReadPc : Goto(r, l) /\ pc[r] # "idle"
      BY <2>0 DEF ReadLock, ReadPc
    <2>2. /\ pc'[r] = l
          /\ \A q \in Readers \ {r} : pc'[q] = pc[q]
          /\ \A u \in Control : pc'[u] = pc[u]
      BY <2>1, GotoReader DEF TypeOK
    <2>3. OneReader'
      BY <2>0, <2>1, <2>2 DEF AloneInv, OneReader, ClosesAlone
    <2>4. ClosesAlone'
      <3>1. \A u \in Control : pc[u] \notin CloseBody
        BY <2>0, <2>1 DEF AloneInv, ClosesAlone
      <3>2. \A u \in Control : pc'[u] \notin CloseBody
        BY <2>2, <3>1
      <3> QED
        BY <3>2 DEF ClosesAlone, CloseBody
    <2>5. HasClient'
      BY <2>0, NameAssumption, ThreadAssumption DEF ReadLock, AloneInv, OneReader, ClosesAlone, HasClient, ReadsClient, EmptyAtFirst, Goto, Connected, CloseBody, LockInv, FdInv, TypeOK, NodeType, KernelType, PcType, ReadType, HistoryType, nodeVars, kernVars, readVars, histVars, Plain, Threads, ReadPc, WritePc, OpenPc, ClosePc
    <2>6. ReadsClient'
      BY <2>0, NameAssumption, ThreadAssumption DEF ReadLock, AloneInv, OneReader, ClosesAlone, HasClient, ReadsClient, EmptyAtFirst, Goto, Connected, CloseBody, LockInv, FdInv, TypeOK, NodeType, KernelType, PcType, ReadType, HistoryType, nodeVars, kernVars, readVars, histVars, Plain, Threads, ReadPc, WritePc, OpenPc, ClosePc
    <2>7. EmptyAtFirst'
      BY <2>0, NameAssumption, ThreadAssumption DEF ReadLock, AloneInv, OneReader, ClosesAlone, HasClient, ReadsClient, EmptyAtFirst, Goto, Connected, CloseBody, LockInv, FdInv, TypeOK, NodeType, KernelType, PcType, ReadType, HistoryType, nodeVars, kernVars, readVars, histVars, Plain, Threads, ReadPc, WritePc, OpenPc, ClosePc
    <2> QED
      BY <2>3, <2>4, <2>5, <2>6, <2>7
  <1>3. ASSUME NEW r \in Readers, ReadAccept(r) PROVE AloneInv'
    <2> SUFFICES ASSUME ~torn' PROVE OneReader' /\ ClosesAlone' /\ HasClient' /\ ReadsClient' /\ EmptyAtFirst'
      BY DEF AloneInv
    <2>0. ReadAccept(r) /\ ~torn
      BY <1>3 DEF ReadAccept, AcceptBlock, Accepted, histVars
    <2>1. PICK l \in {"idle"} \cup ReadPc : Goto(r, l) /\ pc[r] # "idle"
      BY <2>0 DEF ReadAccept, AcceptBlock, Accepted, ReadPc
    <2>2. /\ pc'[r] = l
          /\ \A q \in Readers \ {r} : pc'[q] = pc[q]
          /\ \A u \in Control : pc'[u] = pc[u]
      BY <2>1, GotoReader DEF TypeOK
    <2>3. OneReader'
      BY <2>0, <2>1, <2>2 DEF AloneInv, OneReader, ClosesAlone
    <2>4. ClosesAlone'
      <3>1. \A u \in Control : pc[u] \notin CloseBody
        BY <2>0, <2>1 DEF AloneInv, ClosesAlone
      <3>2. \A u \in Control : pc'[u] \notin CloseBody
        BY <2>2, <3>1
      <3> QED
        BY <3>2 DEF ClosesAlone, CloseBody
    <2>5. HasClient'
      BY <2>0, NameAssumption, ThreadAssumption DEF ReadAccept, AcceptBlock, Accepted, AloneInv, OneReader, ClosesAlone, HasClient, ReadsClient, EmptyAtFirst, Goto, Connected, CloseBody, LockInv, FdInv, TypeOK, NodeType, KernelType, PcType, ReadType, HistoryType, nodeVars, kernVars, readVars, histVars, Plain, Threads, ReadPc, WritePc, OpenPc, ClosePc
    <2>6. ReadsClient'
      <3>1. \A q \in Readers : pc[q] # "idle" => q = r
        BY <2>0, <2>1 DEF AloneInv, OneReader
      <3>2. pc'[r] \in {"rd_scan", "idle"}
        BY <2>0 DEF ReadAccept, AcceptBlock, Goto, TypeOK, PcType, Threads
      <3> QED
        BY <2>2, <3>1, <3>2 DEF ReadsClient
    <2>7. EmptyAtFirst'
      BY <2>0, NameAssumption, ThreadAssumption DEF ReadAccept, AcceptBlock, Accepted, AloneInv, OneReader, ClosesAlone, HasClient, ReadsClient, EmptyAtFirst, Goto, Connected, CloseBody, LockInv, FdInv, TypeOK, NodeType, KernelType, PcType, ReadType, HistoryType, nodeVars, kernVars, readVars, histVars, Plain, Threads, ReadPc, WritePc, OpenPc, ClosePc
    <2> QED
      BY <2>3, <2>4, <2>5, <2>6, <2>7
  <1>4. ASSUME NEW r \in Readers, ReadScan(r) PROVE AloneInv'
    <2> SUFFICES ASSUME ~torn' PROVE OneReader' /\ ClosesAlone' /\ HasClient' /\ ReadsClient' /\ EmptyAtFirst'
      BY DEF AloneInv
    <2>0. ReadScan(r) /\ ~torn
      BY <1>4 DEF ReadScan, histVars
    <2>1. PICK l \in {"idle"} \cup ReadPc : Goto(r, l) /\ pc[r] # "idle"
      BY <2>0 DEF ReadScan, ReadPc
    <2>2. /\ pc'[r] = l
          /\ \A q \in Readers \ {r} : pc'[q] = pc[q]
          /\ \A u \in Control : pc'[u] = pc[u]
      BY <2>1, GotoReader DEF TypeOK
    <2>3. OneReader'
      BY <2>0, <2>1, <2>2 DEF AloneInv, OneReader, ClosesAlone
    <2>4. ClosesAlone'
      <3>1. \A u \in Control : pc[u] \notin CloseBody
        BY <2>0, <2>1 DEF AloneInv, ClosesAlone
      <3>2. \A u \in Control : pc'[u] \notin CloseBody
        BY <2>2, <3>1
      <3> QED
        BY <3>2 DEF ClosesAlone, CloseBody
    <2>5. UNCHANGED <<client_fd, fdtab, cfd, src, rcvd, read_buf>>
      BY <2>0 DEF ReadScan, nodeVars, kernVars, histVars
    <2>6. pc[r] = "rd_scan" /\ pc'[r] \in {"rd_take", "rd_copy"}
      BY <2>0 DEF ReadScan, Goto, TypeOK, PcType, Threads
    <2>7. HasClient' /\ ReadsClient'
      BY <2>0, <2>2, <2>5, <2>6 DEF AloneInv, HasClient, ReadsClient, Connected
    <2>8. EmptyAtFirst'
      BY <2>0, <2>2, <2>5 DEF AloneInv, EmptyAtFirst
    <2> QED
      BY <2>3, <2>4, <2>7, <2>8
  <1>5. ASSUME NEW r \in Readers, ReadTake(r) PROVE AloneInv'
    <2> SUFFICES ASSUME ~torn' PROVE OneReader' /\ ClosesAlone' /\ HasClient' /\ ReadsClient' /\ EmptyAtFirst'
      BY DEF AloneInv
    <2>0. ReadTake(r) /\ ~torn
      BY <1>5 DEF ReadTake, Return, histVars
    <2>1. Goto(r, "idle") /\ pc[r] = "rd_take"
      BY <2>0 DEF ReadTake, Return
    <2>2. /\ pc'[r] = "idle"
          /\ \A q \in Readers \ {r} : pc'[q] = pc[q]
          /\ \A u \in Control : pc'[u] = pc[u]
      BY <2>1, GotoReader DEF TypeOK
    <2>3. \A q \in Readers : pc'[q] = "idle"
      BY <2>0, <2>1, <2>2 DEF AloneInv, OneReader
    <2>4. OneReader' /\ ClosesAlone' /\ HasClient' /\ ReadsClient'
      BY <2>3 DEF OneReader, ClosesAlone, HasClient, ReadsClient, Connected
    <2>5. client_fd # NoFd /\ client_fd' = client_fd
      BY <2>0, <2>1 DEF ReadTake, nodeVars, AloneInv, HasClient, Connected
    <2>6. EmptyAtFirst'
      BY <2>5 DEF EmptyAtFirst
    <2> QED
      BY <2>4, <2>6
  <1>6. ASSUME NEW r \in Readers, ReadCopy(r) PROVE AloneInv'
    <2> SUFFICES ASSUME ~torn' PROVE OneReader' /\ ClosesAlone' /\ HasClient' /\ ReadsClient' /\ EmptyAtFirst'
      BY DEF AloneInv
    <2>0. ReadCopy(r) /\ ~torn
      BY <1>6 DEF ReadCopy, Return, histVars
    <2>1. PICK l \in {"idle"} \cup ReadPc : Goto(r, l) /\ pc[r] # "idle"
      BY <2>0 DEF ReadCopy, Return, ReadPc
    <2>2. /\ pc'[r] = l
          /\ \A q \in Readers \ {r} : pc'[q] = pc[q]
          /\ \A u \in Control : pc'[u] = pc[u]
      BY <2>1, GotoReader DEF TypeOK
    <2>3. OneReader'
      BY <2>0, <2>1, <2>2 DEF AloneInv, OneReader, ClosesAlone
    <2>4. ClosesAlone'
      <3>1. \A u \in Control : pc[u] \notin CloseBody
        BY <2>0, <2>1 DEF AloneInv, ClosesAlone
      <3>2. \A u \in Control : pc'[u] \notin CloseBody
        BY <2>2, <3>1
      <3> QED
        BY <3>2 DEF ClosesAlone, CloseBody
    <2>5. HasClient'
      BY <2>0, NameAssumption, ThreadAssumption DEF ReadCopy, Return, AloneInv, OneReader, ClosesAlone, HasClient, ReadsClient, EmptyAtFirst, Goto, Connected, CloseBody, LockInv, FdInv, TypeOK, NodeType, KernelType, PcType, ReadType, HistoryType, nodeVars, kernVars, readVars, histVars, Plain, Threads, ReadPc, WritePc, OpenPc, ClosePc
    <2>6. ReadsClient'
      <3>1. \A q \in Readers : pc[q] # "idle" => q = r
        BY <2>0, <2>1 DEF AloneInv, OneReader
      <3>2. UNCHANGED <<client_fd, fdtab>>
        BY <2>0 DEF ReadCopy, nodeVars, kernVars
      <3>3. pc'[r] = "rd_call" => cfd'[r] = client_fd
        BY <2>0 DEF ReadCopy, Return, Goto, TypeOK, PcType, ReadType, Threads
      <3>4. pc'[r] = "rd_wait" => src'[r] = fdtab[client_fd]
        BY <2>0 DEF ReadCopy, Return, Goto, TypeOK, PcType, ReadType, Threads, AloneInv, ReadsClient
      <3>5. \A q \in Readers \ {r} : pc'[q] = "idle"
        BY <2>2, <3>1
      <3> QED
        BY <3>2, <3>3, <3>4, <3>5 DEF ReadsClient
    <2>7. EmptyAtFirst'
      BY <2>0, NameAssumption, ThreadAssumption DEF ReadCopy, Return, AloneInv, OneReader, ClosesAlone, HasClient, ReadsClient, EmptyAtFirst, Goto, Connected, CloseBody, LockInv, FdInv, TypeOK, NodeType, KernelType, PcType, ReadType, HistoryType, nodeVars, kernVars, readVars, histVars, Plain, Threads, ReadPc, WritePc, OpenPc, ClosePc
    <2> QED
      BY <2>3, <2>4, <2>5, <2>6, <2>7
  <1>7. ASSUME NEW r \in Readers, ReadCall(r) PROVE AloneInv'
    <2> SUFFICES ASSUME ~torn' PROVE OneReader' /\ ClosesAlone' /\ HasClient' /\ ReadsClient' /\ EmptyAtFirst'
      BY DEF AloneInv
    <2>0. ReadCall(r) /\ ~torn
      BY <1>7 DEF ReadCall, histVars
    <2>1. PICK l \in {"idle"} \cup ReadPc : Goto(r, l) /\ pc[r] # "idle"
      BY <2>0 DEF ReadCall, ReadPc
    <2>2. /\ pc'[r] = l
          /\ \A q \in Readers \ {r} : pc'[q] = pc[q]
          /\ \A u \in Control : pc'[u] = pc[u]
      BY <2>1, GotoReader DEF TypeOK
    <2>3. OneReader'
      BY <2>0, <2>1, <2>2 DEF AloneInv, OneReader, ClosesAlone
    <2>4. ClosesAlone'
      <3>1. \A u \in Control : pc[u] \notin CloseBody
        BY <2>0, <2>1 DEF AloneInv, ClosesAlone
      <3>2. \A u \in Control : pc'[u] \notin CloseBody
        BY <2>2, <3>1
      <3> QED
        BY <3>2 DEF ClosesAlone, CloseBody
    <2>5. HasClient'
      BY <2>0, NameAssumption, ThreadAssumption DEF ReadCall, AloneInv, OneReader, ClosesAlone, HasClient, ReadsClient, EmptyAtFirst, Goto, Connected, CloseBody, LockInv, FdInv, TypeOK, NodeType, KernelType, PcType, ReadType, HistoryType, nodeVars, kernVars, readVars, histVars, Plain, Threads, ReadPc, WritePc, OpenPc, ClosePc
    <2>6. ReadsClient'
      <3>1. \A q \in Readers : pc[q] # "idle" => q = r
        BY <2>0, <2>1 DEF AloneInv, OneReader
      <3>2. UNCHANGED <<client_fd, fdtab>>
        BY <2>0 DEF ReadCall, nodeVars, kernVars
      <3>3. pc'[r] = "rd_call" => cfd'[r] = client_fd
        BY <2>0 DEF ReadCall, Goto, TypeOK, PcType, ReadType, Threads
      <3>4. pc'[r] = "rd_wait" => src'[r] = fdtab[client_fd]
        BY <2>0 DEF ReadCall, Goto, TypeOK, PcType, ReadType, Threads, AloneInv, ReadsClient
      <3>5. \A q \in Readers \ {r} : pc'[q] = "idle"
        BY <2>2, <3>1
      <3> QED
        BY <3>2, <3>3, <3>4, <3>5 DEF ReadsClient
    <2>7. EmptyAtFirst'
      BY <2>0, NameAssumption, ThreadAssumption DEF ReadCall, AloneInv, OneReader, ClosesAlone, HasClient, ReadsClient, EmptyAtFirst, Goto, Connected, CloseBody, LockInv, FdInv, TypeOK, NodeType, KernelType, PcType, ReadType, HistoryType, nodeVars, kernVars, readVars, histVars, Plain, Threads, ReadPc, WritePc, OpenPc, ClosePc
    <2> QED
      BY <2>3, <2>4, <2>5, <2>6, <2>7
  <1>8. ASSUME NEW r \in Readers, ReadData(r) PROVE AloneInv'
    BY <1>8, NameAssumption, ThreadAssumption DEF ReadData, AloneInv, OneReader, ClosesAlone, HasClient, ReadsClient, EmptyAtFirst, Goto, Connected, CloseBody, LockInv, FdInv, TypeOK, NodeType, KernelType, PcType, ReadType, HistoryType, nodeVars, kernVars, readVars, histVars, Plain, Threads, ReadPc, WritePc, OpenPc, ClosePc
  <1>9. ASSUME NEW r \in Readers, ReadNothing(r) PROVE AloneInv'
    BY <1>9, NameAssumption, ThreadAssumption DEF ReadNothing, AloneInv, OneReader, ClosesAlone, HasClient, ReadsClient, EmptyAtFirst, Goto, Connected, CloseBody, LockInv, FdInv, TypeOK, NodeType, KernelType, PcType, ReadType, HistoryType, nodeVars, kernVars, readVars, histVars, Plain, Threads, ReadPc, WritePc, OpenPc, ClosePc
  <1>10. ASSUME NEW r \in Readers, ReadAppend(r) PROVE AloneInv'
    BY <1>10, NameAssumption, ThreadAssumption DEF ReadAppend, AloneInv, OneReader, ClosesAlone, HasClient, ReadsClient, EmptyAtFirst, Goto, Connected, CloseBody, LockInv, FdInv, TypeOK, NodeType, KernelType, PcType, ReadType, HistoryType, nodeVars, kernVars, readVars, histVars, Plain, Threads, ReadPc, WritePc, OpenPc, ClosePc
  <1>11. ASSUME NEW r \in Readers, ReadEof(r) PROVE AloneInv'
    <2> SUFFICES ASSUME ~torn' PROVE OneReader' /\ ClosesAlone' /\ HasClient' /\ ReadsClient' /\ EmptyAtFirst'
      BY DEF AloneInv
    <2>0. ReadEof(r) /\ ~torn
      BY <1>11 DEF ReadEof, Return, histVars
    <2>1. Goto(r, "idle") /\ pc[r] = "rd_eof"
      BY <2>0 DEF ReadEof, Return
    <2>2. /\ pc'[r] = "idle"
          /\ \A q \in Readers \ {r} : pc'[q] = pc[q]
          /\ \A u \in Control : pc'[u] = pc[u]
      BY <2>1, GotoReader DEF TypeOK
    <2>3. \A q \in Readers : pc'[q] = "idle"
      BY <2>0, <2>1, <2>2 DEF AloneInv, OneReader
    <2>4. OneReader' /\ ClosesAlone' /\ HasClient' /\ ReadsClient'
      BY <2>3 DEF OneReader, ClosesAlone, HasClient, ReadsClient, Connected
    <2>5. client_fd # NoFd /\ client_fd' = client_fd
      BY <2>0, <2>1 DEF ReadEof, nodeVars, AloneInv, HasClient, Connected
    <2>6. EmptyAtFirst'
      BY <2>5 DEF EmptyAtFirst
    <2> QED
      BY <2>4, <2>6
  <1>12. ASSUME NEW w \in Writers, WriteBegin(w) PROVE AloneInv'
    BY <1>12, NameAssumption, ThreadAssumption DEF WriteBegin, AloneInv, OneReader, ClosesAlone, HasClient, ReadsClient, EmptyAtFirst, Goto, Connected, CloseBody, LockInv, FdInv, TypeOK, NodeType, KernelType, PcType, ReadType, HistoryType, nodeVars, kernVars, readVars, histVars, Plain, Threads, ReadPc, WritePc, OpenPc, ClosePc
  <1>13. ASSUME NEW w \in Writers, WriteLock(w) PROVE AloneInv'
    <2>0. WriteLock(w)
      BY <1>13
    <2>1. PICK l \in {"idle"} \cup WritePc : Goto(w, l) /\ pc[w] \notin CloseBody /\ l \notin CloseBody
      BY <2>0 DEF WriteLock, WritePc, CloseBody
    <2>3. /\ \A q \in Readers : pc'[q] = pc[q]
          /\ \A u \in Control : pc'[u] \in CloseBody => pc[u] \in CloseBody
          /\ (\A u \in Control : pc'[u] # "cl_buf") => \A u \in Control : pc[u] # "cl_buf"
      BY <2>1, GotoWriter DEF TypeOK, CloseBody
    <2>4. UNCHANGED <<rcvd, read_buf, torn, cfd, src>>
      BY <2>0 DEF WriteLock, nodeVars, readVars, histVars
    <2>5. /\ client_fd' = client_fd
          /\ client_fd # NoFd => fdtab'[client_fd] = fdtab[client_fd]
      BY <2>0, NameAssumption DEF WriteLock, FdInv, TypeOK, NodeType, KernelType, nodeVars, kernVars, Plain
    <2>6. \A q \in Readers : pc[q] = "rd_wait" => pc[q] \in Connected
      BY DEF Connected
    <2> QED
      BY <2>3, <2>4, <2>5, <2>6 DEF AloneInv, OneReader, ClosesAlone, HasClient, ReadsClient, EmptyAtFirst
  <1>14. ASSUME NEW w \in Writers, WriteAccept(w) PROVE AloneInv'
    <2>0. WriteAccept(w)
      BY <1>14
    <2>1. PICK l \in {"idle"} \cup WritePc : Goto(w, l) /\ pc[w] \notin CloseBody /\ l \notin CloseBody
      BY <2>0 DEF WriteAccept, AcceptBlock, Accepted, WritePc, CloseBody
    <2>3. /\ \A q \in Readers : pc'[q] = pc[q]
          /\ \A u \in Control : pc'[u] \in CloseBody => pc[u] \in CloseBody
          /\ (\A u \in Control : pc'[u] # "cl_buf") => \A u \in Control : pc[u] # "cl_buf"
      BY <2>1, GotoWriter DEF TypeOK, CloseBody
    <2>4. UNCHANGED <<rcvd, read_buf, torn, cfd, src>>
      BY <2>0 DEF WriteAccept, AcceptBlock, nodeVars, readVars, histVars
    <2>5. CASE UNCHANGED <<client_fd, fdtab, backlog>>
      BY <2>3, <2>4, <2>5 DEF AloneInv, OneReader, ClosesAlone, HasClient, ReadsClient, EmptyAtFirst
    <2>6. CASE Accepted /\ client_fd = NoFd
      <3>1. ~torn => \A q \in Readers : pc[q] \notin Connected
        BY <2>6 DEF AloneInv, HasClient
      <3>2. client_fd' # NoFd
        BY <2>6, NameAssumption DEF Accepted
      <3> QED
        BY <2>3, <2>4, <3>1, <3>2 DEF AloneInv, OneReader, ClosesAlone, HasClient, ReadsClient, EmptyAtFirst, Connected
    <2> QED
      BY <2>0, <2>5, <2>6 DEF WriteAccept, AcceptBlock
  <1>15. ASSUME NEW w \in Writers, WriteSome(w) PROVE AloneInv'
    <2>0. WriteSome(w)
      BY <1>15
    <2>1. PICK l \in {"idle"} \cup WritePc : Goto(w, l) /\ pc[w] \notin CloseBody /\ l \notin CloseBody
      BY <2>0 DEF WriteSome, WritePc, CloseBody
    <2>3. /\ \A q \in Readers : pc'[q] = pc[q]
          /\ \A u \in Control : pc'[u] \in CloseBody => pc[u] \in CloseBody
          /\ (\A u \in Control : pc'[u] # "cl_buf") => \A u \in Control : pc[u] # "cl_buf"
      BY <2>1, GotoWriter DEF TypeOK, CloseBody
    <2>4. UNCHANGED <<rcvd, read_buf, torn, cfd, src>>
      BY <2>0 DEF WriteSome, nodeVars, readVars, histVars
    <2>5. /\ client_fd' = client_fd
          /\ client_fd # NoFd => fdtab'[client_fd] = fdtab[client_fd]
      BY <2>0, NameAssumption DEF WriteSome, FdInv, TypeOK, NodeType, KernelType, nodeVars, kernVars, Plain
    <2>6. \A q \in Readers : pc[q] = "rd_wait" => pc[q] \in Connected
      BY DEF Connected
    <2> QED
      BY <2>3, <2>4, <2>5, <2>6 DEF AloneInv, OneReader, ClosesAlone, HasClient, ReadsClient, EmptyAtFirst
  <1>16. ASSUME NEW w \in Writers, WriteFail(w) PROVE AloneInv'
    BY <1>16, NameAssumption, ThreadAssumption DEF WriteFail, AloneInv, OneReader, ClosesAlone, HasClient, ReadsClient, EmptyAtFirst, Goto, Connected, CloseBody, LockInv, FdInv, TypeOK, NodeType, KernelType, PcType, ReadType, HistoryType, nodeVars, kernVars, readVars, histVars, Plain, Threads, ReadPc, WritePc, OpenPc, ClosePc
  <1>17. ASSUME NEW t \in Control, OpenBegin(t) PROVE AloneInv'
    BY <1>17, NameAssumption, ThreadAssumption DEF OpenBegin, AloneInv, OneReader, ClosesAlone, HasClient, ReadsClient, EmptyAtFirst, Goto, Connected, CloseBody, LockInv, FdInv, TypeOK, NodeType, KernelType, PcType, ReadType, HistoryType, nodeVars, kernVars, readVars, histVars, Plain, Threads, ReadPc, WritePc, OpenPc, ClosePc
  <1>18. ASSUME NEW t \in Control, OpenSocket(t) PROVE AloneInv'
    <2>0. OpenSocket(t)
      BY <1>18
    <2>1. PICK l \in {"idle"} \cup OpenPc \cup ClosePc : Goto(t, l) /\ pc[t] \notin CloseBody /\ l \notin CloseBody
      BY <2>0 DEF OpenSocket, ClaimPath, OpenPc, ClosePc, CloseBody
    <2>3. /\ \A q \in Readers : pc'[q] = pc[q]
          /\ \A u \in Control : pc'[u] \in CloseBody => pc[u] \in CloseBody
          /\ (\A u \in Control : pc'[u] # "cl_buf") => \A u \in Control : pc[u] # "cl_buf"
      BY <2>1, GotoControl DEF TypeOK, CloseBody
    <2>4. UNCHANGED <<rcvd, read_buf, torn, cfd, src>>
      BY <2>0 DEF OpenSocket, nodeVars, readVars, histVars
    <2>5. /\ client_fd' = client_fd
          /\ client_fd # NoFd => fdtab'[client_fd] = fdtab[client_fd]
      BY <2>0, NameAssumption DEF OpenSocket, ClaimPath, FdInv, TypeOK, NodeType, KernelType, nodeVars, kernVars, Plain
    <2>6. \A q \in Readers : pc[q] = "rd_wait" => pc[q] \in Connected
      BY DEF Connected
    <2> QED
      BY <2>3, <2>4, <2>5, <2>6 DEF AloneInv, OneReader, ClosesAlone, HasClient, ReadsClient, EmptyAtFirst
  <1>19. ASSUME NEW t \in Control, OpenBind(t) PROVE AloneInv'
    <2>0. OpenBind(t)
      BY <1>19
    <2>1. PICK l \in {"idle"} \cup OpenPc \cup ClosePc : Goto(t, l) /\ pc[t] \notin CloseBody /\ l \notin CloseBody
      BY <2>0 DEF OpenBind, OpenFail, IsSocket, CloseFds, OpenPc, ClosePc, CloseBody
    <2>3. /\ \A q \in Readers : pc'[q] = pc[q]
          /\ \A u \in Control : pc'[u] \in CloseBody => pc[u] \in CloseBody
          /\ (\A u \in Control : pc'[u] # "cl_buf") => \A u \in Control : pc[u] # "cl_buf"
      BY <2>1, GotoControl DEF TypeOK, CloseBody
    <2>4. UNCHANGED <<rcvd, read_buf, torn, cfd, src>>
      BY <2>0 DEF OpenBind, nodeVars, readVars, histVars
    <2>5. /\ client_fd' = client_fd
          /\ client_fd # NoFd => fdtab'[client_fd] = fdtab[client_fd]
      BY <2>0, NameAssumption DEF OpenBind, OpenFail, IsSocket, CloseFds, FdInv, TypeOK, NodeType, KernelType, nodeVars, kernVars, Plain
    <2>6. \A q \in Readers : pc[q] = "rd_wait" => pc[q] \in Connected
      BY DEF Connected
    <2> QED
      BY <2>3, <2>4, <2>5, <2>6 DEF AloneInv, OneReader, ClosesAlone, HasClient, ReadsClient, EmptyAtFirst
  <1>20. ASSUME NEW t \in Control, OpenListen(t) PROVE AloneInv'
    <2>0. OpenListen(t)
      BY <1>20
    <2>1. PICK l \in {"idle"} \cup OpenPc \cup ClosePc : Goto(t, l) /\ pc[t] \notin CloseBody /\ l \notin CloseBody
      BY <2>0 DEF OpenListen, OpenFail, IsSocket, CloseFds, OpenPc, ClosePc, CloseBody
    <2>3. /\ \A q \in Readers : pc'[q] = pc[q]
          /\ \A u \in Control : pc'[u] \in CloseBody => pc[u] \in CloseBody
          /\ (\A u \in Control : pc'[u] # "cl_buf") => \A u \in Control : pc[u] # "cl_buf"
      BY <2>1, GotoControl DEF TypeOK, CloseBody
    <2>4. UNCHANGED <<rcvd, read_buf, torn, cfd, src>>
      BY <2>0 DEF OpenListen, nodeVars, readVars, histVars
    <2>5. /\ client_fd' = client_fd
          /\ client_fd # NoFd => fdtab'[client_fd] = fdtab[client_fd]
      BY <2>0, NameAssumption DEF OpenListen, OpenFail, IsSocket, CloseFds, FdInv, TypeOK, NodeType, KernelType, nodeVars, kernVars, Plain
    <2>6. \A q \in Readers : pc[q] = "rd_wait" => pc[q] \in Connected
      BY DEF Connected
    <2> QED
      BY <2>3, <2>4, <2>5, <2>6 DEF AloneInv, OneReader, ClosesAlone, HasClient, ReadsClient, EmptyAtFirst
  <1>21. ASSUME NEW t \in Control, CloseBegin(t) PROVE AloneInv'
    BY <1>21, NameAssumption, ThreadAssumption DEF CloseBegin, AloneInv, OneReader, ClosesAlone, HasClient, ReadsClient, EmptyAtFirst, Goto, Connected, CloseBody, LockInv, FdInv, TypeOK, NodeType, KernelType, PcType, ReadType, HistoryType, nodeVars, kernVars, readVars, histVars, Plain, Threads, ReadPc, WritePc, OpenPc, ClosePc
  <1>22. ASSUME NEW t \in Control, CloseLock(t) PROVE AloneInv'
    BY <1>22, NameAssumption, ThreadAssumption DEF CloseLock, AloneInv, OneReader, ClosesAlone, HasClient, ReadsClient, EmptyAtFirst, Goto, Connected, CloseBody, LockInv, FdInv, TypeOK, NodeType, KernelType, PcType, ReadType, HistoryType, nodeVars, kernVars, readVars, histVars, Plain, Threads, ReadPc, WritePc, OpenPc, ClosePc
  <1>23. ASSUME NEW t \in Control, CloseDescriptors(t) PROVE AloneInv'
    BY <1>23, NameAssumption, ThreadAssumption DEF CloseDescriptors, CloseFds, AloneInv, OneReader, ClosesAlone, HasClient, ReadsClient, EmptyAtFirst, Goto, Connected, CloseBody, LockInv, FdInv, TypeOK, NodeType, KernelType, PcType, ReadType, HistoryType, nodeVars, kernVars, readVars, histVars, Plain, Threads, ReadPc, WritePc, OpenPc, ClosePc
  <1>24. ASSUME NEW t \in Control, CloseFinish(t) PROVE AloneInv'
    BY <1>24, NameAssumption, ThreadAssumption DEF CloseFinish, AloneInv, OneReader, ClosesAlone, HasClient, ReadsClient, EmptyAtFirst, Goto, Connected, CloseBody, LockInv, FdInv, TypeOK, NodeType, KernelType, PcType, ReadType, HistoryType, nodeVars, kernVars, readVars, histVars, Plain, Threads, ReadPc, WritePc, OpenPc, ClosePc
  <1>25. ASSUME NEW c \in Conns, ClientConnect(c) PROVE AloneInv'
    BY <1>25, NameAssumption, ThreadAssumption DEF ClientConnect, AloneInv, OneReader, ClosesAlone, HasClient, ReadsClient, EmptyAtFirst, Goto, Connected, CloseBody, LockInv, FdInv, TypeOK, NodeType, KernelType, PcType, ReadType, HistoryType, nodeVars, kernVars, readVars, histVars, Plain, Threads, ReadPc, WritePc, OpenPc, ClosePc
  <1>26. ASSUME NEW c \in Conns, ClientSend(c) PROVE AloneInv'
    BY <1>26, NameAssumption, ThreadAssumption DEF ClientSend, AloneInv, OneReader, ClosesAlone, HasClient, ReadsClient, EmptyAtFirst, Goto, Connected, CloseBody, LockInv, FdInv, TypeOK, NodeType, KernelType, PcType, ReadType, HistoryType, nodeVars, kernVars, readVars, histVars, Plain, Threads, ReadPc, WritePc, OpenPc, ClosePc
  <1>27. ASSUME NEW c \in Conns, ClientHangup(c) PROVE AloneInv'
    BY <1>27, NameAssumption, ThreadAssumption DEF ClientHangup, AloneInv, OneReader, ClosesAlone, HasClient, ReadsClient, EmptyAtFirst, Goto, Connected, CloseBody, LockInv, FdInv, TypeOK, NodeType, KernelType, PcType, ReadType, HistoryType, nodeVars, kernVars, readVars, histVars, Plain, Threads, ReadPc, WritePc, OpenPc, ClosePc
  <1>28. ASSUME NEW w \in Writers, WriteKilled(w) PROVE AloneInv'
    BY <1>28, NameAssumption, ThreadAssumption DEF WriteKilled, AloneInv, OneReader, ClosesAlone, HasClient, ReadsClient, EmptyAtFirst, Goto, Connected, CloseBody, LockInv, FdInv, TypeOK, NodeType, KernelType, PcType, ReadType, HistoryType, nodeVars, kernVars, readVars, histVars, Plain, Threads, ReadPc, WritePc, OpenPc, ClosePc
  <1> QED
    BY <1>1, <1>2, <1>3, <1>4, <1>5, <1>6, <1>7, <1>8, <1>9, <1>10, <1>11, <1>12, <1>13, <1>14, <1>15, <1>16, <1>17, <1>18, <1>19, <1>20, <1>21, <1>22, <1>23, <1>24, <1>25, <1>26, <1>27, <1>28
    DEF Next, ReaderStep, WriterStep, OpenStep, CloseStep

\* A close body that has dropped the descriptors keeps the lock until it ends.
ClosedInv == \A t \in Control : pc[t] = "cl_buf" => client_fd = NoFd

\* A step that moves no byte and no reader in or out of "rd_append", and that
\* connects the node to no other client, conserves what was conserved.
LEMMA FlowFrame ==
    ASSUME ByteConservation, torn => torn', Current' \subseteq Current,
           UNCHANGED <<rcvd, read_buf, chunk, inq, sent>>,
           \A q \in Readers : pc'[q] = "rd_append" <=> pc[q] = "rd_append"
    PROVE  ByteConservation'
  BY DEF ByteConservation

\* Nothing is conserved, and nothing need be, while there is no client.
LEMMA FlowNobody ==
    ASSUME client_fd' = NoFd
    PROVE  ByteConservation'
  BY DEF ByteConservation, Current

\* Concatenation of byte sequences is associative.
LEMMA ConcatBytes ==
    ASSUME NEW s \in Seq(Byte), NEW t \in Seq(Byte), NEW u \in Seq(Byte)
    PROVE  (s \o t) \o u = s \o (t \o u)
  BY ConcatAssociative

\* substr() and erase() at the same place cut a string in two: nothing is
\* lost and nothing is there twice, also when the place is past the end.
LEMMA CutRestores ==
    ASSUME NEW S, NEW s \in Seq(S), NEW k \in Nat
    PROVE  Prefix(s, k) \o Suffix(s, k) = s
  <1>1. CASE k <= Len(s)
    <2>1. SubSeq(s, 1, k) \o SubSeq(s, k + 1, Len(s)) = SubSeq(s, 1, Len(s))
      <3>1. /\ Len(s) \in Nat
            /\ 1 \in 1..(Len(s) + 1)
            /\ k \in (1 - 1)..Len(s)
            /\ Len(s) \in k..Len(s)
        BY <1>1
      <3> QED
        BY <3>1, ConcatAdjacentSubSeq
    <2> QED
      BY <1>1, <2>1, SubSeqFull DEF Prefix, Suffix
  <1>2. CASE ~(k <= Len(s))
    <2>1. SubSeq(s, k + 1, Len(s)) = <<>>
      BY <1>2, SubSeqEmpty
    <2> QED
      BY <1>2, <2>1, SubSeqFull, ConcatEmptySeq DEF Prefix, Suffix
  <1> QED
    BY <1>1, <1>2

\* Only the thread with the lock connects the node.
LEMMA ClosedStep ==
    ASSUME TypeOK, LockInv, ClosedInv, Next
    PROVE  ClosedInv'
  <1>1. ASSUME NEW r \in Readers, ReadBegin(r) PROVE ClosedInv'
    BY <1>1, ThreadAssumption DEF ReadBegin, ClosedInv, Goto, LockInv, TypeOK, PcType, Threads, nodeVars
  <1>2. ASSUME NEW r \in Readers, ReadLock(r) PROVE ClosedInv'
    BY <1>2, ThreadAssumption DEF ReadLock, ClosedInv, Goto, LockInv, TypeOK, PcType, Threads, nodeVars
  <1>3. ASSUME NEW r \in Readers, ReadAccept(r) PROVE ClosedInv'
    BY <1>3, ThreadAssumption DEF ReadAccept, AcceptBlock, Accepted, ClosedInv, Goto, LockInv, TypeOK, PcType, Threads, nodeVars
  <1>4. ASSUME NEW r \in Readers, ReadScan(r) PROVE ClosedInv'
    BY <1>4, ThreadAssumption DEF ReadScan, ClosedInv, Goto, LockInv, TypeOK, PcType, Threads, nodeVars
  <1>5. ASSUME NEW r \in Readers, ReadTake(r) PROVE ClosedInv'
    BY <1>5, ThreadAssumption DEF ReadTake, Return, ClosedInv, Goto, LockInv, TypeOK, PcType, Threads, nodeVars
  <1>6. ASSUME NEW r \in Readers, ReadCopy(r) PROVE ClosedInv'
    BY <1>6, ThreadAssumption DEF ReadCopy, Return, ClosedInv, Goto, LockInv, TypeOK, PcType, Threads, nodeVars
  <1>7. ASSUME NEW r \in Readers, ReadCall(r) PROVE ClosedInv'
    BY <1>7, ThreadAssumption DEF ReadCall, ClosedInv, Goto, LockInv, TypeOK, PcType, Threads, nodeVars
  <1>8. ASSUME NEW r \in Readers, ReadData(r) PROVE ClosedInv'
    BY <1>8, ThreadAssumption DEF ReadData, ClosedInv, Goto, LockInv, TypeOK, PcType, Threads, nodeVars
  <1>9. ASSUME NEW r \in Readers, ReadNothing(r) PROVE ClosedInv'
    BY <1>9, ThreadAssumption DEF ReadNothing, ClosedInv, Goto, LockInv, TypeOK, PcType, Threads, nodeVars
  <1>10. ASSUME NEW r \in Readers, ReadAppend(r) PROVE ClosedInv'
    BY <1>10, ThreadAssumption DEF ReadAppend, ClosedInv, Goto, LockInv, TypeOK, PcType, Threads, nodeVars
  <1>11. ASSUME NEW r \in Readers, ReadEof(r) PROVE ClosedInv'
    BY <1>11, ThreadAssumption DEF ReadEof, Return, ClosedInv, Goto, LockInv, TypeOK, PcType, Threads, nodeVars
  <1>12. ASSUME NEW w \in Writers, WriteBegin(w) PROVE ClosedInv'
    BY <1>12, ThreadAssumption DEF WriteBegin, ClosedInv, Goto, LockInv, TypeOK, PcType, Threads, nodeVars
  <1>13. ASSUME NEW w \in Writers, WriteLock(w) PROVE ClosedInv'
    BY <1>13, ThreadAssumption DEF WriteLock, ClosedInv, Goto, LockInv, TypeOK, PcType, Threads, nodeVars
  <1>14. ASSUME NEW w \in Writers, WriteAccept(w) PROVE ClosedInv'
    BY <1>14, ThreadAssumption DEF WriteAccept, AcceptBlock, Accepted, ClosedInv, Goto, LockInv, TypeOK, PcType, Threads, nodeVars
  <1>15. ASSUME NEW w \in Writers, WriteSome(w) PROVE ClosedInv'
    BY <1>15, ThreadAssumption DEF WriteSome, ClosedInv, Goto, LockInv, TypeOK, PcType, Threads, nodeVars
  <1>16. ASSUME NEW w \in Writers, WriteFail(w) PROVE ClosedInv'
    BY <1>16, ThreadAssumption DEF WriteFail, ClosedInv, Goto, LockInv, TypeOK, PcType, Threads, nodeVars
  <1>17. ASSUME NEW t \in Control, OpenBegin(t) PROVE ClosedInv'
    BY <1>17, ThreadAssumption DEF OpenBegin, ClosedInv, Goto, LockInv, TypeOK, PcType, Threads, nodeVars
  <1>18. ASSUME NEW t \in Control, OpenSocket(t) PROVE ClosedInv'
    BY <1>18, ThreadAssumption DEF OpenSocket, ClaimPath, ClosedInv, Goto, LockInv, TypeOK, PcType, Threads, nodeVars
  <1>19. ASSUME NEW t \in Control, OpenBind(t) PROVE ClosedInv'
    BY <1>19, ThreadAssumption DEF OpenBind, OpenFail, IsSocket, CloseFds, ClosedInv, Goto, LockInv, TypeOK, PcType, Threads, nodeVars
  <1>20. ASSUME NEW t \in Control, OpenListen(t) PROVE ClosedInv'
    BY <1>20, ThreadAssumption DEF OpenListen, OpenFail, IsSocket, CloseFds, ClosedInv, Goto, LockInv, TypeOK, PcType, Threads, nodeVars
  <1>21. ASSUME NEW t \in Control, CloseBegin(t) PROVE ClosedInv'
    BY <1>21, ThreadAssumption DEF CloseBegin, ClosedInv, Goto, LockInv, TypeOK, PcType, Threads, nodeVars
  <1>22. ASSUME NEW t \in Control, CloseLock(t) PROVE ClosedInv'
    BY <1>22, ThreadAssumption DEF CloseLock, ClosedInv, Goto, LockInv, TypeOK, PcType, Threads, nodeVars
  <1>23. ASSUME NEW t \in Control, CloseDescriptors(t) PROVE ClosedInv'
    BY <1>23, ThreadAssumption DEF CloseDescriptors, CloseFds, ClosedInv, Goto, LockInv, TypeOK, PcType, Threads, nodeVars
  <1>24. ASSUME NEW t \in Control, CloseFinish(t) PROVE ClosedInv'
    BY <1>24, ThreadAssumption DEF CloseFinish, ClosedInv, Goto, LockInv, TypeOK, PcType, Threads, nodeVars
  <1>25. ASSUME NEW c \in Conns, ClientConnect(c) PROVE ClosedInv'
    BY <1>25, ThreadAssumption DEF ClientConnect, ClosedInv, Goto, LockInv, TypeOK, PcType, Threads, nodeVars
  <1>26. ASSUME NEW c \in Conns, ClientSend(c) PROVE ClosedInv'
    BY <1>26, ThreadAssumption DEF ClientSend, ClosedInv, Goto, LockInv, TypeOK, PcType, Threads, nodeVars
  <1>27. ASSUME NEW c \in Conns, ClientHangup(c) PROVE ClosedInv'
    BY <1>27, ThreadAssumption DEF ClientHangup, ClosedInv, Goto, LockInv, TypeOK, PcType, Threads, nodeVars
  <1>28. ASSUME NEW w \in Writers, WriteKilled(w) PROVE ClosedInv'
    BY <1>28, ThreadAssumption DEF WriteKilled, ClosedInv, Goto, LockInv, TypeOK, PcType, Threads, nodeVars
  <1> QED
    BY <1>1, <1>2, <1>3, <1>4, <1>5, <1>6, <1>7, <1>8, <1>9, <1>10, <1>11, <1>12, <1>13, <1>14, <1>15, <1>16, <1>17, <1>18, <1>19, <1>20, <1>21, <1>22, <1>23, <1>24, <1>25, <1>26, <1>27, <1>28
    DEF Next, ReaderStep, WriterStep, OpenStep, CloseStep

\* Each step conserves the bytes of the current client.
LEMMA FlowStep ==
    ASSUME TypeOK, LockInv, FdInv, QueueInv, AloneInv, ClosedInv, ByteConservation, Next
    PROVE  ByteConservation'
  <1>1. ASSUME NEW r \in Readers, ReadBegin(r) PROVE ByteConservation'
    <2>0. PICK l \in ({"idle"} \cup ReadPc) \ {"rd_append"} : Goto(r, l) /\ pc[r] # "rd_append"
      BY <1>1 DEF ReadBegin, ReadPc
    <2>1. \A q \in Readers : pc'[q] = "rd_append" <=> pc[q] = "rd_append"
      BY <2>0, GotoReader DEF TypeOK
    <2>2. UNCHANGED <<rcvd, read_buf, chunk, inq, sent>> /\ (torn => torn')
      BY <1>1 DEF ReadBegin, nodeVars, kernVars, readVars, histVars
    <2>3. Current' \subseteq Current
      BY <1>1, NameAssumption DEF ReadBegin, Current, FdInv, TypeOK, NodeType, KernelType, nodeVars, kernVars, Plain
    <2> QED
      BY <2>1, <2>2, <2>3, FlowFrame
  <1>2. ASSUME NEW r \in Readers, ReadLock(r) PROVE ByteConservation'
    <2>0. PICK l \in ({"idle"} \cup ReadPc) \ {"rd_append"} : Goto(r, l) /\ pc[r] # "rd_append"
      BY <1>2 DEF ReadLock, ReadPc
    <2>1. \A q \in Readers : pc'[q] = "rd_append" <=> pc[q] = "rd_append"
      BY <2>0, GotoReader DEF TypeOK
    <2>2. UNCHANGED <<rcvd, read_buf, chunk, inq, sent>> /\ (torn => torn')
      BY <1>2 DEF ReadLock, nodeVars, kernVars, readVars, histVars
    <2>3. Current' \subseteq Current
      BY <1>2, NameAssumption DEF ReadLock, Current, FdInv, TypeOK, NodeType, KernelType, nodeVars, kernVars, Plain
    <2> QED
      BY <2>1, <2>2, <2>3, FlowFrame
  <1>3. ASSUME NEW r \in Readers, ReadAccept(r) PROVE ByteConservation'
    <2>0. ReadAccept(r)
      BY <1>3
    <2>1. PICK l \in ({"idle"} \cup ReadPc) \ {"rd_append"} : Goto(r, l) /\ pc[r] # "rd_append"
      BY <2>0 DEF ReadAccept, AcceptBlock, ReadPc
    <2>2. \A q \in Readers : pc'[q] = "rd_append" <=> pc[q] = "rd_append"
      BY <2>1, GotoReader DEF TypeOK
    <2>3. UNCHANGED <<rcvd, read_buf, chunk, inq, sent, torn>>
      BY <2>0 DEF ReadAccept, AcceptBlock, readVars, histVars
    <2>4. CASE UNCHANGED <<client_fd, fdtab, backlog>>
      <3>1. Current' \subseteq Current
        BY <2>4 DEF Current
      <3> QED
        BY <2>2, <2>3, <3>1, FlowFrame
    <2>5. CASE Accepted /\ client_fd = NoFd
      <3> SUFFICES ASSUME ~torn', NEW c \in Current'
                   PROVE  /\ \A q \in Readers : pc'[q] # "rd_append"
                          /\ rcvd' \o read_buf' \o inq'[c] = sent'[c]
        BY DEF ByteConservation
      <3>1. c = Head(backlog) /\ c \in Conns
        BY <2>5, NameAssumption DEF Accepted, Current, TypeOK, KernelType
      <3>2. inq[c] = sent[c] /\ inq[c] \in Seq(Byte)
        <4>1. Queued(c)
          BY <2>5, <3>1 DEF Accepted, Queued, TypeOK, KernelType
        <4> QED
          BY <3>1, <4>1 DEF QueueInv, FreshUnread, TypeOK, KernelType
      <3>3. \A u \in Control : pc[u] # "cl_buf"
        BY <2>0, ThreadAssumption DEF ReadAccept, LockInv, Threads, AcceptBlock
      <3>4. rcvd = <<>> /\ read_buf = <<>>
        BY <2>3, <2>5, <3>3 DEF AloneInv, EmptyAtFirst
      <3>5. \A q \in Readers : pc[q] # "rd_append"
        BY <2>3, <2>5 DEF AloneInv, HasClient, Connected
      <3>6. rcvd \o read_buf \o inq[c] = inq[c]
        BY <3>2, <3>4, ConcatEmptySeq
      <3> QED
        BY <2>2, <2>3, <3>2, <3>5, <3>6
    <2> QED
      BY <2>0, <2>4, <2>5 DEF ReadAccept, AcceptBlock
  <1>4. ASSUME NEW r \in Readers, ReadScan(r) PROVE ByteConservation'
    <2>0. PICK l \in ({"idle"} \cup ReadPc) \ {"rd_append"} : Goto(r, l) /\ pc[r] # "rd_append"
      BY <1>4 DEF ReadScan, ReadPc
    <2>1. \A q \in Readers : pc'[q] = "rd_append" <=> pc[q] = "rd_append"
      BY <2>0, GotoReader DEF TypeOK
    <2>2. UNCHANGED <<rcvd, read_buf, chunk, inq, sent>> /\ (torn => torn')
      BY <1>4 DEF ReadScan, nodeVars, kernVars, readVars, histVars
    <2>3. Current' \subseteq Current
      BY <1>4, NameAssumption DEF ReadScan, Current, FdInv, TypeOK, NodeType, KernelType, nodeVars, kernVars, Plain
    <2> QED
      BY <2>1, <2>2, <2>3, FlowFrame
  <1>5. ASSUME NEW r \in Readers, ReadTake(r) PROVE ByteConservation'
    <2> SUFFICES ASSUME ~torn', NEW c \in Current'
                 PROVE  /\ \A q \in Readers : pc'[q] = "rd_append"
                             => rcvd' \o read_buf' \o chunk'[q] \o inq'[c] = sent'[c]
                        /\ (\A q \in Readers : pc'[q] # "rd_append")
                             => rcvd' \o read_buf' \o inq'[c] = sent'[c]
      BY DEF ByteConservation
    <2>0. ReadTake(r) /\ ~torn
      BY <1>5 DEF ReadTake, Return, histVars
    <2>1. c \in Current /\ c \in Conns
      BY <2>0 DEF ReadTake, Return, Current, nodeVars, kernVars
    <2>2. /\ rcvd \in Seq(Byte) /\ read_buf \in Seq(Byte)
          /\ inq[c] \in Seq(Byte) /\ sent[c] \in Seq(Byte)
      BY <2>1 DEF TypeOK, NodeType, KernelType, HistoryType
    <2>3. \A q \in Readers \ {r} : pc[q] = "idle"
      BY <2>0 DEF ReadTake, Return, AloneInv, OneReader
    <2>4. \A q \in Readers \ {r} : pc'[q] = "idle"
      BY <2>0, <2>3 DEF ReadTake, Return, Goto, TypeOK, PcType, Threads
    <2>5. rcvd \o read_buf \o inq[c] = sent[c]
      BY <2>0, <2>1, <2>3 DEF ReadTake, ByteConservation
    <2>6. pc'[r] = "idle"
      BY <2>0 DEF ReadTake, Return, Goto, TypeOK, PcType, Threads
    <2>7. nl[r] \in Nat
      BY DEF TypeOK, ReadType
    <2> DEFINE p == Prefix(read_buf, nl[r])
               s == Suffix(read_buf, nl[r])
    <2>8. p \in Seq(Byte) /\ s \in Seq(Byte) /\ p \o s = read_buf
      BY <2>2, <2>7, PrefixType, CutRestores
    <2>9. rcvd' = rcvd \o p /\ read_buf' = s /\ inq' = inq /\ sent' = sent
      BY <2>0 DEF ReadTake, Return, kernVars
    <2>10. (rcvd \o p) \o s = rcvd \o read_buf
      <3> HIDE DEF p, s
      <3>1. rcvd \in Seq(Byte) /\ p \in Seq(Byte) /\ s \in Seq(Byte)
        BY <2>2, <2>8, Zenon
      <3>2. (rcvd \o p) \o s = rcvd \o (p \o s)
        BY ONLY <3>1, ConcatBytes, Zenon
      <3> QED
        BY ONLY <3>2, <2>8, Zenon
    <2> QED
      BY <2>4, <2>5, <2>6, <2>9, <2>10
  <1>6. ASSUME NEW r \in Readers, ReadCopy(r) PROVE ByteConservation'
    <2>0. ReadCopy(r)
      BY <1>6
    <2>1. CASE client_fd = NoFd
      <3>1. client_fd' = NoFd
        BY <2>0, <2>1 DEF ReadCopy, nodeVars
      <3> QED
        BY <3>1, FlowNobody
    <2>2. CASE client_fd # NoFd
      <3>1. /\ Goto(r, "rd_call") /\ pc[r] = "rd_copy"
            /\ UNCHANGED <<client_fd, fdtab, rcvd, read_buf, chunk, inq, sent, torn>>
        BY <2>0, <2>2 DEF ReadCopy, nodeVars, kernVars, histVars
      <3>2. \A q \in Readers : pc'[q] = "rd_append" <=> pc[q] = "rd_append"
        BY <3>1, GotoReader DEF TypeOK, ReadPc
      <3>3. Current' \subseteq Current
        BY <3>1 DEF Current
      <3> QED
        BY <3>1, <3>2, <3>3, FlowFrame
    <2> QED
      BY <2>1, <2>2
  <1>7. ASSUME NEW r \in Readers, ReadCall(r) PROVE ByteConservation'
    <2>0. PICK l \in ({"idle"} \cup ReadPc) \ {"rd_append"} : Goto(r, l) /\ pc[r] # "rd_append"
      BY <1>7 DEF ReadCall, ReadPc
    <2>1. \A q \in Readers : pc'[q] = "rd_append" <=> pc[q] = "rd_append"
      BY <2>0, GotoReader DEF TypeOK
    <2>2. UNCHANGED <<rcvd, read_buf, chunk, inq, sent>> /\ (torn => torn')
      BY <1>7 DEF ReadCall, nodeVars, kernVars, readVars, histVars
    <2>3. Current' \subseteq Current
      BY <1>7, NameAssumption DEF ReadCall, Current, FdInv, TypeOK, NodeType, KernelType, nodeVars, kernVars, Plain
    <2> QED
      BY <2>1, <2>2, <2>3, FlowFrame
  <1>8. ASSUME NEW r \in Readers, ReadData(r) PROVE ByteConservation'
    <2> SUFFICES ASSUME ~torn', NEW c \in Current'
                 PROVE  /\ \A q \in Readers : pc'[q] = "rd_append"
                             => rcvd' \o read_buf' \o chunk'[q] \o inq'[c] = sent'[c]
                        /\ (\A q \in Readers : pc'[q] # "rd_append")
                             => rcvd' \o read_buf' \o inq'[c] = sent'[c]
      BY DEF ByteConservation
    <2>0. ReadData(r) /\ ~torn
      BY <1>8 DEF ReadData, histVars
    <2>1. c \in Current /\ c \in Conns
      BY <2>0 DEF ReadData, Current, nodeVars, kernVars
    <2>2. /\ rcvd \in Seq(Byte) /\ read_buf \in Seq(Byte)
          /\ inq[c] \in Seq(Byte) /\ sent[c] \in Seq(Byte)
      BY <2>1 DEF TypeOK, NodeType, KernelType, HistoryType
    <2>3. \A q \in Readers \ {r} : pc[q] = "idle"
      BY <2>0 DEF ReadData, AloneInv, OneReader
    <2>4. \A q \in Readers \ {r} : pc'[q] = "idle"
      BY <2>0, <2>3 DEF ReadData, Goto, TypeOK, PcType, Threads
    <2>5. rcvd \o read_buf \o inq[c] = sent[c]
      BY <2>0, <2>1, <2>3 DEF ReadData, ByteConservation
    <2>6. src[r] = c
      BY <2>0, <2>1 DEF ReadData, AloneInv, ReadsClient, Current
    <2>7. PICK k \in 1..Len(inq[c]) :
            /\ chunk' = [chunk EXCEPT ![r] = Prefix(inq[c], k)]
            /\ inq' = [inq EXCEPT ![c] = Suffix(@, k)]
      BY <2>0, <2>6 DEF ReadData
    <2> DEFINE p == Prefix(inq[c], k)
               s == Suffix(inq[c], k)
    <2>8. p \in Seq(Byte) /\ s \in Seq(Byte) /\ p \o s = inq[c]
      <3>1. k \in Nat
        BY <2>2
      <3> QED
        BY <2>2, <3>1, PrefixType, CutRestores
    <2>9. /\ chunk'[r] = p /\ inq'[c] = s
          /\ rcvd' = rcvd /\ read_buf' = read_buf /\ sent' = sent
      BY <2>0, <2>1, <2>7 DEF ReadData, nodeVars, histVars, TypeOK, ReadType, KernelType
    <2>10. ((rcvd \o read_buf) \o p) \o s = (rcvd \o read_buf) \o inq[c]
      <3> HIDE DEF p, s
      <3>1. rcvd \o read_buf \in Seq(Byte)
        BY <2>2, ConcatProperties
      <3>2. ((rcvd \o read_buf) \o p) \o s = (rcvd \o read_buf) \o (p \o s)
        BY ONLY <2>8, <3>1, ConcatBytes, Zenon
      <3> QED
        BY <2>8, <3>2, Zenon
    <2>11. pc'[r] = "rd_append"
      BY <2>0 DEF ReadData, Goto, TypeOK, PcType, Threads
    <2> QED
      BY <2>4, <2>5, <2>9, <2>10, <2>11
  <1>9. ASSUME NEW r \in Readers, ReadNothing(r) PROVE ByteConservation'
    <2>0. PICK l \in ({"idle"} \cup ReadPc) \ {"rd_append"} : Goto(r, l) /\ pc[r] # "rd_append"
      BY <1>9 DEF ReadNothing, ReadPc
    <2>1. \A q \in Readers : pc'[q] = "rd_append" <=> pc[q] = "rd_append"
      BY <2>0, GotoReader DEF TypeOK
    <2>2. UNCHANGED <<rcvd, read_buf, chunk, inq, sent>> /\ (torn => torn')
      BY <1>9 DEF ReadNothing, nodeVars, kernVars, readVars, histVars
    <2>3. Current' \subseteq Current
      BY <1>9, NameAssumption DEF ReadNothing, Current, FdInv, TypeOK, NodeType, KernelType, nodeVars, kernVars, Plain
    <2> QED
      BY <2>1, <2>2, <2>3, FlowFrame
  <1>10. ASSUME NEW r \in Readers, ReadAppend(r) PROVE ByteConservation'
    <2> SUFFICES ASSUME ~torn', NEW c \in Current'
                 PROVE  /\ \A q \in Readers : pc'[q] = "rd_append"
                             => rcvd' \o read_buf' \o chunk'[q] \o inq'[c] = sent'[c]
                        /\ (\A q \in Readers : pc'[q] # "rd_append")
                             => rcvd' \o read_buf' \o inq'[c] = sent'[c]
      BY DEF ByteConservation
    <2>0. ReadAppend(r) /\ ~torn
      BY <1>10 DEF ReadAppend, histVars
    <2>1. c \in Current /\ c \in Conns
      BY <2>0 DEF ReadAppend, Current, nodeVars, kernVars
    <2>2. /\ rcvd \in Seq(Byte) /\ read_buf \in Seq(Byte)
          /\ inq[c] \in Seq(Byte) /\ sent[c] \in Seq(Byte)
      BY <2>1 DEF TypeOK, NodeType, KernelType, HistoryType
    <2>3. \A q \in Readers \ {r} : pc[q] = "idle"
      BY <2>0 DEF ReadAppend, AloneInv, OneReader
    <2>4. \A q \in Readers \ {r} : pc'[q] = "idle"
      BY <2>0, <2>3 DEF ReadAppend, Goto, TypeOK, PcType, Threads
    <2>5. rcvd \o read_buf \o chunk[r] \o inq[c] = sent[c]
      BY <2>0, <2>1 DEF ReadAppend, ByteConservation
    <2>6. pc'[r] = "rd_scan"
      BY <2>0 DEF ReadAppend, Goto, TypeOK, PcType, Threads
    <2>7. read_buf' = read_buf \o chunk[r] /\ rcvd' = rcvd /\ inq' = inq /\ sent' = sent
      BY <2>0 DEF ReadAppend, kernVars, histVars
    <2>8. chunk[r] \in Seq(Byte)
      BY DEF TypeOK, ReadType
    <2>9. (rcvd \o read_buf) \o chunk[r] = rcvd \o (read_buf \o chunk[r])
      <3>1. rcvd \in Seq(Byte) /\ read_buf \in Seq(Byte) /\ chunk[r] \in Seq(Byte)
        BY <2>2, <2>8, Zenon
      <3> QED
        BY ONLY <3>1, ConcatBytes, Zenon
    <2> QED
      BY <2>4, <2>5, <2>6, <2>7, <2>9
  <1>11. ASSUME NEW r \in Readers, ReadEof(r) PROVE ByteConservation'
    <2> SUFFICES ASSUME ~torn', NEW c \in Current'
                 PROVE  /\ \A q \in Readers : pc'[q] = "rd_append"
                             => rcvd' \o read_buf' \o chunk'[q] \o inq'[c] = sent'[c]
                        /\ (\A q \in Readers : pc'[q] # "rd_append")
                             => rcvd' \o read_buf' \o inq'[c] = sent'[c]
      BY DEF ByteConservation
    <2>0. ReadEof(r) /\ ~torn
      BY <1>11 DEF ReadEof, Return, histVars
    <2>1. c \in Current /\ c \in Conns
      BY <2>0 DEF ReadEof, Return, Current, nodeVars, kernVars
    <2>2. /\ rcvd \in Seq(Byte) /\ read_buf \in Seq(Byte)
          /\ inq[c] \in Seq(Byte) /\ sent[c] \in Seq(Byte)
      BY <2>1 DEF TypeOK, NodeType, KernelType, HistoryType
    <2>3. \A q \in Readers \ {r} : pc[q] = "idle"
      BY <2>0 DEF ReadEof, Return, AloneInv, OneReader
    <2>4. \A q \in Readers \ {r} : pc'[q] = "idle"
      BY <2>0, <2>3 DEF ReadEof, Return, Goto, TypeOK, PcType, Threads
    <2>5. rcvd \o read_buf \o inq[c] = sent[c]
      BY <2>0, <2>1, <2>3 DEF ReadEof, ByteConservation
    <2>6. pc'[r] = "idle"
      BY <2>0 DEF ReadEof, Return, Goto, TypeOK, PcType, Threads
    <2>7. rcvd' = rcvd \o read_buf /\ read_buf' = <<>> /\ inq' = inq /\ sent' = sent
      BY <2>0 DEF ReadEof, Return, kernVars
    <2>8. (rcvd \o read_buf) \o <<>> = rcvd \o read_buf
      BY <2>2, ConcatProperties, ConcatEmptySeq
    <2> QED
      BY <2>4, <2>5, <2>6, <2>7, <2>8
  <1>12. ASSUME NEW w \in Writers, WriteBegin(w) PROVE ByteConservation'
    <2>0. PICK l \in {"idle"} \cup WritePc : Goto(w, l)
      BY <1>12 DEF WriteBegin, WritePc
    <2>1. \A q \in Readers : pc'[q] = "rd_append" <=> pc[q] = "rd_append"
      BY <2>0, GotoWriter DEF TypeOK
    <2>2. UNCHANGED <<rcvd, read_buf, chunk, inq, sent>> /\ (torn => torn')
      BY <1>12 DEF WriteBegin, nodeVars, kernVars, readVars, histVars
    <2>3. Current' \subseteq Current
      BY <1>12, NameAssumption DEF WriteBegin, Current, FdInv, TypeOK, NodeType, KernelType, nodeVars, kernVars, Plain
    <2> QED
      BY <2>1, <2>2, <2>3, FlowFrame
  <1>13. ASSUME NEW w \in Writers, WriteLock(w) PROVE ByteConservation'
    <2>0. PICK l \in {"idle"} \cup WritePc : Goto(w, l)
      BY <1>13 DEF WriteLock, WritePc
    <2>1. \A q \in Readers : pc'[q] = "rd_append" <=> pc[q] = "rd_append"
      BY <2>0, GotoWriter DEF TypeOK
    <2>2. UNCHANGED <<rcvd, read_buf, chunk, inq, sent>> /\ (torn => torn')
      BY <1>13 DEF WriteLock, nodeVars, kernVars, readVars, histVars
    <2>3. Current' \subseteq Current
      BY <1>13, NameAssumption DEF WriteLock, Current, FdInv, TypeOK, NodeType, KernelType, nodeVars, kernVars, Plain
    <2> QED
      BY <2>1, <2>2, <2>3, FlowFrame
  <1>14. ASSUME NEW w \in Writers, WriteAccept(w) PROVE ByteConservation'
    <2>0. WriteAccept(w)
      BY <1>14
    <2>1. PICK l \in ({"idle"} \cup WritePc) \ {"rd_append"} : Goto(w, l) /\ pc[w] # "rd_append"
      BY <2>0 DEF WriteAccept, AcceptBlock, WritePc
    <2>2. \A q \in Readers : pc'[q] = "rd_append" <=> pc[q] = "rd_append"
      BY <2>1, GotoWriter DEF TypeOK
    <2>3. UNCHANGED <<rcvd, read_buf, chunk, inq, sent, torn>>
      BY <2>0 DEF WriteAccept, AcceptBlock, readVars, histVars
    <2>4. CASE UNCHANGED <<client_fd, fdtab, backlog>>
      <3>1. Current' \subseteq Current
        BY <2>4 DEF Current
      <3> QED
        BY <2>2, <2>3, <3>1, FlowFrame
    <2>5. CASE Accepted /\ client_fd = NoFd
      <3> SUFFICES ASSUME ~torn', NEW c \in Current'
                   PROVE  /\ \A q \in Readers : pc'[q] # "rd_append"
                          /\ rcvd' \o read_buf' \o inq'[c] = sent'[c]
        BY DEF ByteConservation
      <3>1. c = Head(backlog) /\ c \in Conns
        BY <2>5, NameAssumption DEF Accepted, Current, TypeOK, KernelType
      <3>2. inq[c] = sent[c] /\ inq[c] \in Seq(Byte)
        <4>1. Queued(c)
          BY <2>5, <3>1 DEF Accepted, Queued, TypeOK, KernelType
        <4> QED
          BY <3>1, <4>1 DEF QueueInv, FreshUnread, TypeOK, KernelType
      <3>3. \A u \in Control : pc[u] # "cl_buf"
        BY <2>0, ThreadAssumption DEF WriteAccept, LockInv, Threads, AcceptBlock
      <3>4. rcvd = <<>> /\ read_buf = <<>>
        BY <2>3, <2>5, <3>3 DEF AloneInv, EmptyAtFirst
      <3>5. \A q \in Readers : pc[q] # "rd_append"
        BY <2>3, <2>5 DEF AloneInv, HasClient, Connected
      <3>6. rcvd \o read_buf \o inq[c] = inq[c]
        BY <3>2, <3>4, ConcatEmptySeq
      <3> QED
        BY <2>2, <2>3, <3>2, <3>5, <3>6
    <2> QED
      BY <2>0, <2>4, <2>5 DEF WriteAccept, AcceptBlock
  <1>15. ASSUME NEW w \in Writers, WriteSome(w) PROVE ByteConservation'
    <2>0. PICK l \in {"idle"} \cup WritePc : Goto(w, l)
      BY <1>15 DEF WriteSome, WritePc
    <2>1. \A q \in Readers : pc'[q] = "rd_append" <=> pc[q] = "rd_append"
      BY <2>0, GotoWriter DEF TypeOK
    <2>2. UNCHANGED <<rcvd, read_buf, chunk, inq, sent>> /\ (torn => torn')
      BY <1>15 DEF WriteSome, nodeVars, kernVars, readVars, histVars
    <2>3. Current' \subseteq Current
      BY <1>15, NameAssumption DEF WriteSome, Current, FdInv, TypeOK, NodeType, KernelType, nodeVars, kernVars, Plain
    <2> QED
      BY <2>1, <2>2, <2>3, FlowFrame
  <1>16. ASSUME NEW w \in Writers, WriteFail(w) PROVE ByteConservation'
    <2>0. PICK l \in {"idle"} \cup WritePc : Goto(w, l)
      BY <1>16 DEF WriteFail, WritePc
    <2>1. \A q \in Readers : pc'[q] = "rd_append" <=> pc[q] = "rd_append"
      BY <2>0, GotoWriter DEF TypeOK
    <2>2. UNCHANGED <<rcvd, read_buf, chunk, inq, sent>> /\ (torn => torn')
      BY <1>16 DEF WriteFail, nodeVars, kernVars, readVars, histVars
    <2>3. Current' \subseteq Current
      BY <1>16, NameAssumption DEF WriteFail, Current, FdInv, TypeOK, NodeType, KernelType, nodeVars, kernVars, Plain
    <2> QED
      BY <2>1, <2>2, <2>3, FlowFrame
  <1>17. ASSUME NEW t \in Control, OpenBegin(t) PROVE ByteConservation'
    <2>0. PICK l \in {"idle"} \cup OpenPc \cup ClosePc : Goto(t, l)
      BY <1>17 DEF OpenBegin, OpenPc, ClosePc
    <2>1. \A q \in Readers : pc'[q] = "rd_append" <=> pc[q] = "rd_append"
      BY <2>0, GotoControl DEF TypeOK
    <2>2. UNCHANGED <<rcvd, read_buf, chunk, inq, sent>> /\ (torn => torn')
      BY <1>17 DEF OpenBegin, nodeVars, kernVars, readVars, histVars
    <2>3. Current' \subseteq Current
      BY <1>17, NameAssumption DEF OpenBegin, Current, FdInv, TypeOK, NodeType, KernelType, nodeVars, kernVars, Plain
    <2> QED
      BY <2>1, <2>2, <2>3, FlowFrame
  <1>18. ASSUME NEW t \in Control, OpenSocket(t) PROVE ByteConservation'
    <2>0. PICK l \in {"idle"} \cup OpenPc \cup ClosePc : Goto(t, l)
      BY <1>18 DEF OpenSocket, ClaimPath, OpenPc, ClosePc
    <2>1. \A q \in Readers : pc'[q] = "rd_append" <=> pc[q] = "rd_append"
      BY <2>0, GotoControl DEF TypeOK
    <2>2. UNCHANGED <<rcvd, read_buf, chunk, inq, sent>> /\ (torn => torn')
      BY <1>18 DEF OpenSocket, nodeVars, kernVars, readVars, histVars
    <2>3. Current' \subseteq Current
      BY <1>18, NameAssumption DEF OpenSocket, ClaimPath, Current, FdInv, TypeOK, NodeType, KernelType, nodeVars, kernVars, Plain
    <2> QED
      BY <2>1, <2>2, <2>3, FlowFrame
  <1>19. ASSUME NEW t \in Control, OpenBind(t) PROVE ByteConservation'
    <2>0. PICK l \in {"idle"} \cup OpenPc \cup ClosePc : Goto(t, l)
      BY <1>19 DEF OpenBind, OpenFail, IsSocket, CloseFds, OpenPc, ClosePc
    <2>1. \A q \in Readers : pc'[q] = "rd_append" <=> pc[q] = "rd_append"
      BY <2>0, GotoControl DEF TypeOK
    <2>2. UNCHANGED <<rcvd, read_buf, chunk, inq, sent>> /\ (torn => torn')
      BY <1>19 DEF OpenBind, nodeVars, kernVars, readVars, histVars
    <2>3. Current' \subseteq Current
      BY <1>19, NameAssumption DEF OpenBind, OpenFail, IsSocket, CloseFds, Current, FdInv, TypeOK, NodeType, KernelType, nodeVars, kernVars, Plain
    <2> QED
      BY <2>1, <2>2, <2>3, FlowFrame
  <1>20. ASSUME NEW t \in Control, OpenListen(t) PROVE ByteConservation'
    <2>0. PICK l \in {"idle"} \cup OpenPc \cup ClosePc : Goto(t, l)
      BY <1>20 DEF OpenListen, OpenFail, IsSocket, CloseFds, OpenPc, ClosePc
    <2>1. \A q \in Readers : pc'[q] = "rd_append" <=> pc[q] = "rd_append"
      BY <2>0, GotoControl DEF TypeOK
    <2>2. UNCHANGED <<rcvd, read_buf, chunk, inq, sent>> /\ (torn => torn')
      BY <1>20 DEF OpenListen, nodeVars, kernVars, readVars, histVars
    <2>3. Current' \subseteq Current
      BY <1>20, NameAssumption DEF OpenListen, OpenFail, IsSocket, CloseFds, Current, FdInv, TypeOK, NodeType, KernelType, nodeVars, kernVars, Plain
    <2> QED
      BY <2>1, <2>2, <2>3, FlowFrame
  <1>21. ASSUME NEW t \in Control, CloseBegin(t) PROVE ByteConservation'
    <2>0. PICK l \in {"idle"} \cup OpenPc \cup ClosePc : Goto(t, l)
      BY <1>21 DEF CloseBegin, OpenPc, ClosePc
    <2>1. \A q \in Readers : pc'[q] = "rd_append" <=> pc[q] = "rd_append"
      BY <2>0, GotoControl DEF TypeOK
    <2>2. UNCHANGED <<rcvd, read_buf, chunk, inq, sent>> /\ (torn => torn')
      BY <1>21 DEF CloseBegin, nodeVars, kernVars, readVars, histVars
    <2>3. Current' \subseteq Current
      BY <1>21, NameAssumption DEF CloseBegin, Current, FdInv, TypeOK, NodeType, KernelType, nodeVars, kernVars, Plain
    <2> QED
      BY <2>1, <2>2, <2>3, FlowFrame
  <1>22. ASSUME NEW t \in Control, CloseLock(t) PROVE ByteConservation'
    <2>0. PICK l \in {"idle"} \cup OpenPc \cup ClosePc : Goto(t, l)
      BY <1>22 DEF CloseLock, OpenPc, ClosePc
    <2>1. \A q \in Readers : pc'[q] = "rd_append" <=> pc[q] = "rd_append"
      BY <2>0, GotoControl DEF TypeOK
    <2>2. UNCHANGED <<rcvd, read_buf, chunk, inq, sent>> /\ (torn => torn')
      BY <1>22 DEF CloseLock, nodeVars, kernVars, readVars, histVars
    <2>3. Current' \subseteq Current
      BY <1>22, NameAssumption DEF CloseLock, Current, FdInv, TypeOK, NodeType, KernelType, nodeVars, kernVars, Plain
    <2> QED
      BY <2>1, <2>2, <2>3, FlowFrame
  <1>23. ASSUME NEW t \in Control, CloseDescriptors(t) PROVE ByteConservation'
    <2>1. client_fd' = NoFd
      BY <1>23 DEF CloseDescriptors
    <2> QED
      BY <2>1, FlowNobody
  <1>24. ASSUME NEW t \in Control, CloseFinish(t) PROVE ByteConservation'
    <2>1. client_fd' = NoFd
      BY <1>24 DEF CloseFinish, ClosedInv
    <2> QED
      BY <2>1, FlowNobody
  <1>25. ASSUME NEW c \in Conns, ClientConnect(c) PROVE ByteConservation'
    <2>1. pc' = pc
      BY <1>25 DEF ClientConnect
    <2>2. UNCHANGED <<rcvd, read_buf, chunk, inq, sent>> /\ (torn => torn')
      BY <1>25 DEF ClientConnect, nodeVars, kernVars, readVars, histVars
    <2>3. Current' \subseteq Current
      BY <1>25, NameAssumption DEF ClientConnect, Current, FdInv, TypeOK, NodeType, KernelType, nodeVars, kernVars, Plain
    <2> QED
      BY <2>1, <2>2, <2>3, FlowFrame
  <1>26. ASSUME NEW c \in Conns, ClientSend(c) PROVE ByteConservation'
    <2>0. PICK newline \in BOOLEAN :
            LET b == [from |-> c, n |-> Len(sent[c]) + 1, nl |-> newline]
            IN  /\ sent' = [sent EXCEPT ![c] = Append(@, b)]
                /\ inq' = [inq EXCEPT ![c] = Append(@, b)]
      BY <1>26 DEF ClientSend
    <2> DEFINE b == [from |-> c, n |-> Len(sent[c]) + 1, nl |-> newline]
    <2>1. b \in Byte
      BY <1>26, Bounds DEF ClientSend, Byte, TypeOK, HistoryType
    <2>2. UNCHANGED <<client_fd, fdtab, pc, rcvd, read_buf, chunk, torn>>
      BY <1>26 DEF ClientSend, nodeVars, readVars
    <2>3. \A d \in Conns \ {c} : sent'[d] = sent[d] /\ inq'[d] = inq[d]
      BY <2>0 DEF TypeOK, KernelType, HistoryType
    <2> HIDE DEF b
    <2>4. sent'[c] = Append(sent[c], b) /\ inq'[c] = Append(inq[c], b)
      BY <2>0 DEF b, TypeOK, KernelType, HistoryType
    <2>5. \A s \in Seq(Byte) : s \o inq[c] = sent[c] => s \o inq'[c] = sent'[c]
      <3> SUFFICES ASSUME NEW s \in Seq(Byte), s \o inq[c] = sent[c]
                   PROVE  s \o Append(inq[c], b) = Append(sent[c], b)
        BY <2>4
      <3>1. inq[c] \in Seq(Byte) /\ sent[c] \in Seq(Byte) /\ <<b>> \in Seq(Byte)
        BY <2>1 DEF TypeOK, KernelType, HistoryType
      <3>2. Append(inq[c], b) = inq[c] \o <<b>> /\ Append(sent[c], b) = sent[c] \o <<b>>
        BY <2>1, <3>1, AppendIsConcat
      <3>3. (s \o inq[c]) \o <<b>> = s \o (inq[c] \o <<b>>)
        BY <3>1, ConcatBytes, Zenon
      <3> QED
        BY <3>2, <3>3, Zenon
    <2>6. /\ rcvd \o read_buf \in Seq(Byte)
          /\ \A q \in Readers : rcvd \o read_buf \o chunk[q] \in Seq(Byte)
      BY ConcatProperties DEF TypeOK, NodeType, ReadType, HistoryType
    <2>7. SUFFICES ASSUME ~torn', NEW d \in Current'
                 PROVE  /\ \A q \in Readers : pc'[q] = "rd_append"
                             => rcvd' \o read_buf' \o chunk'[q] \o inq'[d] = sent'[d]
                        /\ (\A q \in Readers : pc'[q] # "rd_append")
                             => rcvd' \o read_buf' \o inq'[d] = sent'[d]
      BY DEF ByteConservation
    <2>8. /\ d \in Conns /\ ~torn
          /\ \A q \in Readers : pc[q] = "rd_append"
               => (rcvd \o read_buf \o chunk[q]) \o inq[d] = sent[d]
          /\ (\A q \in Readers : pc[q] # "rd_append")
               => (rcvd \o read_buf) \o inq[d] = sent[d]
      BY <2>2, <2>7 DEF ByteConservation, Current
    <2>9. \A s \in Seq(Byte) : s \o inq[d] = sent[d] => s \o inq'[d] = sent'[d]
      BY <2>3, <2>5, <2>8, Zenon
    <2>10. \A q \in Readers : pc[q] = "rd_append"
               => (rcvd \o read_buf \o chunk[q]) \o inq'[d] = sent'[d]
      BY <2>6, <2>8, <2>9, Zenon
    <2>11. (\A q \in Readers : pc[q] # "rd_append")
               => (rcvd \o read_buf) \o inq'[d] = sent'[d]
      BY <2>6, <2>8, <2>9, Zenon
    <2> QED
      BY <2>2, <2>10, <2>11, Zenon
  <1>27. ASSUME NEW c \in Conns, ClientHangup(c) PROVE ByteConservation'
    <2>1. pc' = pc
      BY <1>27 DEF ClientHangup
    <2>2. UNCHANGED <<rcvd, read_buf, chunk, inq, sent>> /\ (torn => torn')
      BY <1>27 DEF ClientHangup, nodeVars, kernVars, readVars, histVars
    <2>3. Current' \subseteq Current
      BY <1>27, NameAssumption DEF ClientHangup, Current, FdInv, TypeOK, NodeType, KernelType, nodeVars, kernVars, Plain
    <2> QED
      BY <2>1, <2>2, <2>3, FlowFrame
  <1>28. ASSUME NEW w \in Writers, WriteKilled(w) PROVE ByteConservation'
    <2>0. PICK l \in {"idle"} \cup WritePc : Goto(w, l)
      BY <1>28 DEF WriteKilled, WritePc
    <2>1. \A q \in Readers : pc'[q] = "rd_append" <=> pc[q] = "rd_append"
      BY <2>0, GotoWriter DEF TypeOK
    <2>2. UNCHANGED <<rcvd, read_buf, chunk, inq, sent>> /\ (torn => torn')
      BY <1>28 DEF WriteKilled, nodeVars, kernVars, readVars, histVars
    <2>3. Current' \subseteq Current
      BY <1>28, NameAssumption DEF WriteKilled, Current, FdInv, TypeOK, NodeType, KernelType, nodeVars, kernVars, Plain
    <2> QED
      BY <2>1, <2>2, <2>3, FlowFrame
  <1> QED
    BY <1>1, <1>2, <1>3, <1>4, <1>5, <1>6, <1>7, <1>8, <1>9, <1>10, <1>11, <1>12, <1>13, <1>14, <1>15, <1>16, <1>17, <1>18, <1>19, <1>20, <1>21, <1>22, <1>23, <1>24, <1>25, <1>26, <1>27, <1>28
    DEF Next, ReaderStep, WriterStep, OpenStep, CloseStep

-----------------------------------------------------------------------------
(* The inductive invariant behind ByteConservation.  Conservation alone is   *)
(* not inductive: it needs that a connection is fresh when it is accepted    *)
(* (QueueInv), that the only reader works on the current connection          *)
(* (AloneInv) and that nobody connects during a close (LockInv, ClosedInv).  *)
FlowInv ==
    /\ TypeOK
    /\ LockInv
    /\ FdInv
    /\ QueueInv
    /\ AloneInv
    /\ ClosedInv
    /\ ByteConservation

\* The inductive invariant holds of the closed node.
LEMMA FlowInit == Init => FlowInv
  <1> SUFFICES ASSUME Init PROVE FlowInv
    OBVIOUS
  <1>1. LockInv
    BY ThreadAssumption DEF Init, LockInv, Threads
  <1>2. FdInv
    BY DEF Init, FdInv
  <1>3. QueueInv
    <2>1. backlog = <<>> /\ used = {} /\ inq = sent
      BY DEF Init
    <2>2. \A c \in Conns : ~Queued(c)
      BY <2>1 DEF Queued
    <2>3. \A f \in Fds : fdtab[f] \notin Conns
      BY NameAssumption DEF Init, Plain
    <2>4. \A r \in Readers : src[r] \notin Conns
      BY NameAssumption DEF Init
    <2> QED
      BY <2>1, <2>2, <2>3, <2>4
      DEF QueueInv, QueuedUsed, QueuedOnce, NamedNotQueued, SourceNotQueued, FreshUnread
  <1>4. AloneInv
    <2>1. \A t \in Threads : pc[t] = "idle"
      BY DEF Init
    <2>2. rcvd = <<>> /\ read_buf = <<>>
      BY DEF Init
    <2> QED
      BY <2>1, <2>2 DEF AloneInv, OneReader, ClosesAlone, HasClient, ReadsClient,
                        EmptyAtFirst, Connected, CloseBody, Threads
  <1>5. ClosedInv
    BY DEF Init, ClosedInv, Threads
  <1>6. ByteConservation
    BY DEF Init, ByteConservation, Current
  <1> QED
    BY InitType, <1>1, <1>2, <1>3, <1>4, <1>5, <1>6 DEF FlowInv

\* Stuttering keeps it.
LEMMA FlowStutter ==
    ASSUME FlowInv, UNCHANGED vars
    PROVE  FlowInv'
  <1>1. TypeOK'
    BY TypeStutter DEF FlowInv
  <1>2. /\ UNCHANGED <<mtx, client_fd, listen_fd, read_buf, fdtab, backlog, used>>
        /\ UNCHANGED <<inq, pc, cfd, src, chunk, sent, rcvd, torn>>
    BY DEF vars, nodeVars, kernVars, readVars, histVars
  <1>3. LockInv' /\ FdInv' /\ ClosedInv'
    BY <1>2 DEF FlowInv, LockInv, FdInv, ClosedInv
  <1>4. QueueInv'
    BY <1>2 DEF FlowInv, QueueInv, Queued, QueuedUsed, QueuedOnce, NamedNotQueued,
                SourceNotQueued, FreshUnread
  <1>5. AloneInv'
    BY <1>2 DEF FlowInv, AloneInv, OneReader, ClosesAlone, HasClient, ReadsClient,
                EmptyAtFirst
  <1>6. ByteConservation'
    BY <1>2 DEF FlowInv, ByteConservation, Current
  <1> QED
    BY <1>1, <1>3, <1>4, <1>5, <1>6 DEF FlowInv

\* Whatever the number of threads, connections and descriptors and whatever
\* the bounds: as long as do_read() does not overlap another do_read() or a
\* close(), the bytes of the current client all go, once and in order, from
\* the kernel through _read_buf to the callers, and no byte of an earlier
\* client is among them.
THEOREM BytesConserved == Spec => []ByteConservation
  <1>1. FlowInv /\ [Next]_vars => FlowInv'
    <2>1. ASSUME FlowInv, Next PROVE FlowInv'
      BY <2>1, TypeStep, LockStep, FdStep, QueueStep, AloneStep, ClosedStep, FlowStep
      DEF FlowInv
    <2> QED
      BY <2>1, FlowStutter
  <1>2. FlowInv => ByteConservation
    BY DEF FlowInv
  <1> QED
    BY FlowInit, <1>1, <1>2, PTL DEF Spec

-----------------------------------------------------------------------------
(* Descriptors.  open() overwrites _listen_fd, so it must not hold one when   *)
(* it gets there; that is so if only one thread opens and closes the node.    *)
OpensClosed == \A t \in Control : pc[t] = "op_socket" => listen_fd = NoFd

OneControl == \A t, u \in Control : t = u

\* With one thread that opens and closes, no step loses a descriptor.
LEMMA LeakStep ==
    ASSUME TypeOK, OneControl, NoFdLeak, OpensClosed, Next
    PROVE  NoFdLeak' /\ OpensClosed'
  <1>1. ASSUME NEW r \in Readers, ReadBegin(r) PROVE NoFdLeak' /\ OpensClosed'
    <2>1. PICK l \in {"idle"} \cup ReadPc : Goto(r, l)
      BY <1>1 DEF ReadBegin, ReadPc
    <2>2. OpensClosed'
      BY <1>1, <2>1, GotoReader DEF ReadBegin, OpensClosed, TypeOK, nodeVars
    <2>3. NoFdLeak'
      BY <1>1 DEF ReadBegin, NoFdLeak, TypeOK, NodeType, KernelType, nodeVars, kernVars
    <2> QED
      BY <2>2, <2>3
  <1>2. ASSUME NEW r \in Readers, ReadLock(r) PROVE NoFdLeak' /\ OpensClosed'
    <2>1. PICK l \in {"idle"} \cup ReadPc : Goto(r, l)
      BY <1>2 DEF ReadLock, ReadPc
    <2>2. OpensClosed'
      BY <1>2, <2>1, GotoReader DEF ReadLock, OpensClosed, TypeOK, nodeVars
    <2>3. NoFdLeak'
      BY <1>2 DEF ReadLock, NoFdLeak, TypeOK, NodeType, KernelType, nodeVars, kernVars
    <2> QED
      BY <2>2, <2>3
  <1>3. ASSUME NEW r \in Readers, ReadAccept(r) PROVE NoFdLeak' /\ OpensClosed'
    <2>1. PICK l \in {"idle"} \cup ReadPc : Goto(r, l)
      BY <1>3 DEF ReadAccept, AcceptBlock, Accepted, ReadPc
    <2>2. OpensClosed'
      BY <1>3, <2>1, GotoReader DEF ReadAccept, AcceptBlock, Accepted, OpensClosed, TypeOK, nodeVars
    <2>3. NoFdLeak'
      <3>1. CASE UNCHANGED <<client_fd, fdtab, backlog>>
        BY <1>3, <3>1 DEF ReadAccept, AcceptBlock, NoFdLeak
      <3>2. CASE Accepted /\ client_fd = NoFd
        <4>1. PICK f \in Fds : /\ fdtab' = [fdtab EXCEPT ![f] = Head(backlog)]
                             /\ client_fd' = f
          BY <3>2 DEF Accepted
        <4>2. listen_fd' = listen_fd
          BY <1>3 DEF ReadAccept, AcceptBlock
        <4>3. \A g \in Fds \ {f} : fdtab'[g] = fdtab[g]
          BY <4>1 DEF TypeOK, KernelType
        <4> QED
          BY <3>2, <4>1, <4>2, <4>3, NameAssumption DEF NoFdLeak
      <3> QED
        BY <1>3, <3>1, <3>2 DEF ReadAccept, AcceptBlock
    <2> QED
      BY <2>2, <2>3
  <1>4. ASSUME NEW r \in Readers, ReadScan(r) PROVE NoFdLeak' /\ OpensClosed'
    <2>1. PICK l \in {"idle"} \cup ReadPc : Goto(r, l)
      BY <1>4 DEF ReadScan, ReadPc
    <2>2. OpensClosed'
      BY <1>4, <2>1, GotoReader DEF ReadScan, OpensClosed, TypeOK, nodeVars
    <2>3. NoFdLeak'
      BY <1>4 DEF ReadScan, NoFdLeak, TypeOK, NodeType, KernelType, nodeVars, kernVars
    <2> QED
      BY <2>2, <2>3
  <1>5. ASSUME NEW r \in Readers, ReadTake(r) PROVE NoFdLeak' /\ OpensClosed'
    <2>1. PICK l \in {"idle"} \cup ReadPc : Goto(r, l)
      BY <1>5 DEF ReadTake, Return, ReadPc
    <2>2. OpensClosed'
      BY <1>5, <2>1, GotoReader DEF ReadTake, Return, OpensClosed, TypeOK, nodeVars
    <2>3. NoFdLeak'
      BY <1>5 DEF ReadTake, Return, NoFdLeak, TypeOK, NodeType, KernelType, nodeVars, kernVars
    <2> QED
      BY <2>2, <2>3
  <1>6. ASSUME NEW r \in Readers, ReadCopy(r) PROVE NoFdLeak' /\ OpensClosed'
    <2>1. PICK l \in {"idle"} \cup ReadPc : Goto(r, l)
      BY <1>6 DEF ReadCopy, Return, ReadPc
    <2>2. OpensClosed'
      BY <1>6, <2>1, GotoReader DEF ReadCopy, Return, OpensClosed, TypeOK, nodeVars
    <2>3. NoFdLeak'
      BY <1>6 DEF ReadCopy, Return, NoFdLeak, TypeOK, NodeType, KernelType, nodeVars, kernVars
    <2> QED
      BY <2>2, <2>3
  <1>7. ASSUME NEW r \in Readers, ReadCall(r) PROVE NoFdLeak' /\ OpensClosed'
    <2>1. PICK l \in {"idle"} \cup ReadPc : Goto(r, l)
      BY <1>7 DEF ReadCall, ReadPc
    <2>2. OpensClosed'
      BY <1>7, <2>1, GotoReader DEF ReadCall, OpensClosed, TypeOK, nodeVars
    <2>3. NoFdLeak'
      BY <1>7 DEF ReadCall, NoFdLeak, TypeOK, NodeType, KernelType, nodeVars, kernVars
    <2> QED
      BY <2>2, <2>3
  <1>8. ASSUME NEW r \in Readers, ReadData(r) PROVE NoFdLeak' /\ OpensClosed'
    <2>1. PICK l \in {"idle"} \cup ReadPc : Goto(r, l)
      BY <1>8 DEF ReadData, ReadPc
    <2>2. OpensClosed'
      BY <1>8, <2>1, GotoReader DEF ReadData, OpensClosed, TypeOK, nodeVars
    <2>3. NoFdLeak'
      BY <1>8 DEF ReadData, NoFdLeak, TypeOK, NodeType, KernelType, nodeVars, kernVars
    <2> QED
      BY <2>2, <2>3
  <1>9. ASSUME NEW r \in Readers, ReadNothing(r) PROVE NoFdLeak' /\ OpensClosed'
    <2>1. PICK l \in {"idle"} \cup ReadPc : Goto(r, l)
      BY <1>9 DEF ReadNothing, ReadPc
    <2>2. OpensClosed'
      BY <1>9, <2>1, GotoReader DEF ReadNothing, OpensClosed, TypeOK, nodeVars
    <2>3. NoFdLeak'
      BY <1>9 DEF ReadNothing, NoFdLeak, TypeOK, NodeType, KernelType, nodeVars, kernVars
    <2> QED
      BY <2>2, <2>3
  <1>10. ASSUME NEW r \in Readers, ReadAppend(r) PROVE NoFdLeak' /\ OpensClosed'
    <2>1. PICK l \in {"idle"} \cup ReadPc : Goto(r, l)
      BY <1>10 DEF ReadAppend, ReadPc
    <2>2. OpensClosed'
      BY <1>10, <2>1, GotoReader DEF ReadAppend, OpensClosed, TypeOK, nodeVars
    <2>3. NoFdLeak'
      BY <1>10 DEF ReadAppend, NoFdLeak, TypeOK, NodeType, KernelType, nodeVars, kernVars
    <2> QED
      BY <2>2, <2>3
  <1>11. ASSUME NEW r \in Readers, ReadEof(r) PROVE NoFdLeak' /\ OpensClosed'
    <2>1. PICK l \in {"idle"} \cup ReadPc : Goto(r, l)
      BY <1>11 DEF ReadEof, Return, ReadPc
    <2>2. OpensClosed'
      BY <1>11, <2>1, GotoReader DEF ReadEof, Return, OpensClosed, TypeOK, nodeVars
    <2>3. NoFdLeak'
      BY <1>11 DEF ReadEof, Return, NoFdLeak, TypeOK, NodeType, KernelType, nodeVars, kernVars
    <2> QED
      BY <2>2, <2>3
  <1>12. ASSUME NEW w \in Writers, WriteBegin(w) PROVE NoFdLeak' /\ OpensClosed'
    <2>1. PICK l \in {"idle"} \cup WritePc : Goto(w, l)
      BY <1>12 DEF WriteBegin, WritePc
    <2>2. OpensClosed'
      BY <1>12, <2>1, GotoWriter DEF WriteBegin, OpensClosed, TypeOK, nodeVars
    <2>3. NoFdLeak'
      BY <1>12 DEF WriteBegin, NoFdLeak, TypeOK, NodeType, KernelType, nodeVars, kernVars
    <2> QED
      BY <2>2, <2>3
  <1>13. ASSUME NEW w \in Writers, WriteLock(w) PROVE NoFdLeak' /\ OpensClosed'
    <2>1. PICK l \in {"idle"} \cup WritePc : Goto(w, l)
      BY <1>13 DEF WriteLock, WritePc
    <2>2. OpensClosed'
      BY <1>13, <2>1, GotoWriter DEF WriteLock, OpensClosed, TypeOK, nodeVars
    <2>3. NoFdLeak'
      BY <1>13 DEF WriteLock, NoFdLeak, TypeOK, NodeType, KernelType, nodeVars, kernVars
    <2> QED
      BY <2>2, <2>3
  <1>14. ASSUME NEW w \in Writers, WriteAccept(w) PROVE NoFdLeak' /\ OpensClosed'
    <2>1. PICK l \in {"idle"} \cup WritePc : Goto(w, l)
      BY <1>14 DEF WriteAccept, AcceptBlock, Accepted, WritePc
    <2>2. OpensClosed'
      BY <1>14, <2>1, GotoWriter DEF WriteAccept, AcceptBlock, Accepted, OpensClosed, TypeOK, nodeVars
    <2>3. NoFdLeak'
      <3>1. CASE UNCHANGED <<client_fd, fdtab, backlog>>
        BY <1>14, <3>1 DEF WriteAccept, AcceptBlock, NoFdLeak
      <3>2. CASE Accepted /\ client_fd = NoFd
        <4>1. PICK f \in Fds : /\ fdtab' = [fdtab EXCEPT ![f] = Head(backlog)]
                             /\ client_fd' = f
          BY <3>2 DEF Accepted
        <4>2. listen_fd' = listen_fd
          BY <1>14 DEF WriteAccept, AcceptBlock
        <4>3. \A g \in Fds \ {f} : fdtab'[g] = fdtab[g]
          BY <4>1 DEF TypeOK, KernelType
        <4> QED
          BY <3>2, <4>1, <4>2, <4>3, NameAssumption DEF NoFdLeak
      <3> QED
        BY <1>14, <3>1, <3>2 DEF WriteAccept, AcceptBlock
    <2> QED
      BY <2>2, <2>3
  <1>15. ASSUME NEW w \in Writers, WriteSome(w) PROVE NoFdLeak' /\ OpensClosed'
    <2>1. PICK l \in {"idle"} \cup WritePc : Goto(w, l)
      BY <1>15 DEF WriteSome, WritePc
    <2>2. OpensClosed'
      BY <1>15, <2>1, GotoWriter DEF WriteSome, OpensClosed, TypeOK, nodeVars
    <2>3. NoFdLeak'
      BY <1>15 DEF WriteSome, NoFdLeak, TypeOK, NodeType, KernelType, nodeVars, kernVars
    <2> QED
      BY <2>2, <2>3
  <1>16. ASSUME NEW w \in Writers, WriteFail(w) PROVE NoFdLeak' /\ OpensClosed'
    <2>1. PICK l \in {"idle"} \cup WritePc : Goto(w, l)
      BY <1>16 DEF WriteFail, WritePc
    <2>2. OpensClosed'
      BY <1>16, <2>1, GotoWriter DEF WriteFail, OpensClosed, TypeOK, nodeVars
    <2>3. NoFdLeak'
      BY <1>16 DEF WriteFail, NoFdLeak, TypeOK, NodeType, KernelType, nodeVars, kernVars
    <2> QED
      BY <2>2, <2>3
  <1>17. ASSUME NEW t \in Control, OpenBegin(t) PROVE NoFdLeak' /\ OpensClosed'
    <2>1. \A u \in Control : u = t
      BY DEF OneControl
    <2>2. OpensClosed'
      BY <1>17, <2>1 DEF OpenBegin, OpensClosed, Goto, TypeOK, PcType, Threads, nodeVars
    <2>3. NoFdLeak'
      BY <1>17 DEF OpenBegin, NoFdLeak, OpensClosed, TypeOK, NodeType, KernelType, nodeVars, kernVars
    <2> QED
      BY <2>2, <2>3
  <1>18. ASSUME NEW t \in Control, OpenSocket(t) PROVE NoFdLeak' /\ OpensClosed'
    <2>1. \A u \in Control : u = t
      BY DEF OneControl
    <2>2. OpensClosed'
      BY <1>18, <2>1 DEF OpenSocket, ClaimPath, OpensClosed, Goto, TypeOK, PcType, Threads
    <2>3. listen_fd = NoFd /\ client_fd' = client_fd
      BY <1>18 DEF OpenSocket, OpensClosed
    <2>4. CASE fdtab' = fdtab /\ listen_fd' = NoFd
      BY <2>2, <2>3, <2>4 DEF NoFdLeak
    <2>5. CASE \E f \in Fds : fdtab' = [fdtab EXCEPT ![f] = "socket"] /\ listen_fd' = f
      <3>1. PICK f \in Fds : fdtab' = [fdtab EXCEPT ![f] = "socket"] /\ listen_fd' = f
        BY <2>5
      <3>2. \A g \in Fds \ {f} : fdtab'[g] = fdtab[g]
        BY <3>1 DEF TypeOK, KernelType
      <3>3. NoFdLeak'
        BY <2>3, <3>1, <3>2, NameAssumption DEF NoFdLeak
      <3> QED
        BY <2>2, <3>3
    <2> QED
      BY <1>18, <2>4, <2>5 DEF OpenSocket
  <1>19. ASSUME NEW t \in Control, OpenBind(t) PROVE NoFdLeak' /\ OpensClosed'
    <2>1. \A u \in Control : u = t
      BY DEF OneControl
    <2>2. OpensClosed'
      BY <1>19, <2>1 DEF OpenBind, OpenFail, IsSocket, CloseFds, OpensClosed, Goto, TypeOK, PcType, Threads, nodeVars
    <2>3. NoFdLeak'
      BY <1>19 DEF OpenBind, OpenFail, IsSocket, CloseFds, NoFdLeak, OpensClosed, TypeOK, NodeType, KernelType, nodeVars, kernVars
    <2> QED
      BY <2>2, <2>3
  <1>20. ASSUME NEW t \in Control, OpenListen(t) PROVE NoFdLeak' /\ OpensClosed'
    <2>1. \A u \in Control : u = t
      BY DEF OneControl
    <2>2. OpensClosed'
      BY <1>20, <2>1 DEF OpenListen, OpenFail, IsSocket, CloseFds, OpensClosed, Goto, TypeOK, PcType, Threads, nodeVars
    <2>3. NoFdLeak'
      BY <1>20 DEF OpenListen, OpenFail, IsSocket, CloseFds, NoFdLeak, OpensClosed, TypeOK, NodeType, KernelType, nodeVars, kernVars
    <2> QED
      BY <2>2, <2>3
  <1>21. ASSUME NEW t \in Control, CloseBegin(t) PROVE NoFdLeak' /\ OpensClosed'
    <2>1. \A u \in Control : u = t
      BY DEF OneControl
    <2>2. OpensClosed'
      BY <1>21, <2>1 DEF CloseBegin, OpensClosed, Goto, TypeOK, PcType, Threads, nodeVars
    <2>3. NoFdLeak'
      BY <1>21 DEF CloseBegin, NoFdLeak, OpensClosed, TypeOK, NodeType, KernelType, nodeVars, kernVars
    <2> QED
      BY <2>2, <2>3
  <1>22. ASSUME NEW t \in Control, CloseLock(t) PROVE NoFdLeak' /\ OpensClosed'
    <2>1. \A u \in Control : u = t
      BY DEF OneControl
    <2>2. OpensClosed'
      BY <1>22, <2>1 DEF CloseLock, OpensClosed, Goto, TypeOK, PcType, Threads, nodeVars
    <2>3. NoFdLeak'
      BY <1>22 DEF CloseLock, NoFdLeak, OpensClosed, TypeOK, NodeType, KernelType, nodeVars, kernVars
    <2> QED
      BY <2>2, <2>3
  <1>23. ASSUME NEW t \in Control, CloseDescriptors(t) PROVE NoFdLeak' /\ OpensClosed'
    <2>1. \A u \in Control : u = t
      BY DEF OneControl
    <2>2. OpensClosed'
      BY <1>23, <2>1 DEF CloseDescriptors, CloseFds, OpensClosed, Goto, TypeOK, PcType, Threads, nodeVars
    <2>3. NoFdLeak'
      BY <1>23 DEF CloseDescriptors, CloseFds, NoFdLeak, OpensClosed, TypeOK, NodeType, KernelType, nodeVars, kernVars
    <2> QED
      BY <2>2, <2>3
  <1>24. ASSUME NEW t \in Control, CloseFinish(t) PROVE NoFdLeak' /\ OpensClosed'
    <2>1. \A u \in Control : u = t
      BY DEF OneControl
    <2>2. OpensClosed'
      BY <1>24, <2>1 DEF CloseFinish, OpensClosed, Goto, TypeOK, PcType, Threads, nodeVars
    <2>3. NoFdLeak'
      BY <1>24 DEF CloseFinish, NoFdLeak, OpensClosed, TypeOK, NodeType, KernelType, nodeVars, kernVars
    <2> QED
      BY <2>2, <2>3
  <1>25. ASSUME NEW c \in Conns, ClientConnect(c) PROVE NoFdLeak' /\ OpensClosed'
    BY <1>25 DEF ClientConnect, NoFdLeak, OpensClosed, nodeVars
  <1>26. ASSUME NEW c \in Conns, ClientSend(c) PROVE NoFdLeak' /\ OpensClosed'
    BY <1>26 DEF ClientSend, NoFdLeak, OpensClosed, nodeVars
  <1>27. ASSUME NEW c \in Conns, ClientHangup(c) PROVE NoFdLeak' /\ OpensClosed'
    BY <1>27 DEF ClientHangup, NoFdLeak, OpensClosed, nodeVars
  <1>28. ASSUME NEW w \in Writers, WriteKilled(w) PROVE NoFdLeak' /\ OpensClosed'
    <2>1. PICK l \in {"idle"} \cup WritePc : Goto(w, l)
      BY <1>28 DEF WriteKilled, WritePc
    <2>2. OpensClosed'
      BY <1>28, <2>1, GotoWriter DEF WriteKilled, OpensClosed, TypeOK, nodeVars
    <2>3. NoFdLeak'
      BY <1>28 DEF WriteKilled, NoFdLeak, TypeOK, NodeType, KernelType, nodeVars, kernVars
    <2> QED
      BY <2>2, <2>3
  <1> QED
    BY <1>1, <1>2, <1>3, <1>4, <1>5, <1>6, <1>7, <1>8, <1>9, <1>10, <1>11, <1>12, <1>13, <1>14, <1>15, <1>16, <1>17, <1>18, <1>19, <1>20, <1>21, <1>22, <1>23, <1>24, <1>25, <1>26, <1>27, <1>28
    DEF Next, ReaderStep, WriterStep, OpenStep, CloseStep

\* If one thread opens and closes the node, then whatever the readers and the
\* writers do meanwhile, and whichever calls fail, no descriptor is leaked.
THEOREM NoLeakWithOneControl == OneControl => (Spec => []NoFdLeak)
  <1> SUFFICES ASSUME OneControl PROVE Spec => []NoFdLeak
    OBVIOUS
  <1> DEFINE LeakInv == TypeOK /\ NoFdLeak /\ OpensClosed
  <1>1. Init => LeakInv
    BY InitType DEF Init, NoFdLeak, OpensClosed, Threads
  <1>2. LeakInv /\ [Next]_vars => LeakInv'
    <2>1. ASSUME LeakInv, Next PROVE LeakInv'
      BY <2>1, TypeStep, LeakStep
    <2>2. ASSUME LeakInv, UNCHANGED vars PROVE LeakInv'
      <3>1. TypeOK'
        BY <2>2, TypeStutter
      <3>2. UNCHANGED <<pc, fdtab, client_fd, listen_fd>>
        BY <2>2 DEF vars, nodeVars, kernVars
      <3> QED
        BY <2>2, <3>1, <3>2 DEF NoFdLeak, OpensClosed
    <2> QED
      BY <2>1, <2>2
  <1>3. LeakInv => NoFdLeak
    OBVIOUS
  <1> HIDE DEF LeakInv
  <1> QED
    BY <1>1, <1>2, <1>3, PTL DEF Spec
=============================================================================
