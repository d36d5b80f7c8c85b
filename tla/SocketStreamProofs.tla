------------------------- MODULE SocketStreamProofs -------------------------
(* What callers and clients of a socket node see: lines, strings in order,  *)
(* the socket file; and that the node implements LineStream.  The           *)
(* invariants of SocketNodeProofs are used throughout.                      *)
EXTENDS SocketNodeProofs

ReaderMoves(r) == ReadBegin(r) \/ ReaderStep(r)
WriterMoves(w) == WriteBegin(w) \/ WriterStep(w)
ControlMoves(t) == OpenBegin(t) \/ OpenStep(t) \/ CloseBegin(t) \/ CloseStep(t)
ClientMoves(c) == ClientConnect(c) \/ ClientSend(c) \/ ClientHangup(c)

\* Every step is one of a reader, a writer, a control thread or a client.
LEMMA Movers ==
    Next => \/ \E r \in Readers : ReaderMoves(r)
            \/ \E w \in Writers : WriterMoves(w)
            \/ \E t \in Control : ControlMoves(t)
            \/ \E c \in Conns : ClientMoves(c)
  BY DEF Next, ReaderMoves, WriterMoves, ControlMoves, ClientMoves

\* What a reader leaves alone.
LEMMA ReaderFrame ==
    ASSUME TypeOK, NEW r \in Readers, ReaderMoves(r)
    PROVE  /\ UNCHANGED <<listen_fd, sock_path, used, hup, out, sockfile, msg, pos, closes, sent>>
           /\ torn => torn'
           /\ \A q \in Readers \ {r} : pc'[q] = pc[q] /\ nl'[q] = nl[q] /\ last'[q] = last[q]
           /\ \A w \in Writers : pc'[w] = pc[w]
           /\ \A t \in Control : pc'[t] = pc[t]
  <1>0. torn => torn'
    <2>1. CASE ReadBegin(r)
      BY <2>1, Zenon DEF ReadBegin
    <2>2. CASE ReaderStep(r)
      BY <2>2 DEF ReaderStep, ReadLock, ReadAccept, AcceptBlock, ReadScan, ReadTake, ReadCopy, ReadCall,
         ReadData, ReadNothing, ReadAppend, ReadEof, Return, histVars
    <2> QED
      BY <2>1, <2>2 DEF ReaderMoves
  <1>1. UNCHANGED <<listen_fd, sock_path, used, hup, out, sockfile, msg, pos, closes, sent>>
    BY DEF ReaderMoves, ReadBegin, ReaderStep, ReadLock, ReadAccept, AcceptBlock, ReadScan, ReadTake,
       ReadCopy, ReadCall, ReadData, ReadNothing, ReadAppend, ReadEof, Return, Accepted,
       nodeVars, kernVars, writeVars, histVars
  <1>2. PICK l \in {"idle"} \cup ReadPc : Goto(r, l)
    BY DEF ReaderMoves, ReadBegin, ReaderStep, ReadLock, ReadAccept, AcceptBlock, ReadScan, ReadTake,
       ReadCopy, ReadCall, ReadData, ReadNothing, ReadAppend, ReadEof, Return, ReadPc
  <1>3. \A q \in Readers \ {r} : nl'[q] = nl[q] /\ last'[q] = last[q]
    BY DEF ReaderMoves, ReadBegin, ReaderStep, ReadLock, ReadAccept, AcceptBlock, ReadScan, ReadTake,
       ReadCopy, ReadCall, ReadData, ReadNothing, ReadAppend, ReadEof, Return,
       readVars, histVars, TypeOK, ReadType, HistoryType
  <1> QED
    BY <1>0, <1>1, <1>2, <1>3, GotoReader DEF TypeOK

\* What a writer leaves alone.
LEMMA WriterFrame ==
    ASSUME TypeOK, NEW w \in Writers, WriterMoves(w)
    PROVE  /\ UNCHANGED <<listen_fd, read_buf, sock_path, used, inq, hup, sockfile, readVars, histVars>>
           /\ \A r \in Readers : pc'[r] = pc[r]
           /\ \A t \in Control : pc'[t] = pc[t]
  <1>1. UNCHANGED <<listen_fd, read_buf, sock_path, used, inq, hup, sockfile, readVars, histVars>>
    BY DEF WriterMoves, WriteBegin, WriterStep, WriteLock, WriteAccept, AcceptBlock, WriteSome,
       WriteFail, WriteKilled, nodeVars, kernVars
  <1>2. PICK l \in {"idle"} \cup WritePc : Goto(w, l)
    BY DEF WriterMoves, WriteBegin, WriterStep, WriteLock, WriteAccept, AcceptBlock, WriteSome,
       WriteFail, WriteKilled, WritePc
  <1> QED
    BY <1>1, <1>2, GotoWriter DEF TypeOK

\* What a thread that opens and closes leaves alone; only the last step of
\* close() touches the buffer.
LEMMA ControlFrame ==
    ASSUME TypeOK, NEW t \in Control, ControlMoves(t)
    PROVE  /\ UNCHANGED <<used, inq, hup, out, readVars, writeVars, sent, last>>
           /\ torn => torn'
           /\ pc[t] = "cl_buf" \/ UNCHANGED <<read_buf, rcvd>>
           /\ \A r \in Readers : pc'[r] = pc[r]
           /\ \A w \in Writers : pc'[w] = pc[w]
           /\ \A u \in Control \ {t} : pc'[u] = pc[u]
  <1>0. torn => torn'
    <2>1. CASE CloseLock(t)
      BY <2>1, Zenon DEF CloseLock
    <2>2. CASE ~CloseLock(t)
      BY <2>2 DEF ControlMoves, OpenBegin, OpenStep, OpenSocket, OpenBind, OpenListen, CloseBegin,
         CloseStep, CloseDescriptors, CloseFinish, histVars
    <2> QED
      BY <2>1, <2>2
  <1>1. /\ UNCHANGED <<used, inq, hup, out, readVars, writeVars, sent, last>>
        /\ pc[t] = "cl_buf" \/ UNCHANGED <<read_buf, rcvd>>
    BY DEF ControlMoves, OpenBegin, OpenStep, OpenSocket, OpenBind, OpenListen, CloseBegin, CloseStep,
       CloseLock, CloseDescriptors, CloseFinish, nodeVars, kernVars, histVars
  <1>2. PICK l \in {"idle"} \cup OpenPc \cup ClosePc : Goto(t, l)
    BY DEF ControlMoves, OpenBegin, OpenStep, OpenSocket, OpenBind, OpenListen, OpenFail, CloseBegin,
       CloseStep, CloseLock, CloseDescriptors, CloseFinish, OpenPc, ClosePc
  <1> QED
    BY <1>0, <1>1, <1>2, GotoControl DEF TypeOK

\* What a client leaves alone; it never takes back a hang-up.
LEMMA ClientFrame ==
    ASSUME TypeOK, NEW c \in Conns, ClientMoves(c)
    PROVE  /\ UNCHANGED <<nodeVars, fdtab, out, sockfile, pc, readVars, writeVars, closes, rcvd, last, torn>>
           /\ \A d \in Conns : (hup[d] => hup'[d] /\ inq'[d] = inq[d])
           /\ used \subseteq used'
  BY DEF ClientMoves, ClientConnect, ClientSend, ClientHangup, histVars, TypeOK, KernelType

-----------------------------------------------------------------------------
(* The current client.                                                      *)

\* do_accept() makes the oldest connection in the queue the current client.
LEMMA AcceptNames ==
    ASSUME TypeOK, Accepted
    PROVE  \E c \in Conns : Queued(c) /\ Current' = {c}
  <1>1. PICK f \in Fds : fdtab' = [fdtab EXCEPT ![f] = Head(backlog)] /\ client_fd' = f
    BY DEF Accepted
  <1>2. backlog \in Seq(Conns) /\ backlog # <<>>
    BY DEF Accepted, TypeOK, KernelType
  <1>3. Head(backlog) \in Conns /\ Queued(Head(backlog))
    BY <1>2 DEF Queued
  <1>4. fdtab'[client_fd'] = Head(backlog) /\ client_fd' # NoFd
    BY <1>1, NameAssumption DEF TypeOK, KernelType
  <1>5. Current' = {Head(backlog)}
    BY <1>3, <1>4 DEF Current
  <1> QED
    BY <1>3, <1>5

\* The current client changes only by an accept that finds none, or by a close.
LEMMA CurrentStep ==
    ASSUME TypeOK, FdInv, Next
    PROVE  \/ client_fd' = client_fd /\ Current' = Current
           \/ client_fd = NoFd /\ \E c \in Conns : Queued(c) /\ Current' = {c}
           \/ Current' = {} /\ \E t \in Control : CloseDescriptors(t)
  <1>1. ASSUME NEW r \in Readers, ReaderMoves(r)
        PROVE  \/ UNCHANGED <<client_fd, fdtab>>
               \/ client_fd = NoFd /\ Accepted
    BY <1>1 DEF ReaderMoves, ReadBegin, ReaderStep, ReadLock, ReadAccept, AcceptBlock, ReadScan, ReadTake,
       ReadCopy, ReadCall, ReadData, ReadNothing, ReadAppend, ReadEof, nodeVars, kernVars
  <1>2. ASSUME NEW w \in Writers, WriterMoves(w)
        PROVE  \/ UNCHANGED <<client_fd, fdtab>>
               \/ client_fd = NoFd /\ Accepted
    BY <1>2 DEF WriterMoves, WriteBegin, WriterStep, WriteLock, WriteAccept, AcceptBlock, WriteSome,
       WriteFail, WriteKilled, nodeVars, kernVars
  <1>3. ASSUME NEW t \in Control, ControlMoves(t)
        PROVE  \/ /\ client_fd' = client_fd
                  /\ client_fd # NoFd => fdtab'[client_fd] = fdtab[client_fd]
               \/ client_fd' = NoFd /\ CloseDescriptors(t)
    <2> USE DEF TypeOK, NodeType, KernelType
    <2>1. CASE OpenSocket(t)
      BY <2>1, NameAssumption DEF OpenSocket, FdInv, Plain
    <2>2. CASE OpenFail(t) /\ client_fd' = client_fd
      BY <2>2, NameAssumption DEF OpenFail, CloseFds, FdInv, Plain
    <2>3. CASE OpenBind(t)
      BY <2>2, <2>3 DEF OpenBind
    <2>4. CASE OpenListen(t)
      BY <2>2, <2>4, NameAssumption DEF OpenListen, IsSocket, FdInv, Plain
    <2>5. CASE OpenBegin(t) \/ CloseBegin(t) \/ CloseLock(t) \/ CloseFinish(t)
      BY <2>5 DEF OpenBegin, CloseBegin, CloseLock, CloseFinish, nodeVars, kernVars
    <2>6. CASE CloseDescriptors(t)
      BY <2>6 DEF CloseDescriptors
    <2> QED
      BY <1>3, <2>1, <2>3, <2>4, <2>5, <2>6 DEF ControlMoves, OpenStep, CloseStep
  <1>4. ASSUME NEW c \in Conns, ClientMoves(c)
        PROVE  UNCHANGED <<client_fd, fdtab>>
    BY <1>4, ClientFrame DEF nodeVars
  <1>5. ASSUME client_fd' = client_fd, client_fd # NoFd => fdtab'[client_fd] = fdtab[client_fd]
        PROVE  Current' = Current
    BY <1>5 DEF Current
  <1>6. client_fd' = NoFd => Current' = {}
    BY DEF Current
  <1> QED
    BY <1>1, <1>2, <1>3, <1>4, <1>5, <1>6, Movers, AcceptNames

\* There is at most one.
LEMMA OneCurrent ==
    /\ \A c, d \in Current : c = d
    /\ Current \subseteq Conns
    /\ FdInv /\ client_fd # NoFd => fdtab[client_fd] \in Current
  BY DEF Current, FdInv
-----------------------------------------------------------------------------
(* Lines.  A reader that takes has found the first newline of the buffer, and *)
(* one that reads on has found none; nobody comes between (AloneInv).       *)
NewlineFree == {"rd_copy", "rd_call", "rd_wait", "rd_eof"}
ScannedInv ==
    ~torn => \A r \in Readers :
        /\ pc[r] = "rd_take" => IsFirstNewline(read_buf, nl[r])
        /\ pc[r] \in NewlineFree => ~HasNewline(read_buf)

\* Without signals, a reader is at the end of file only if its client is.
EndInv ==
    (~torn /\ ~Interrupts) => \A r \in Readers :
        pc[r] = "rd_eof" => \A c \in Current : hup[c] /\ inq[c] = <<>>

\* A byte knows the connection it was sent on.
SentInv == \A c \in Conns : \A i \in 1..Len(sent[c]) : sent[c][i].from = c

LineInv == ScannedInv /\ EndInv /\ SentInv /\ ReturnsOneLine

\* What holds of one reader.
Scanned(r) ==
    /\ pc[r] = "rd_take" => IsFirstNewline(read_buf, nl[r])
    /\ pc[r] \in NewlineFree => ~HasNewline(read_buf)
AtEnd(r) ==
    ~Interrupts => (pc[r] = "rd_eof" => \A c \in Current : hup[c] /\ inq[c] = <<>>)
OneLine(s) ==
    /\ \A i \in 1..(Len(s) - 1) : ~s[i].nl
    /\ s # <<>> => s[Len(s)].nl \/ hup[s[Len(s)].from]

\* The parts of LineInv, reader by reader.
LEMMA PerReader ==
    (ScannedInv /\ EndInv /\ ReturnsOneLine)
        <=> (~torn => \A r \in Readers : /\ Scanned(r) /\ AtEnd(r)
                                         /\ ~Interrupts => OneLine(last[r]))
  BY DEF ScannedInv, EndInv, ReturnsOneLine, Scanned, AtEnd, OneLine

\* A part of a concatenation is found in the whole.
LEMMA Middle ==
    ASSUME NEW S, NEW a \in Seq(S), NEW b \in Seq(S), NEW d \in Seq(S), NEW i \in 1..Len(b)
    PROVE  /\ Len(a) + i \in 1..Len(a \o b \o d)
           /\ (a \o b \o d)[Len(a) + i] = b[i]
  <1>1. a \o b \in Seq(S) /\ Len(a \o b) = Len(a) + Len(b)
    OBVIOUS
  <1>2. Len(a \o b \o d) = Len(a) + Len(b) + Len(d)
    BY <1>1
  <1>3. (a \o b)[Len(a) + i] = b[i]
    OBVIOUS
  <1>4. (a \o b \o d)[Len(a) + i] = (a \o b)[Len(a) + i]
    BY <1>1
  <1> QED
    BY <1>2, <1>3, <1>4

\* While calls do not overlap, all that is buffered came from the current client.
LEMMA BufferedFromCurrent ==
    ASSUME FlowInv, SentInv, ~torn, NEW c \in Current, \A r \in Readers : pc[r] # "rd_append",
           NEW i \in 1..Len(read_buf)
    PROVE  read_buf[i].from = c
  <1>1. c \in Conns /\ rcvd \in Seq(Byte) /\ read_buf \in Seq(Byte) /\ inq[c] \in Seq(Byte)
    BY OneCurrent DEF FlowInv, TypeOK, NodeType, KernelType, HistoryType
  <1>2. rcvd \o read_buf \o inq[c] = sent[c]
    BY DEF FlowInv, ByteConservation
  <1>3. PICK a, b, d : a = rcvd /\ b = read_buf /\ d = inq[c]
    OBVIOUS
  <1>5. /\ Len(a) + i \in 1..Len(a \o b \o d)
        /\ (a \o b \o d)[Len(a) + i] = b[i]
    <2>1. a \in Seq(Byte) /\ b \in Seq(Byte) /\ d \in Seq(Byte) /\ i \in 1..Len(b)
      BY <1>1, <1>3
    <2> QED
      BY ONLY <2>1, Middle
  <1>4. Len(rcvd) + i \in 1..Len(sent[c]) /\ sent[c][Len(rcvd) + i] = read_buf[i]
    BY <1>2, <1>3, <1>5
  <1> QED
    BY <1>1, <1>4 DEF SentInv

\* A line that was returned stays one when its client hangs up.
LEMMA LineStays ==
    ASSUME \A c \in Conns : hup[c] => hup'[c], NEW s \in Seq(Byte), OneLine(s)
    PROVE  OneLine(s)'
  <1>1. s # <<>> => s[Len(s)].from \in Conns
    <2>1. s # <<>> => s[Len(s)] \in Byte
      OBVIOUS
    <2> QED
      BY <2>1 DEF Byte
  <1> QED
    BY <1>1 DEF OneLine

\* Bytes keep the connection they were sent on.
LEMMA SentStep ==
    ASSUME TypeOK, SentInv, Next
    PROVE  SentInv'
  <1>1. ASSUME NEW c \in Conns, ClientSend(c) PROVE SentInv'
    <2>1. PICK b : /\ b.from = c
                   /\ sent' = [sent EXCEPT ![c] = Append(@, b)]
      BY <1>1 DEF ClientSend
    <2>2. \A d \in Conns : sent'[d] = IF d = c THEN Append(sent[c], b) ELSE sent[d]
      BY <2>1 DEF TypeOK, HistoryType
    <2>3. sent[c] \in Seq(Byte)
      BY DEF TypeOK, HistoryType
    <2>4. /\ Len(Append(sent[c], b)) = Len(sent[c]) + 1
          /\ \A i \in 1..Len(sent[c]) : Append(sent[c], b)[i] = sent[c][i]
          /\ Append(sent[c], b)[Len(sent[c]) + 1] = b
      BY <2>3
    <2>5. \A i \in 1..Len(sent'[c]) : sent'[c][i].from = c
      BY <2>1, <2>2, <2>3, <2>4 DEF SentInv
    <2> QED
      BY <2>2, <2>5 DEF SentInv
  <1>2. sent' = sent => SentInv'
    BY DEF SentInv
  <1>3. ASSUME NEW c \in Conns, ClientMoves(c), ~ClientSend(c) PROVE sent' = sent
    BY <1>3 DEF ClientMoves, ClientConnect, ClientHangup, histVars
  <1> QED
    BY <1>1, <1>2, <1>3, Movers, ReaderFrame, WriterFrame, ControlFrame DEF histVars

\* A step of anybody but a reader keeps the lines: it leaves the readers and,
\* unless none is inside do_read(), the buffer alone.
LEMMA OthersKeepLines ==
    ASSUME FlowInv, LineInv, Next, ~torn, UNCHANGED <<nl, last>>,
           \A r \in Readers : pc'[r] = pc[r],
           \A d \in Conns : hup[d] => hup'[d] /\ inq'[d] = inq[d],
           read_buf' = read_buf \/ \A r \in Readers : pc[r] = "idle",
           NEW r \in Readers
    PROVE  Scanned(r)' /\ AtEnd(r)' /\ (~Interrupts => OneLine(last[r])')
  <1>0. Scanned(r) /\ AtEnd(r) /\ (~Interrupts => OneLine(last[r]))
    BY PerReader DEF LineInv
  <1>1. Scanned(r)'
    BY <1>0 DEF Scanned, NewlineFree
  <1>2. AtEnd(r)'
    <2>1. pc[r] = "rd_eof" => client_fd # NoFd
      BY DEF FlowInv, AloneInv, HasClient, Connected
    <2>2. pc[r] = "rd_eof" => Current' \subseteq Current
      BY <2>1, CurrentStep DEF FlowInv
    <2> QED
      BY <1>0, <2>2, OneCurrent DEF AtEnd
  <1>3. ASSUME ~Interrupts PROVE OneLine(last[r])'
    <2>1. PICK s : s = last[r]
      OBVIOUS
    <2>2. s \in Seq(Byte)
      BY <2>1 DEF FlowInv, TypeOK, HistoryType
    <2>3. OneLine(s)
      BY <1>0, <1>3, <2>1
    <2>4. OneLine(s)'
      BY <2>2, <2>3, LineStays
    <2> QED
      BY <2>1, <2>4
  <1> QED
    BY <1>1, <1>2, <1>3

\* What a step of a reader comes to, once it is known to be the only one.
LEMMA ReaderKeepsLines ==
    ASSUME FlowInv, LineInv, NEW r \in Readers, ReaderMoves(r), ~torn, ~torn'
    PROVE  \A q \in Readers : Scanned(q)' /\ AtEnd(q)' /\ (~Interrupts => OneLine(last[q])')
  <1>0. /\ \A q \in Readers : Scanned(q) /\ AtEnd(q) /\ (~Interrupts => OneLine(last[q]))
        /\ TypeOK
    BY PerReader DEF LineInv, FlowInv
  <1>1. \A q \in Readers \ {r} : pc[q] = "idle" /\ pc'[q] = "idle" /\ last'[q] = last[q]
    <2>1. CASE ReadBegin(r)
      <3>1. torn' = \/ torn
                    \/ \E q \in Readers : q # r /\ pc[q] # "idle"
                    \/ \E t \in Control : pc[t] \in CloseBody
        BY <2>1 DEF ReadBegin
      <3>2. \A q \in Readers : ~(q # r /\ pc[q] # "idle")
        BY <3>1, Zenon
      <3> QED
        BY <1>0, <3>2, ReaderFrame
    <2>2. CASE ReaderStep(r)
      <3>1. pc[r] # "idle"
        BY <2>2 DEF ReaderStep, ReadLock, ReadAccept, ReadScan, ReadTake, ReadCopy, ReadCall, ReadData,
           ReadNothing, ReadAppend, ReadEof
      <3> QED
        BY <1>0, <3>1, ReaderFrame DEF FlowInv, AloneInv, OneReader
    <2> QED
      BY <2>1, <2>2 DEF ReaderMoves
  <1>2. hup' = hup
    BY <1>0, ReaderFrame
  <1>3. \A q \in Readers \ {r} : Scanned(q)' /\ AtEnd(q)' /\ (~Interrupts => OneLine(last[q])')
    BY <1>0, <1>1, <1>2 DEF Scanned, AtEnd, OneLine, NewlineFree
  <1> SUFFICES Scanned(r)' /\ AtEnd(r)' /\ (~Interrupts => OneLine(last[r])')
    BY <1>3
  <1>5. last' = last => (~Interrupts => OneLine(last[r])')
    BY <1>0, <1>2 DEF OneLine
  <1>6. ASSUME last' = last, pc'[r] \notin NewlineFree \cup {"rd_take"}
        PROVE  Scanned(r)' /\ AtEnd(r)' /\ (~Interrupts => OneLine(last[r])')
    BY <1>5, <1>6 DEF Scanned, AtEnd, NewlineFree
  <1>7. CASE \/ ReadBegin(r) \/ ReadLock(r) \/ ReadAccept(r) \/ ReadAppend(r)
    <2>1. last' = last
      BY <1>7 DEF ReadBegin, ReadLock, ReadAccept, AcceptBlock, ReadAppend, histVars
    <2>2. pc'[r] \in {"rd_lock", "rd_scan", "rd_accept", "idle"}
      BY <1>0, <1>7 DEF ReadBegin, ReadLock, ReadAccept, AcceptBlock, ReadAppend, Goto, TypeOK, PcType, Threads
    <2> QED
      BY <1>6, <2>1, <2>2 DEF NewlineFree
  <1>8. CASE ReadScan(r)
    <2>1. last' = last /\ read_buf' = read_buf /\ pc'[r] \in {"rd_take", "rd_copy"}
      BY <1>0, <1>8 DEF ReadScan, Goto, TypeOK, PcType, Threads, histVars, nodeVars
    <2>2. Scanned(r)'
      BY <1>0, <1>8 DEF ReadScan, Goto, TypeOK, PcType, ReadType, Threads, nodeVars, Scanned, NewlineFree
    <2> QED
      BY <1>5, <2>1, <2>2 DEF AtEnd
  <1>9. CASE ReadCopy(r) \/ ReadCall(r) \/ ReadData(r) \/ ReadNothing(r)
    <2>1. read_buf' = read_buf /\ pc[r] \in {"rd_copy", "rd_call", "rd_wait"}
      BY <1>9 DEF ReadCopy, ReadCall, ReadData, ReadNothing, nodeVars
    <2>2. ~HasNewline(read_buf)
      BY <1>0, <2>1 DEF Scanned, NewlineFree
    <2>3. pc'[r] # "rd_take"
      BY <1>0, <1>9 DEF ReadCopy, ReadCall, ReadData, ReadNothing, Return, Goto, TypeOK, PcType, Threads
    <2>4. Scanned(r)'
      BY <2>1, <2>2, <2>3 DEF Scanned, HasNewline
    <2>5. client_fd # NoFd /\ fdtab[client_fd] \in Conns
      BY <1>1, <2>1 DEF FlowInv, AloneInv, HasClient, Connected, FdInv
    <2>6. last' = last
      BY <1>9, <2>5 DEF ReadCopy, ReadCall, ReadData, ReadNothing, histVars
    <2>7. AtEnd(r)'
      <3>1. CASE ReadNothing(r)
        <4>1. src[r] = fdtab[client_fd]
          BY <3>1 DEF ReadNothing, FlowInv, AloneInv, ReadsClient
        <4>2. \A c \in Current : c = src[r]
          BY <4>1 DEF Current
        <4>3. ~Interrupts => hup[src[r]] /\ inq[src[r]] = <<>>
          BY <3>1 DEF ReadNothing
        <4>4. UNCHANGED <<inq, hup, fdtab, client_fd>>
          BY <3>1 DEF ReadNothing, nodeVars, kernVars
        <4> QED
          BY <4>2, <4>3, <4>4 DEF AtEnd, Current
      <3>2. CASE ReadCall(r)
        <4>1. cfd[r] = client_fd
          BY <3>2 DEF ReadCall, FlowInv, AloneInv, ReadsClient
        <4>2. Goto(r, "rd_wait")
          BY <2>5, <3>2, <4>1 DEF ReadCall
        <4> QED
          BY <1>0, <4>2 DEF Goto, TypeOK, PcType, Threads, AtEnd
      <3>3. CASE ReadCopy(r) \/ ReadData(r)
        <4>1. pc'[r] # "rd_eof"
          BY <1>0, <3>3 DEF ReadCopy, ReadData, Return, Goto, TypeOK, PcType, Threads
        <4> QED
          BY <4>1 DEF AtEnd
      <3> QED
        BY <1>9, <3>1, <3>2, <3>3
    <2> QED
      BY <1>5, <2>4, <2>6, <2>7
  <1>10. CASE ReadTake(r) \/ ReadEof(r)
    <2>1. pc'[r] = "idle"
      BY <1>0, <1>10 DEF ReadTake, ReadEof, Return, Goto, TypeOK, PcType, Threads
    <2>2. Scanned(r)' /\ AtEnd(r)'
      BY <2>1 DEF Scanned, AtEnd, NewlineFree
    <2>3. PICK s : s = last'[r]
      OBVIOUS
    <2>4. CASE ReadTake(r)
      <3>1. IsFirstNewline(read_buf, nl[r]) /\ read_buf \in Seq(Byte)
        BY <1>0, <2>4 DEF ReadTake, Scanned, TypeOK, NodeType
      <3>2. s = Prefix(read_buf, nl[r])
        BY <1>0, <2>3, <2>4 DEF ReadTake, Return, TypeOK, HistoryType
      <3>3. PICK n, q : n = nl[r] /\ q = read_buf
        OBVIOUS
      <3>4. q \in Seq(Byte) /\ n \in 1..Len(q) /\ q[n].nl /\ \A j \in 1..(n - 1) : ~q[j].nl
        BY <3>1, <3>3 DEF IsFirstNewline
      <3>5. s = SubSeq(q, 1, n)
        BY <3>2, <3>3, <3>4 DEF Prefix
      <3>6. Len(s) = n /\ \A i \in 1..n : s[i] = q[i]
        BY <3>4, <3>5
      <3> QED
        BY <2>2, <2>3, <3>4, <3>6 DEF OneLine
    <2>5. CASE ReadEof(r)
      <3>1. pc[r] = "rd_eof" /\ s = read_buf /\ read_buf \in Seq(Byte)
        BY <1>0, <2>3, <2>5 DEF ReadEof, Return, TypeOK, HistoryType, NodeType
      <3>2. ~HasNewline(read_buf)
        BY <1>0, <3>1 DEF Scanned, NewlineFree
      <3>3. \A i \in 1..Len(s) : ~s[i].nl
        BY <3>1, <3>2 DEF HasNewline
      <3>4. client_fd # NoFd
        BY <3>1 DEF FlowInv, AloneInv, HasClient, Connected
      <3>5. PICK c \in Current : TRUE
        BY <3>4, OneCurrent DEF FlowInv
      <3>6. \A q \in Readers : pc[q] # "rd_append"
        BY <1>1, <3>1
      <3>7. \A i \in 1..Len(s) : s[i].from = c
        BY <3>1, <3>6, BufferedFromCurrent DEF LineInv
      <3>8. ~Interrupts => hup[c]
        BY <1>0, <3>1 DEF AtEnd
      <3>9. s # <<>> => Len(s) \in 1..Len(s)
        BY <3>1
      <3> QED
        BY <1>2, <2>2, <2>3, <3>1, <3>3, <3>7, <3>8, <3>9 DEF OneLine
    <2> QED
      BY <1>10, <2>4, <2>5
  <1> QED
    BY <1>7, <1>8, <1>9, <1>10 DEF ReaderMoves, ReaderStep

\* Every step keeps LineInv.
LEMMA LineStep ==
    ASSUME FlowInv, LineInv, Next
    PROVE  LineInv'
  <1>0. TypeOK
    BY DEF FlowInv
  <1>1. SentInv'
    BY <1>0, SentStep DEF LineInv
  <1>2. torn => torn'
    BY <1>0, Movers, ReaderFrame, WriterFrame, ControlFrame, ClientFrame DEF histVars
  <1>3. ASSUME ~torn'
        PROVE  \A r \in Readers : Scanned(r)' /\ AtEnd(r)' /\ (~Interrupts => OneLine(last[r])')
    <2>0. ~torn
      BY <1>2, <1>3
    <2>1. CASE \E r \in Readers : ReaderMoves(r)
      BY <1>3, <2>0, <2>1, ReaderKeepsLines
    <2>2. CASE \E w \in Writers : WriterMoves(w)
      <3>1. /\ UNCHANGED <<nl, last, hup, inq, read_buf>>
            /\ \A r \in Readers : pc'[r] = pc[r]
        BY <1>0, <2>2, WriterFrame DEF readVars, histVars
      <3> QED
        BY <2>0, <3>1, OthersKeepLines
    <2>3. CASE \E t \in Control : ControlMoves(t)
      <3>1. PICK t \in Control : ControlMoves(t)
        BY <2>3
      <3>2. /\ UNCHANGED <<nl, last, hup, inq>>
            /\ \A r \in Readers : pc'[r] = pc[r]
            /\ pc[t] = "cl_buf" \/ read_buf' = read_buf
        BY <1>0, <3>1, ControlFrame DEF readVars, histVars
      <3>3. pc[t] = "cl_buf" => \A r \in Readers : pc[r] = "idle"
        BY <2>0 DEF FlowInv, AloneInv, ClosesAlone, CloseBody
      <3> QED
        BY <2>0, <3>2, <3>3, OthersKeepLines
    <2>4. CASE \E c \in Conns : ClientMoves(c)
      <3>1. /\ UNCHANGED <<nl, last, read_buf, pc>>
            /\ \A d \in Conns : hup[d] => hup'[d] /\ inq'[d] = inq[d]
        BY <1>0, <2>4, ClientFrame DEF readVars, nodeVars
      <3> QED
        BY <2>0, <3>1, OthersKeepLines
    <2> QED
      BY <2>1, <2>2, <2>3, <2>4, Movers
  <1>4. (ScannedInv /\ EndInv /\ ReturnsOneLine)'
    BY <1>3 DEF ScannedInv, EndInv, ReturnsOneLine, Scanned, AtEnd, OneLine
  <1> QED
    BY <1>1, <1>4 DEF LineInv

\* The inductive invariant behind ReturnsOneLine and the refinement.
StreamInv == FlowInv /\ LineInv

\* It holds at first and every step keeps it.
LEMMA StreamInvariant ==
    /\ Init => StreamInv
    /\ StreamInv /\ [Next]_vars => StreamInv'
  <1>1. ASSUME Init PROVE LineInv
    <2>1. /\ \A r \in Readers : pc[r] = "idle" /\ last[r] = <<>>
          /\ \A c \in Conns : sent[c] = <<>>
      BY <1>1 DEF Init, Threads
    <2>2. ScannedInv /\ EndInv
      BY <2>1 DEF ScannedInv, EndInv, NewlineFree
    <2>3. ReturnsOneLine
      BY <2>1 DEF ReturnsOneLine
    <2> QED
      BY <2>1, <2>2, <2>3 DEF LineInv, SentInv
  <1>2. ASSUME StreamInv, Next PROVE StreamInv'
    BY <1>2, LineStep, TypeStep, LockStep, FdStep, QueueStep, AloneStep, ClosedStep, FlowStep
    DEF StreamInv, FlowInv
  <1>3. ASSUME StreamInv, UNCHANGED vars PROVE StreamInv'
    <2>1. FlowInv'
      BY <1>3, FlowStutter DEF StreamInv
    <2>2. UNCHANGED <<pc, read_buf, nl, torn, fdtab, client_fd, hup, inq, sent, last>>
      BY <1>3 DEF vars, nodeVars, kernVars, readVars, histVars
    <2>3. LineInv'
      BY <1>3, <2>2 DEF StreamInv, LineInv, ScannedInv, EndInv, SentInv, ReturnsOneLine, Current
    <2> QED
      BY <2>1, <2>3 DEF StreamInv
  <1> QED
    BY <1>1, <1>2, <1>3, FlowInit DEF StreamInv

\* Whatever the number of threads, clients and bytes: while do_read() overlaps
\* neither another do_read() nor a close(), and no signal interrupts it, what
\* it returns is one line, whole unless its client has hung up.
THEOREM LinesReturned == Spec => []ReturnsOneLine
  <1>1. StreamInv => ReturnsOneLine
    BY DEF StreamInv, LineInv
  <1> QED
    BY StreamInvariant, <1>1, PTL DEF Spec

\* Under the same condition, signals or not, a reader that blocks has nothing to
\* return, and blocks on the client of the node.
THEOREM BlockedForRest == Spec => []BlocksForRest
  <1>1. StreamInv => BlocksForRest
    <2> SUFFICES ASSUME StreamInv, ~torn, NEW r \in Readers, pc[r] = "rd_wait"
                 PROVE  src[r] \in Current /\ ~HasNewline(read_buf)
      BY DEF BlocksForRest
    <2>1. src[r] = fdtab[client_fd] /\ client_fd # NoFd
      BY DEF StreamInv, FlowInv, AloneInv, HasClient, ReadsClient, Connected
    <2>2. fdtab[client_fd] \in Current
      BY <2>1, OneCurrent DEF StreamInv, FlowInv
    <2>3. ~HasNewline(read_buf)
      BY DEF StreamInv, LineInv, ScannedInv, NewlineFree
    <2> QED
      BY <2>1, <2>2, <2>3
  <1> QED
    BY StreamInvariant, <1>1, PTL DEF Spec

-----------------------------------------------------------------------------
(* The refinement.  With one reader, no close() and no signals, nothing ever *)
(* overlaps, and the node is a LineStream of its first client.              *)
OneConversation ==
    /\ MaxCloses = 0
    /\ ~Interrupts
    /\ \A r, q \in Readers : r = q

QuietInv == ~torn /\ \A t \in Control : pc[t] \notin ClosePc

\* In such a conversation calls do not overlap.
LEMMA QuietStep ==
    ASSUME TypeOK, OneConversation, QuietInv, Next
    PROVE  QuietInv'
  <1>1. ASSUME NEW r \in Readers, ReaderMoves(r) PROVE QuietInv'
    <2>1. ~torn'
      <3>1. CASE ReadBegin(r)
        <4>1. torn' = \/ torn
                      \/ \E q \in Readers : q # r /\ pc[q] # "idle"
                      \/ \E t \in Control : pc[t] \in CloseBody
          BY <3>1 DEF ReadBegin
        <4>2. ~\E q \in Readers : q # r /\ pc[q] # "idle"
          BY DEF OneConversation
        <4>3. ~\E t \in Control : pc[t] \in CloseBody
          BY DEF QuietInv, CloseBody, ClosePc
        <4> QED
          BY <4>1, <4>2, <4>3, Zenon DEF QuietInv
      <3>2. CASE ReaderStep(r)
        BY <3>2 DEF QuietInv, ReaderStep, ReadLock, ReadAccept, AcceptBlock, ReadScan, ReadTake,
           ReadCopy, ReadCall, ReadData, ReadNothing, ReadAppend, ReadEof, Return, histVars
      <3> QED
        BY <1>1, <3>1, <3>2 DEF ReaderMoves
    <2> QED
      BY <1>1, <2>1, ReaderFrame DEF QuietInv
  <1>2. ASSUME NEW w \in Writers, WriterMoves(w) PROVE QuietInv'
    BY <1>2, WriterFrame DEF QuietInv, histVars
  <1>3. ASSUME NEW t \in Control, ControlMoves(t) PROVE QuietInv'
    <2>1. ~CloseBegin(t)
      BY DEF CloseBegin, OneConversation, TypeOK, HistoryType
    <2>2. OpenBegin(t) \/ OpenStep(t)
      BY <1>3, <2>1 DEF ControlMoves, CloseStep, CloseLock, CloseDescriptors, CloseFinish, QuietInv, ClosePc
    <2>3. torn' = torn
      BY <2>2 DEF OpenBegin, OpenStep, OpenSocket, OpenBind, OpenListen, histVars
    <2>4. pc'[t] \notin ClosePc
      BY <2>2 DEF OpenBegin, OpenStep, OpenSocket, OpenBind, OpenListen, OpenFail, Goto, ClosePc,
         TypeOK, PcType, Threads
    <2> QED
      BY <1>3, <2>3, <2>4, ControlFrame DEF QuietInv
  <1>4. ASSUME NEW c \in Conns, ClientMoves(c) PROVE QuietInv'
    BY <1>4, ClientFrame DEF QuietInv
  <1> QED
    BY <1>1, <1>2, <1>3, <1>4, Movers

\* The stream up to now, in the terms of LineStream.
Arrived == IF Current = {} THEN <<>> ELSE sent[Conversation]
Over == Current # {} /\ hup[Conversation]

\* The only member of Current is the conversation.
LEMMA TheConversation ==
    ASSUME NEW c \in Current
    PROVE  Conversation = c /\ Current = {c}
  BY OneCurrent DEF Conversation

\* A connection that is accepted is what arrives first.
LEMMA AcceptArrives ==
    ASSUME StreamInv, Current = {}, NEW c \in Conns, Current' = {c}, rcvd' = rcvd, TypeOK'
    PROVE  Stream!Arrive
  <1>1. Conversation' = c
    BY DEF Conversation
  <1>2. Arrived = <<>> /\ Arrived' = sent'[c]
    BY <1>1 DEF Arrived
  <1>3. ~Over /\ Over' \in BOOLEAN
    BY DEF Over
  <1>4. sent'[c] \in Seq(Byte)
    BY DEF TypeOK, HistoryType
  <1>5. Len(sent'[c]) >= 0 /\ SubSeq(sent'[c], 1, 0) = <<>>
    BY <1>4
  <1>6. /\ Len(Arrived') >= Len(Arrived)
        /\ SubSeq(Arrived', 1, Len(Arrived)) = Arrived
    BY <1>2, <1>5
  <1> QED
    BY <1>3, <1>6 DEF Stream!Arrive, Arrived, Over

\* Without an accept the abstract state follows the client and the caller.
LEMMA SameConversation ==
    ASSUME Current' = Current
    PROVE  /\ Conversation' = Conversation
           /\ Arrived' = IF Current = {} THEN <<>> ELSE sent'[Conversation]
           /\ Over' <=> (Current # {} /\ hup'[Conversation])
  BY DEF Conversation, Arrived, Over

\* What a client does is an arrival, or nothing to the stream.
LEMMA ClientArrives ==
    ASSUME TypeOK, NEW c \in Conns, ClientMoves(c), Current' = Current
    PROVE  Stream!Arrive \/ UNCHANGED Stream!vars
  <1>1. rcvd' = rcvd
    BY ClientFrame
  <1>2. CASE Current = {} \/ Conversation # c \/ ClientConnect(c)
    <2>1. Arrived' = Arrived /\ Over' = Over
      <3>1. Current = {} \/ (sent'[Conversation] = sent[Conversation] /\ hup'[Conversation] = hup[Conversation])
        <4>1. Current = {} \/ Conversation \in Conns
          BY TheConversation, OneCurrent
        <4> QED
          BY <1>2, <4>1 DEF ClientMoves, ClientConnect, ClientSend, ClientHangup, histVars, TypeOK,
             KernelType, HistoryType
      <3> QED
        BY <3>1, SameConversation DEF Arrived, Over
    <2> QED
      BY <1>1, <2>1 DEF Stream!vars, Arrived, Over
  <1>3. CASE Current # {} /\ Conversation = c /\ ~ClientConnect(c)
    <2>1. Arrived = sent[c] /\ Arrived' = sent'[c] /\ ~Over /\ Over' \in BOOLEAN
      BY <1>3, SameConversation DEF Arrived, Over, ClientMoves, ClientSend, ClientHangup
    <2>2. sent[c] \in Seq(Byte)
      BY DEF TypeOK, HistoryType
    <2>3. \/ sent'[c] = sent[c]
          \/ \E b : sent'[c] = Append(sent[c], b)
      BY <1>3 DEF ClientMoves, ClientSend, ClientHangup, histVars, TypeOK, HistoryType
    <2>4. Len(sent'[c]) >= Len(sent[c]) /\ SubSeq(sent'[c], 1, Len(sent[c])) = sent[c]
      <3>1. PICK q : q = sent[c]
        OBVIOUS
      <3>2. \A b : Len(Append(q, b)) >= Len(q) /\ SubSeq(Append(q, b), 1, Len(q)) = q
        BY <2>2, <3>1
      <3>3. Len(q) >= Len(q) /\ SubSeq(q, 1, Len(q)) = q
        BY <2>2, <3>1
      <3> QED
        BY <2>3, <3>1, <3>2, <3>3
    <2> QED
      BY <1>1, <2>1, <2>4 DEF Stream!Arrive, Arrived, Over
  <1> QED
    BY <1>2, <1>3

\* ReadTake hands over the next line.
LEMMA TakeIsLine ==
    ASSUME StreamInv, ~torn, NEW r \in Readers, ReadTake(r), Current' = Current
    PROVE  Stream!TakeLine
  <1>1. PICK c \in Current : TRUE
    BY OneCurrent DEF StreamInv, FlowInv, AloneInv, HasClient, Connected, ReadTake
  <1>2. c \in Conns /\ Conversation = c /\ Current = {c}
    BY TheConversation, OneCurrent
  <1>3. \A q \in Readers : pc[q] # "rd_append"
    BY DEF StreamInv, FlowInv, AloneInv, OneReader, ReadTake
  <1>4. PICK a, b, d, s, n : a = rcvd /\ b = read_buf /\ d = inq[c] /\ s = sent[c] /\ n = nl[r]
    OBVIOUS
  <1>5. a \in Seq(Byte) /\ b \in Seq(Byte) /\ d \in Seq(Byte) /\ a \o b \o d = s
    BY <1>2, <1>3, <1>4
    DEF StreamInv, FlowInv, ByteConservation, TypeOK, NodeType, KernelType, HistoryType
  <1>14. a \in Seq(Byte) /\ b \in Seq(Byte) /\ d \in Seq(Byte)
    BY <1>5
  <1>6. n \in 1..Len(b) /\ b[n].nl /\ \A j \in 1..(n - 1) : ~b[j].nl
    <2>1. IsFirstNewline(b, n)
      BY <1>4 DEF StreamInv, LineInv, ScannedInv, ReadTake
    <2> QED
      BY <1>5, <2>1 DEF IsFirstNewline
  <1>7. \A i \in 1..Len(b) : Len(a) + i \in 1..Len(s) /\ s[Len(a) + i] = b[i]
    <2>1. \A i \in 1..Len(b) : /\ Len(a) + i \in 1..Len(a \o b \o d)
                              /\ (a \o b \o d)[Len(a) + i] = b[i]
      BY ONLY <1>14, Middle
    <2> QED
      BY <1>5, <2>1
  <1>8. rcvd' = a \o SubSeq(b, 1, n)
    BY <1>4, <1>5, <1>6 DEF ReadTake, Return, Prefix
  <1>9. a \o SubSeq(b, 1, n) = SubSeq(s, 1, Len(a) + n)
    <2>0. /\ a \o b \in Seq(Byte) /\ Len(a \o b) = Len(a) + Len(b)
          /\ \A i \in 1..Len(a) : (a \o b)[i] = a[i]
      BY ONLY <1>5
    <2>1. s \in Seq(Byte) /\ Len(s) = Len(a) + Len(b) + Len(d)
      <3>1. (a \o b) \o d \in Seq(Byte) /\ Len((a \o b) \o d) = Len(a \o b) + Len(d)
        BY ONLY <1>14, <2>0
      <3> QED
        BY <1>5, <2>0, <3>1
    <2>2. \A i \in 1..Len(a) : s[i] = a[i]
      <3>1. \A i \in 1..Len(a) : ((a \o b) \o d)[i] = (a \o b)[i]
        BY ONLY <1>14, <2>0
      <3> QED
        BY <1>5, <2>0, <3>1
    <2>3. Len(a \o SubSeq(b, 1, n)) = Len(a) + n /\ Len(SubSeq(s, 1, Len(a) + n)) = Len(a) + n
      BY ONLY <1>5, <1>6, <2>1
    <2>4. \A i \in 1..(Len(a) + n) : (a \o SubSeq(b, 1, n))[i] = SubSeq(s, 1, Len(a) + n)[i]
      <3> SUFFICES ASSUME NEW i \in 1..(Len(a) + n)
                   PROVE  (a \o SubSeq(b, 1, n))[i] = SubSeq(s, 1, Len(a) + n)[i]
        OBVIOUS
      <3>0. SubSeq(s, 1, Len(a) + n)[i] = s[i]
        BY ONLY <1>5, <1>6, <2>1, i \in 1..(Len(a) + n)
      <3>1. CASE i \in 1..Len(a)
        BY ONLY <1>5, <1>6, <2>2, <3>0, <3>1
      <3>2. CASE i - Len(a) \in 1..n
        <4>1. (a \o SubSeq(b, 1, n))[i] = SubSeq(b, 1, n)[i - Len(a)]
          BY ONLY <1>5, <1>6, <3>2
        <4>2. SubSeq(b, 1, n)[i - Len(a)] = b[i - Len(a)]
          BY ONLY <1>5, <1>6, <3>2
        <4>3. s[Len(a) + (i - Len(a))] = b[i - Len(a)]
          BY ONLY <1>6, <1>7, <3>2
        <4>4. Len(a) + (i - Len(a)) = i
          BY ONLY <1>5, i \in 1..(Len(a) + n)
        <4> QED
          BY <3>0, <4>1, <4>2, <4>3, <4>4
      <3> QED
        BY <1>5, <1>6, <3>1, <3>2
    <2>5. a \o SubSeq(b, 1, n) \in Seq(Byte) /\ SubSeq(s, 1, Len(a) + n) \in Seq(Byte)
      BY ONLY <1>5, <1>6, <2>1
    <2> QED
      BY ONLY <2>3, <2>4, <2>5, SeqEqual
  <1>10. Len(a) + n \in (Len(a) + 1)..Len(s) /\ s[Len(a) + n].nl
    BY ONLY <1>5, <1>6, <1>7
  <1>11. \A i \in (Len(a) + 1)..(Len(a) + n - 1) : ~s[i].nl
    <2> SUFFICES ASSUME NEW i \in (Len(a) + 1)..(Len(a) + n - 1) PROVE ~s[i].nl
      OBVIOUS
    <2>1. i - Len(a) \in 1..(n - 1) /\ i - Len(a) \in 1..Len(b) /\ Len(a) + (i - Len(a)) = i
      BY ONLY <1>5, <1>6, i \in (Len(a) + 1)..(Len(a) + n - 1)
    <2> QED
      BY <1>6, <1>7, <2>1
  <1>12. Arrived = s /\ Arrived' = s /\ (Over' = Over)
    <2>1. UNCHANGED <<sent, hup>>
      BY ReaderFrame DEF StreamInv, FlowInv, ReaderMoves, ReaderStep
    <2> QED
      BY <1>2, <1>4, <2>1, SameConversation DEF Arrived, Over
  <1>13. /\ \E k \in (Len(rcvd) + 1)..Len(Arrived) :
              /\ Arrived[k].nl
              /\ \A i \in (Len(rcvd) + 1)..(k - 1) : ~Arrived[i].nl
              /\ rcvd' = SubSeq(Arrived, 1, k)
    <2>1. \E k \in (Len(a) + 1)..Len(s) : /\ s[k].nl
                                          /\ \A i \in (Len(a) + 1)..(k - 1) : ~s[i].nl
                                          /\ rcvd' = SubSeq(s, 1, k)
      <3>1. PICK m : m = Len(a) + n
        OBVIOUS
      <3>2. m \in (Len(a) + 1)..Len(s) /\ s[m].nl
        BY ONLY <1>10, <3>1
      <3>3. \A i \in (Len(a) + 1)..(m - 1) : ~s[i].nl
        <4>1. m - 1 = Len(a) + n - 1
          BY ONLY <1>6, <1>14, <3>1
        <4> QED
          BY <1>11, <4>1
      <3>4. rcvd' = SubSeq(s, 1, m)
        BY <1>8, <1>9, <3>1
      <3> QED
        BY <3>2, <3>3, <3>4
    <2> QED
      BY <1>4, <1>12, <2>1
  <1> QED
    BY <1>12, <1>13 DEF Stream!TakeLine, Arrived, Over

\* ReadEof hands over what is left, once there is no more to come.
LEMMA EofIsRest ==
    ASSUME StreamInv, ~torn, ~Interrupts, NEW r \in Readers, ReadEof(r), Current' = Current
    PROVE  Stream!TakeRest
  <1>1. PICK c \in Current : TRUE
    BY OneCurrent DEF StreamInv, FlowInv, AloneInv, HasClient, Connected, ReadEof
  <1>2. c \in Conns /\ Conversation = c /\ Current = {c}
    BY TheConversation, OneCurrent
  <1>3. \A q \in Readers : pc[q] # "rd_append"
    BY DEF StreamInv, FlowInv, AloneInv, OneReader, ReadEof
  <1>4. /\ rcvd \in Seq(Byte) /\ read_buf \in Seq(Byte)
        /\ rcvd \o read_buf \o inq[c] = sent[c]
        /\ inq[c] = <<>> /\ hup[c]
    BY <1>2, <1>3
    DEF StreamInv, FlowInv, LineInv, EndInv, ByteConservation, TypeOK, NodeType, HistoryType, ReadEof
  <1>5. rcvd \o read_buf \in Seq(Byte)
    BY <1>4
  <1>6. rcvd \o read_buf = sent[c]
    <2>1. (rcvd \o read_buf) \o <<>> = rcvd \o read_buf
      BY <1>5
    <2> QED
      BY <1>4, <2>1
  <1>7. ~HasNewline(read_buf)
    BY DEF StreamInv, LineInv, ScannedInv, NewlineFree, ReadEof
  <1>8. \A i \in (Len(rcvd) + 1)..Len(sent[c]) : ~sent[c][i].nl
    <2>1. PICK a, b : a = rcvd /\ b = read_buf
      OBVIOUS
    <2>2. a \in Seq(Byte) /\ b \in Seq(Byte)
      BY <1>4, <2>1
    <2>3. \A i \in (Len(a) + 1)..Len(a \o b) : i - Len(a) \in 1..Len(b) /\ (a \o b)[i] = b[i - Len(a)]
      BY ONLY <2>2
    <2>4. \A j \in 1..Len(b) : ~b[j].nl
      BY <1>7, <2>1, <2>2 DEF HasNewline
    <2>5. \A i \in (Len(a) + 1)..Len(a \o b) : ~(a \o b)[i].nl
      BY <2>3, <2>4
    <2> QED
      BY <1>6, <2>1, <2>5
  <1>9. rcvd' = sent[c]
    BY <1>6 DEF ReadEof, Return
  <1>10. Arrived = sent[c] /\ Over
    BY <1>2, <1>4 DEF Arrived, Over
  <1>11. Arrived' = Arrived /\ Over' = Over
    <2>1. UNCHANGED <<sent, hup>>
      BY ReaderFrame DEF StreamInv, FlowInv, ReaderMoves, ReaderStep
    <2> QED
      BY <2>1, SameConversation DEF Arrived, Over
  <1> QED
    BY <1>8, <1>9, <1>10, <1>11 DEF Stream!TakeRest, Arrived, Over

\* Nothing happens to the stream in a step that touches none of it.
LEMMA StreamFrame ==
    ASSUME Current' = Current, UNCHANGED <<sent, hup, rcvd>>
    PROVE  UNCHANGED Stream!vars
  <1>1. Arrived' = Arrived /\ Over' = Over
    BY SameConversation DEF Arrived, Over
  <1> QED
    BY <1>1 DEF Stream!vars, Arrived, Over

\* Every step of the node is one of LineStream, or a stutter.
LEMMA StreamStep ==
    ASSUME OneConversation, StreamInv, StreamInv', QuietInv, Next
    PROVE  Stream!Next \/ UNCHANGED Stream!vars
  <1>0. TypeOK /\ TypeOK' /\ FdInv /\ ~torn /\ ~Interrupts
    BY DEF StreamInv, FlowInv, QuietInv, OneConversation
  <1>1. \/ Current' = Current
        \/ Current = {} /\ \E c \in Conns : Current' = {c}
    <2>1. client_fd = NoFd => Current = {}
      BY DEF Current
    <2>2. ~\E t \in Control : CloseDescriptors(t)
      BY DEF QuietInv, ClosePc, CloseDescriptors
    <2> QED
      BY <1>0, <2>1, <2>2, CurrentStep
  <1>2. ASSUME NEW r \in Readers, ReaderMoves(r) PROVE Stream!Next \/ UNCHANGED Stream!vars
    <2>1. UNCHANGED <<sent, hup>>
      BY <1>0, <1>2, ReaderFrame
    <2>2. CASE rcvd' = rcvd
      BY <1>0, <1>1, <2>1, <2>2, StreamFrame, AcceptArrives DEF Stream!Next
    <2>3. CASE rcvd' # rcvd
      <3>1. \/ ReadTake(r) \/ ReadEof(r)
            \/ pc[r] = "rd_copy" /\ rcvd' = rcvd \o <<>>
        BY <1>2, <2>3 DEF ReaderMoves, ReadBegin, ReaderStep, ReadLock, ReadAccept, AcceptBlock, ReadScan,
           ReadCopy, ReadCall, ReadData, ReadNothing, ReadAppend, Return, histVars
      <3>2. rcvd \o <<>> = rcvd
        BY <1>0 DEF TypeOK, HistoryType
      <3>3. ReadTake(r) \/ ReadEof(r)
        BY <2>3, <3>1, <3>2
      <3>4. Current' = Current
        BY <3>3 DEF ReadTake, ReadEof, kernVars, Current
      <3> QED
        BY <1>0, <3>3, <3>4, TakeIsLine, EofIsRest DEF Stream!Next
    <2> QED
      BY <2>2, <2>3
  <1>3. ASSUME NEW w \in Writers, WriterMoves(w) PROVE Stream!Next \/ UNCHANGED Stream!vars
    <2>1. UNCHANGED <<sent, hup, rcvd>>
      BY <1>0, <1>3, WriterFrame DEF histVars
    <2> QED
      BY <1>0, <1>1, <2>1, StreamFrame, AcceptArrives DEF Stream!Next
  <1>4. ASSUME NEW t \in Control, ControlMoves(t) PROVE Stream!Next \/ UNCHANGED Stream!vars
    <2>1. UNCHANGED <<sent, hup, rcvd>>
      BY <1>0, <1>4, ControlFrame DEF QuietInv, ClosePc
    <2> QED
      BY <1>0, <1>1, <2>1, StreamFrame, AcceptArrives DEF Stream!Next
  <1>5. ASSUME NEW c \in Conns, ClientMoves(c) PROVE Stream!Next \/ UNCHANGED Stream!vars
    <2>1. Current' = Current
      BY <1>0, <1>5, ClientFrame DEF nodeVars, Current
    <2> QED
      BY <1>0, <1>5, <2>1, ClientArrives DEF Stream!Next
  <1> QED
    BY <1>2, <1>3, <1>4, <1>5, Movers

\* One conversation with a socket node, read by one thread and not closed, is a
\* LineStream, however many bytes the client sends, however the kernel cuts
\* them and whatever writers and open() do meanwhile.
THEOREM StreamImplemented == OneConversation => (Spec => ImplementsLineStream)
  <1> SUFFICES ASSUME OneConversation PROVE Spec => ImplementsLineStream
    OBVIOUS
  <1>1. Init => Stream!Init /\ QuietInv
    <2> SUFFICES ASSUME Init PROVE Stream!Init /\ QuietInv
      OBVIOUS
    <2>1. Current = {} /\ rcvd = <<>>
      BY DEF Init, Current
    <2>2. QuietInv
      BY DEF Init, QuietInv, Threads, ClosePc
    <2> QED
      BY <2>1, <2>2 DEF Stream!Init
  <1>2. StreamInv /\ QuietInv /\ [Next]_vars => QuietInv'
    <2>1. ASSUME StreamInv, QuietInv, Next PROVE QuietInv'
      BY <2>1, QuietStep DEF StreamInv, FlowInv
    <2>2. ASSUME QuietInv, UNCHANGED vars PROVE QuietInv'
      BY <2>2 DEF vars, histVars, QuietInv
    <2> QED
      BY <2>1, <2>2
  <1>3. StreamInv /\ StreamInv' /\ QuietInv /\ [Next]_vars => [Stream!Next]_Stream!vars
    <2>1. ASSUME UNCHANGED vars PROVE UNCHANGED Stream!vars
      <3>1. UNCHANGED <<client_fd, fdtab, sent, hup, rcvd>>
        BY <2>1 DEF vars, nodeVars, kernVars, histVars
      <3>2. Current' = Current
        BY <3>1 DEF Current
      <3> QED
        BY <3>1, <3>2, StreamFrame
    <2> QED
      BY <2>1, StreamStep
  <1> QED
    BY StreamInvariant, <1>1, <1>2, <1>3, PTL DEF Spec, ImplementsLineStream, Stream!Spec

-----------------------------------------------------------------------------
(* What a client receives.  Newest says how the last byte it got lies to the *)
(* place the writer is at, as long as the writer can still reach it.        *)
Newest(c, w) ==
    LET a == out[c][Len(out[c])]
    IN  IF pos[w] > 0
        THEN a.m = msg[w] /\ a.p = pos[w]
        ELSE a.p = MsgLen /\ a.m <= msg[w] /\ (pc[w] # "idle" => a.m < msg[w])
Follows(a, b) ==
    \/ b.m = a.m /\ b.p = a.p + 1
    \/ b.m > a.m /\ a.p = MsgLen /\ b.p = 1
Ordered(s) == \A i \in 1..(Len(s) - 1) : Follows(s[i], s[i + 1])
WrittenTo(c, w) ==
    /\ Ordered(out[c])
    /\ out[c] # <<>> => /\ c \in used /\ ~Queued(c)
                        /\ c \in Current /\ ~hup[c] => Newest(c, w)
AtPlace(w) ==
    /\ pos[w] > 0 => pc[w] \in {"wr_loop", "wr_killed"}
    /\ pos[w] = 0 \/ pos[w] < MsgLen
OutInv ==
    \A w \in Writers : Writers = {w} => AtPlace(w) /\ \A c \in Conns : WrittenTo(c, w)

\* Bytes appended one after the other to a sequence that ends just before them
\* leave it in order.
LEMMA AppendOrdered ==
    ASSUME NEW s \in Seq(OutByte), Ordered(s), NEW k \in Nat \ {0}, NEW e \in Seq(OutByte), Len(e) = k,
           \A i \in 1..(k - 1) : Follows(e[i], e[i + 1]),
           s # <<>> => Follows(s[Len(s)], e[1])
    PROVE  Ordered(s \o e)
  <1>1. /\ Len(s \o e) = Len(s) + k
        /\ \A i \in 1..Len(s) : (s \o e)[i] = s[i]
        /\ \A i \in (Len(s) + 1)..(Len(s) + k) : (s \o e)[i] = e[i - Len(s)]
        /\ Len(s) \in Nat
    <2>1. Len(s \o e) = Len(s) + k /\ Len(s) \in Nat
      OBVIOUS
    <2>2. \A i \in 1..Len(s) : (s \o e)[i] = s[i]
      OBVIOUS
    <2>3. \A i \in (Len(s) + 1)..(Len(s) + Len(e)) : (s \o e)[i] = e[i - Len(s)]
      OBVIOUS
    <2> QED
      BY <2>1, <2>2, <2>3
  <1> SUFFICES ASSUME NEW i \in 1..(Len(s) + k - 1) PROVE Follows((s \o e)[i], (s \o e)[i + 1])
    BY <1>1 DEF Ordered
  <1>2. CASE i < Len(s)
    <2>1. i \in 1..(Len(s) - 1) /\ i \in 1..Len(s) /\ i + 1 \in 1..Len(s)
      BY <1>1, <1>2
    <2> QED
      BY <1>1, <2>1 DEF Ordered
  <1>3. CASE i = Len(s)
    <2>1. /\ i \in 1..Len(s) /\ i + 1 \in (Len(s) + 1)..(Len(s) + k) /\ i + 1 - Len(s) = 1
          /\ s # <<>>
      BY <1>1, <1>3
    <2> QED
      BY <1>1, <1>3, <2>1
  <1>4. CASE i > Len(s)
    <2>1. PICK j : j = i - Len(s)
      OBVIOUS
    <2>2. /\ i \in (Len(s) + 1)..(Len(s) + k) /\ i + 1 \in (Len(s) + 1)..(Len(s) + k)
          /\ i + 1 - Len(s) = j + 1 /\ j \in 1..(k - 1)
      BY <1>1, <1>4, <2>1
    <2>3. (s \o e)[i] = e[j] /\ (s \o e)[i + 1] = e[j + 1]
      BY <1>1, <2>1, <2>2
    <2> QED
      BY <2>2, <2>3
  <1> QED
    BY <1>1, <1>2, <1>3, <1>4

\* Who has left the queue does not come back.
LEMMA QueuedStep ==
    ASSUME TypeOK, Next, NEW c \in Conns, c \in used, ~Queued(c)
    PROVE  ~Queued(c)'
  <1>0. backlog \in Seq(Conns)
    BY DEF TypeOK, KernelType
  <1>1. backlog' = backlog \/ backlog' = <<>> => ~Queued(c)'
    BY DEF Queued
  <1>2. ASSUME backlog # <<>>, backlog' = Tail(backlog) PROVE ~Queued(c)'
    <2>1. \A i \in DOMAIN Tail(backlog) : i + 1 \in DOMAIN backlog /\ Tail(backlog)[i] = backlog[i + 1]
      BY <1>0, <1>2
    <2> QED
      BY <1>2, <2>1 DEF Queued
  <1>3. ASSUME NEW d \in Conns, ClientConnect(d) PROVE ~Queued(c)'
    <2>1. backlog' = Append(backlog, d) /\ d # c
      BY <1>3 DEF ClientConnect
    <2>2. \A i \in DOMAIN Append(backlog, d) : Append(backlog, d)[i] = d \/ (i \in DOMAIN backlog /\ Append(backlog, d)[i] = backlog[i])
      BY <1>0
    <2> QED
      BY <2>1, <2>2 DEF Queued
  <1>4. ASSUME NEW r \in Readers, ReaderMoves(r)
        PROVE  backlog' = backlog \/ (backlog # <<>> /\ backlog' = Tail(backlog))
    BY <1>4 DEF ReaderMoves, ReadBegin, ReaderStep, ReadLock, ReadAccept, AcceptBlock, Accepted, ReadScan,
       ReadTake, ReadCopy, ReadCall, ReadData, ReadNothing, ReadAppend, ReadEof, kernVars
  <1>5. ASSUME NEW w \in Writers, WriterMoves(w)
        PROVE  backlog' = backlog \/ (backlog # <<>> /\ backlog' = Tail(backlog))
    BY <1>5 DEF WriterMoves, WriteBegin, WriterStep, WriteLock, WriteAccept, AcceptBlock, Accepted,
       WriteSome, WriteFail, WriteKilled, kernVars
  <1>6. ASSUME NEW t \in Control, ControlMoves(t)
        PROVE  backlog' = backlog \/ backlog' = <<>>
    BY <1>6 DEF ControlMoves, OpenBegin, OpenStep, OpenSocket, OpenBind, OpenListen, OpenFail, CloseBegin,
       CloseStep, CloseLock, CloseDescriptors, CloseFinish, CloseFds, kernVars
  <1>7. ASSUME NEW d \in Conns, ClientMoves(d), ~ClientConnect(d) PROVE backlog' = backlog
    BY <1>7 DEF ClientMoves, ClientSend, ClientHangup
  <1> QED
    BY <1>1, <1>2, <1>3, <1>4, <1>5, <1>6, <1>7, Movers

\* A step that writes nothing keeps the order: it takes no connection out of the
\* queue but to make it the current one, which nothing was written to yet.
LEMMA NoWriteKeepsOut ==
    ASSUME TypeOK, FdInv, QueueInv, QueueInv', Next, NEW w \in Writers, NEW c \in Conns, WrittenTo(c, w),
           UNCHANGED <<out, msg, pos>>, used \subseteq used', hup[c] => hup'[c],
           pc'[w] = pc[w] \/ (pos[w] = 0 /\ pc[w] # "idle")
    PROVE  WrittenTo(c, w)'
  <1>1. Ordered(out'[c])
    BY DEF WrittenTo
  <1>2. ASSUME out[c] # <<>> PROVE c \in used' /\ ~Queued(c)' /\ (c \in Current' => c \in Current)
    <2>1. c \in used /\ ~Queued(c)
      BY <1>2 DEF WrittenTo
    <2>2. \A d \in Conns : Queued(d) /\ Current' = {d} => c \notin Current'
      BY <2>1
    <2>3. c \in Current' => c \in Current
      BY <2>2, CurrentStep
    <2>4. ~Queued(c)'
      BY <2>1, QueuedStep
    <2> QED
      BY <2>1, <2>3, <2>4
  <1>3. ASSUME out[c] # <<>>, c \in Current, ~hup[c] PROVE Newest(c, w)'
    <2>1. Newest(c, w)
      BY <1>3 DEF WrittenTo
    <2> QED
      BY <2>1 DEF Newest
  <1> QED
    BY <1>1, <1>2, <1>3 DEF WrittenTo

\* One ::write() continues the string it is in, or begins the next one.
LEMMA WriteKeepsOut ==
    ASSUME TypeOK, QueueInv, NEW w \in Writers, AtPlace(w),
           \A c \in Conns : WrittenTo(c, w), WriteSome(w)
    PROVE  AtPlace(w)' /\ \A c \in Conns : WrittenTo(c, w)'
  <1>1. PICK c \in Conns, k \in 1..(MsgLen - pos[w]) :
          /\ Writable(c)
          /\ out' = [out EXCEPT ![c] =
                       @ \o [i \in 1..k |-> [w |-> w, m |-> msg[w], p |-> pos[w] + i]]]
          /\ pos' = [pos EXCEPT ![w] = (@ + k) % MsgLen]
          /\ Goto(w, IF pos[w] + k = MsgLen THEN "idle" ELSE "wr_loop")
    BY DEF WriteSome
  <1>2. PICK p, m, e : /\ p = pos[w] /\ m = msg[w]
                       /\ e = [i \in 1..k |-> [w |-> w, m |-> m, p |-> p + i]]
    OBVIOUS
  <1>3. /\ MsgLen \in Nat \ {0} /\ p \in 0..(MsgLen - 1) /\ k \in 1..(MsgLen - p) /\ k \in Nat \ {0}
        /\ m \in 1..MaxMsgs
    <2>1. pc[w] = "wr_loop" /\ pos[w] \in 0..MsgLen /\ msg[w] \in 1..MaxMsgs
      BY DEF TypeOK, WriteType, WriteSome
    <2>2. pos[w] = 0 \/ pos[w] < MsgLen
      BY DEF AtPlace
    <2>3. k \in 1..(MsgLen - p) /\ p \in 0..MsgLen /\ (p = 0 \/ p < MsgLen)
      BY <1>2, <2>1, <2>2
    <2> QED
      BY <1>2, <2>1, <2>3, Bounds
  <1>4. /\ e \in Seq(OutByte) /\ Len(e) = k
        /\ \A i \in 1..k : e[i].m = m /\ e[i].p = p + i
    <2>1. \A i \in 1..k : [w |-> w, m |-> m, p |-> p + i] \in OutByte
      BY <1>3 DEF OutByte
    <2> QED
      BY <1>2, <1>3, <2>1
  <1>5. /\ c \in Current /\ ~hup[c] /\ c \in used /\ ~Queued(c)
    BY <1>1 DEF Writable, Current, QueueInv, NamedNotQueued, TypeOK, NodeType
  <1>6. PICK s : s = out[c]
    OBVIOUS
  <1>7. s \in Seq(OutByte) /\ Ordered(s)
    BY <1>6 DEF TypeOK, KernelType, WrittenTo
  <1>8. pc[w] = "wr_loop"
    BY DEF WriteSome
  <1>9. s # <<>> => Follows(s[Len(s)], e[1])
    <2> SUFFICES ASSUME s # <<>> PROVE Follows(s[Len(s)], e[1])
      OBVIOUS
    <2>1. PICK a : a = s[Len(s)]
      OBVIOUS
    <2>2. IF p > 0 THEN a.m = m /\ a.p = p ELSE a.p = MsgLen /\ a.m < m
      BY <1>2, <1>5, <1>6, <1>8, <2>1 DEF WrittenTo, Newest
    <2>3. e[1].m = m /\ e[1].p = p + 1
      <3>1. 1 \in 1..k
        BY ONLY <1>3
      <3> QED
        BY <1>4, <3>1
    <2> QED
      BY <1>3, <2>1, <2>2, <2>3 DEF Follows
  <1>10. \A i \in 1..(k - 1) : Follows(e[i], e[i + 1])
    <2> SUFFICES ASSUME NEW i \in 1..(k - 1) PROVE Follows(e[i], e[i + 1])
      OBVIOUS
    <2>1. i \in 1..k /\ i + 1 \in 1..k
      BY <1>3
    <2>2. e[i].m = m /\ e[i].p = p + i /\ e[i + 1].m = m /\ e[i + 1].p = p + (i + 1)
      BY <1>4, <2>1
    <2> QED
      BY <1>3, <2>2 DEF Follows
  <1>11. Ordered(s \o e)
    BY <1>3, <1>4, <1>7, <1>9, <1>10, AppendOrdered
  <1>12. /\ out'[c] = s \o e
         /\ \A d \in Conns \ {c} : out'[d] = out[d]
    BY <1>1, <1>2, <1>6 DEF TypeOK, KernelType
  <1>13. /\ pos'[w] = (p + k) % MsgLen
         /\ pc'[w] = IF p + k = MsgLen THEN "idle" ELSE "wr_loop"
         /\ msg' = msg
    BY <1>1, <1>2 DEF WriteSome, Goto, TypeOK, WriteType, PcType, Threads
  <1>14. \/ p + k = MsgLen /\ pos'[w] = 0 /\ pc'[w] = "idle"
         \/ p + k < MsgLen /\ pos'[w] = p + k /\ pc'[w] = "wr_loop"
    <2>1. p + k \in 0..MsgLen
      BY ONLY <1>3
    <2>2. p + k < MsgLen => (p + k) % MsgLen = p + k
      BY ONLY <1>3, <2>1
    <2>3. MsgLen % MsgLen = 0
      BY ONLY <1>3
    <2> QED
      BY <1>3, <1>13, <2>1, <2>2, <2>3
  <1>15. AtPlace(w)'
    BY <1>3, <1>14 DEF AtPlace
  <1>16. UNCHANGED <<client_fd, fdtab, hup, used, backlog>>
    BY DEF WriteSome, nodeVars
  <1>17. Current' = Current /\ \A d \in Conns : Queued(d)' <=> Queued(d)
    BY <1>16 DEF Current, Queued
  <1>18. WrittenTo(c, w)'
    <2>1. Len(s \o e) = Len(s) + k /\ (s \o e)[Len(s \o e)] = e[k]
      <3>1. Len(s \o e) = Len(s) + Len(e) /\ Len(s) \in Nat
        BY <1>4, <1>7
      <3>2. \A i \in (Len(s) + 1)..(Len(s) + Len(e)) : (s \o e)[i] = e[i - Len(s)]
        BY <1>4, <1>7
      <3>3. Len(s) + k \in (Len(s) + 1)..(Len(s) + k) /\ Len(s) + k - Len(s) = k
        BY <1>3, <3>1
      <3> QED
        BY <1>4, <3>1, <3>2, <3>3
    <2>2. e[k].m = m /\ e[k].p = p + k
      BY <1>3, <1>4
    <2>3. Newest(c, w)'
      <3>1. out'[c][Len(out'[c])].m = m /\ out'[c][Len(out'[c])].p = p + k /\ msg'[w] = m
        BY <1>2, <1>12, <1>13, <2>1, <2>2
      <3> QED
        BY <1>3, <1>14, <3>1 DEF Newest
    <2> QED
      BY <1>5, <1>11, <1>12, <1>16, <1>17, <2>3 DEF WrittenTo
  <1>19. \A d \in Conns \ {c} : WrittenTo(d, w)'
    <2>1. \A d \in Conns \ {c} : d \notin Current
      BY <1>5, OneCurrent
    <2> QED
      BY <1>12, <1>16, <1>17, <2>1 DEF WrittenTo
  <1> QED
    BY <1>15, <1>18, <1>19

\* Every step keeps the output in order.
LEMMA OutStep ==
    ASSUME TypeOK, FdInv, QueueInv, QueueInv', OutInv, Next
    PROVE  OutInv'
  <1> SUFFICES ASSUME NEW w \in Writers, Writers = {w}
               PROVE  AtPlace(w)' /\ \A c \in Conns : WrittenTo(c, w)'
    BY DEF OutInv
  <1>1. AtPlace(w) /\ \A c \in Conns : WrittenTo(c, w)
    BY DEF OutInv
  <1>2. ASSUME pos' = pos, pc'[w] = pc[w] PROVE AtPlace(w)'
    BY <1>1, <1>2 DEF AtPlace
  <1>3. ASSUME NEW r \in Readers, ReaderMoves(r) PROVE AtPlace(w)' /\ \A c \in Conns : WrittenTo(c, w)'
    BY <1>1, <1>2, <1>3, ReaderFrame, NoWriteKeepsOut
  <1>4. ASSUME NEW t \in Control, ControlMoves(t) PROVE AtPlace(w)' /\ \A c \in Conns : WrittenTo(c, w)'
    BY <1>1, <1>2, <1>4, ControlFrame, NoWriteKeepsOut DEF writeVars
  <1>5. ASSUME NEW c \in Conns, ClientMoves(c) PROVE AtPlace(w)' /\ \A d \in Conns : WrittenTo(d, w)'
    <2>1. /\ UNCHANGED <<out, msg, pos, pc>> /\ used \subseteq used'
          /\ \A d \in Conns : hup[d] => hup'[d]
      BY <1>5, ClientFrame DEF writeVars
    <2> QED
      BY <1>1, <1>2, <2>1, NoWriteKeepsOut
  <1>6. CASE WriterMoves(w)
    <2>0. UNCHANGED <<used, hup>>
      BY <1>6, WriterFrame
    <2>1. CASE WriteBegin(w)
      <3>1. /\ UNCHANGED <<out, pos, backlog, client_fd, fdtab>>
            /\ msg'[w] = msg[w] + 1 /\ pc[w] = "idle" /\ pc'[w] = "wr_lock" /\ msg[w] \in Nat
        BY <2>1, Bounds DEF WriteBegin, kernVars, nodeVars, Goto, TypeOK, WriteType, PcType, Threads
      <3>2. Current' = Current /\ \A c \in Conns : Queued(c)' <=> Queued(c)
        BY <3>1 DEF Current, Queued
      <3>3. pos[w] = 0
        BY <1>1, <3>1, Bounds DEF AtPlace, TypeOK, WriteType
      <3>4. ASSUME NEW c \in Conns, out[c] # <<>>, Newest(c, w) PROVE Newest(c, w)'
        <4>1. PICK a : a = out[c][Len(out[c])]
          OBVIOUS
        <4>2. a \in OutByte
          BY <3>4, <4>1 DEF TypeOK, KernelType
        <4>3. a.m \in Nat
          BY <4>2, Bounds DEF OutByte
        <4> QED
          BY <3>1, <3>3, <3>4, <4>1, <4>3 DEF Newest
      <3>5. \A c \in Conns : WrittenTo(c, w)'
        BY <1>1, <2>0, <3>1, <3>2, <3>4 DEF WrittenTo
      <3> QED
        BY <3>1, <3>3, <3>5 DEF AtPlace
    <2>2. CASE WriteLock(w) \/ WriteAccept(w)
      <3>1. UNCHANGED <<out, msg, pos>> /\ pc[w] \in {"wr_lock", "wr_accept"}
        BY <2>2 DEF WriteLock, WriteAccept, AcceptBlock, kernVars, writeVars
      <3>2. pos[w] = 0
        BY <1>1, <3>1, Bounds DEF AtPlace, TypeOK, WriteType
      <3> QED
        BY <1>1, <2>0, <3>1, <3>2, NoWriteKeepsOut DEF AtPlace
    <2>3. CASE WriteSome(w)
      BY <1>1, <2>3, WriteKeepsOut
    <2>4. CASE WriteFail(w)
      <3>1. /\ UNCHANGED <<out, msg, client_fd, fdtab, backlog>>
            /\ \A c \in Conns : ~Writable(c)
            /\ pos'[w] = 0
        BY <2>4 DEF WriteFail, kernVars, nodeVars, TypeOK, WriteType
      <3>2. /\ Current' = Current
            /\ \A c \in Conns : Queued(c)' <=> Queued(c)
            /\ \A c \in Current : hup[c]
        BY <3>1 DEF Current, Queued, Writable
      <3>3. \A c \in Conns : WrittenTo(c, w)'
        BY <1>1, <2>0, <3>1, <3>2 DEF WrittenTo
      <3> QED
        BY <3>1, <3>3 DEF AtPlace
    <2>5. CASE WriteKilled(w)
      <3>1. /\ UNCHANGED <<out, msg, pos, backlog, used, hup, client_fd, fdtab>>
            /\ pc[w] = "wr_loop" /\ Goto(w, "wr_killed")
        BY <2>5 DEF WriteKilled, kernVars, nodeVars, writeVars
      <3>2. Current' = Current /\ \A c \in Conns : Queued(c)' <=> Queued(c)
        BY <3>1 DEF Current, Queued
      <3>3. pc'[w] = "wr_killed"
        BY <3>1 DEF Goto, TypeOK, PcType, Threads
      <3>4. \A c \in Conns : Newest(c, w) => Newest(c, w)'
        BY <3>1, <3>3 DEF Newest
      <3>5. \A c \in Conns : WrittenTo(c, w)'
        BY <1>1, <3>1, <3>2, <3>4 DEF WrittenTo
      <3> QED
        BY <1>1, <3>1, <3>3, <3>5 DEF AtPlace
    <2> QED
      BY <1>6, <2>1, <2>2, <2>3, <2>4, <2>5 DEF WriterMoves, WriterStep
  <1>7. \A v \in Writers : v = w
    OBVIOUS
  <1> QED
    BY <1>3, <1>4, <1>5, <1>6, <1>7, Movers

\* If one thread writes, then whatever the kernel takes of each ::write(),
\* however often the client hangs up, the node is closed and a string breaks
\* off: each client gets the strings in order, none inside another, and no byte
\* twice.
THEOREM WrittenInOrder == Spec => []OutInOrder
  <1> DEFINE WriteInv == TypeOK /\ FdInv /\ QueueInv /\ OutInv
  <1>1. Init => WriteInv
    <2> SUFFICES ASSUME Init PROVE WriteInv
      OBVIOUS
    <2>1. \A c \in Conns : out[c] = <<>>
      BY DEF Init
    <2>2. \A w \in Writers : pos[w] = 0
      BY DEF Init
    <2>3. OutInv
      BY <2>1, <2>2 DEF OutInv, AtPlace, WrittenTo, Ordered
    <2> QED
      BY <2>3, FlowInit DEF FlowInv
  <1>2. WriteInv /\ [Next]_vars => WriteInv'
    <2>1. ASSUME WriteInv, Next PROVE WriteInv'
      BY <2>1, TypeStep, FdStep, QueueStep, OutStep
    <2>2. ASSUME WriteInv, UNCHANGED vars PROVE WriteInv'
      <3>1. /\ UNCHANGED <<listen_fd, client_fd, fdtab, backlog, used, inq, src, sent>>
            /\ UNCHANGED <<out, hup, msg, pos, pc>>
        BY <2>2 DEF vars, nodeVars, kernVars, readVars, writeVars, histVars
      <3>2. TypeOK'
        BY <2>2, TypeStutter
      <3>3. FdInv' /\ QueueInv'
        BY <2>2, <3>1 DEF FdInv, QueueInv, Queued, QueuedUsed, QueuedOnce, NamedNotQueued,
                          SourceNotQueued, FreshUnread
      <3>4. OutInv'
        BY <2>2, <3>1 DEF OutInv, AtPlace, WrittenTo, Newest, Current, Queued
      <3> QED
        BY <3>2, <3>3, <3>4
    <2> QED
      BY <2>1, <2>2
  <1>3. WriteInv => OutInOrder
    BY DEF OutInv, WrittenTo, Ordered, Follows, OutInOrder
  <1> HIDE DEF WriteInv
  <1> QED
    BY <1>1, <1>2, <1>3, PTL DEF Spec

-----------------------------------------------------------------------------
(* The socket file.  Where the one thread that opens and closes is says what *)
(* the path, the file and the listener are.                                 *)
FileAt(t) ==
    /\ pc[t] \in {"idle", "cl_lock", "cl_fds"} =>
         IF listen_fd # NoFd THEN sock_path /\ sockfile ELSE used = {} \/ ~sockfile
    /\ pc[t] = "op_socket" => listen_fd = NoFd
    /\ pc[t] = "op_bind" => IsSocket(listen_fd) /\ sock_path /\ ~sockfile
    /\ pc[t] = "op_listen" => IsSocket(listen_fd) /\ sock_path /\ sockfile
    /\ pc[t] = "cl_buf" => listen_fd = NoFd /\ (used = {} \/ ~sockfile \/ sock_path)
FileInv == UnixDomain => \A t \in Control : FileAt(t)

\* Every step keeps it: open() claims the path, bind() makes the file, and
\* close() and a failing listen() remove it.
LEMMA FileStep ==
    ASSUME TypeOK, FdInv, NoFdLeak, OpensClosed, OneControl, FileInv, Next
    PROVE  FileInv'
  <1> SUFFICES ASSUME UnixDomain, NEW t \in Control PROVE FileAt(t)'
    BY DEF FileInv
  <1>0. FileAt(t) /\ NoFd \notin Fds /\ Conns \cap Plain = {}
    BY NameAssumption DEF FileInv
  <1>1. ASSUME UNCHANGED <<listen_fd, sock_path, used, sockfile>>, pc'[t] = pc[t],
               IsSocket(listen_fd) => IsSocket(listen_fd)'
        PROVE  FileAt(t)'
    BY <1>0, <1>1 DEF FileAt
  <1>2. ASSUME NEW r \in Readers, ReaderMoves(r) PROVE FileAt(t)'
    <2>1. UNCHANGED fdtab \/ Accepted
      BY <1>2 DEF ReaderMoves, ReadBegin, ReaderStep, ReadLock, ReadAccept, AcceptBlock, ReadScan, ReadTake,
         ReadCopy, ReadCall, ReadData, ReadNothing, ReadAppend, ReadEof, kernVars
    <2>2. UNCHANGED listen_fd /\ (IsSocket(listen_fd) => IsSocket(listen_fd)')
      BY <1>2, <2>1, ReaderFrame DEF Accepted, IsSocket, TypeOK, KernelType
    <2> QED
      BY <1>1, <1>2, <2>2, ReaderFrame
  <1>3. ASSUME NEW w \in Writers, WriterMoves(w) PROVE FileAt(t)'
    <2>1. UNCHANGED fdtab \/ Accepted
      BY <1>3 DEF WriterMoves, WriteBegin, WriterStep, WriteLock, WriteAccept, AcceptBlock, WriteSome,
         WriteFail, WriteKilled, kernVars
    <2>2. UNCHANGED listen_fd /\ (IsSocket(listen_fd) => IsSocket(listen_fd)')
      BY <1>3, <2>1, WriterFrame DEF Accepted, IsSocket, TypeOK, KernelType
    <2> QED
      BY <1>1, <1>3, <2>2, WriterFrame
  <1>4. ASSUME NEW c \in Conns, ClientMoves(c) PROVE FileAt(t)'
    <2>1. UNCHANGED <<listen_fd, sock_path, sockfile, fdtab, pc>>
      BY <1>4, ClientFrame DEF nodeVars
    <2>2. CASE ~ClientConnect(c)
      <3>1. used' = used
        BY <1>4, <2>2 DEF ClientMoves, ClientSend, ClientHangup
      <3> QED
        BY <1>1, <2>1, <3>1 DEF IsSocket
    <2>3. CASE ClientConnect(c)
      <3>1. PICK f \in Fds : fdtab[f] = "listener"
        BY <2>3 DEF ClientConnect
      <3>2. f # client_fd
        BY <1>0, <3>1 DEF FdInv, Plain
      <3>3. f = listen_fd
        BY <3>1, <3>2 DEF NoFdLeak
      <3>4. listen_fd # NoFd
        BY <1>0, <3>3
      <3> QED
        BY <1>0, <2>1, <3>1, <3>3, <3>4 DEF FileAt, IsSocket
    <2> QED
      BY <2>2, <2>3
  <1>5. ASSUME NEW u \in Control, ControlMoves(u) PROVE FileAt(t)'
    <2>0. ControlMoves(t) /\ used' = used
      BY <1>5, ControlFrame DEF OneControl
    <2> USE DEF TypeOK, NodeType, KernelType, PcType, Threads
    <2>1. CASE OpenBegin(t) \/ CloseBegin(t) \/ CloseLock(t)
      BY <1>0, <2>0, <2>1 DEF OpenBegin, CloseBegin, CloseLock, Goto, nodeVars, kernVars, FileAt
    <2>2. CASE OpenSocket(t)
      BY <1>0, <2>0, <2>2 DEF OpenSocket, ClaimPath, Goto, FileAt, IsSocket
    <2>3. CASE OpenBind(t)
      <3>1. pc[t] = "op_bind" /\ IsSocket(listen_fd) /\ sock_path /\ ~sockfile /\ sock_path' = sock_path
        BY <1>0, <2>3 DEF OpenBind, FileAt
      <3>2. CASE Goto(t, "op_listen") /\ sockfile' = (sockfile \/ UnixDomain) /\ UNCHANGED <<listen_fd, fdtab>>
        <4>1. pc'[t] = "op_listen" /\ IsSocket(listen_fd)'
          BY <3>1, <3>2 DEF Goto, IsSocket
        <4> QED
          BY <3>1, <3>2, <4>1 DEF FileAt
      <3>3. CASE OpenFail(t) /\ UNCHANGED sockfile
        <4>1. pc'[t] = "idle" /\ listen_fd' = NoFd
          BY <3>3 DEF OpenFail, Goto
        <4> QED
          BY <3>1, <3>3, <4>1 DEF FileAt
      <3> QED
        BY <2>3, <3>2, <3>3 DEF OpenBind
    <2>4. CASE OpenListen(t)
      BY <1>0, <2>0, <2>4 DEF OpenListen, OpenFail, Goto, FileAt, IsSocket
    <2>5. CASE CloseDescriptors(t)
      BY <1>0, <2>0, <2>5 DEF CloseDescriptors, Goto, FileAt
    <2>6. CASE CloseFinish(t)
      BY <1>0, <2>0, <2>6 DEF CloseFinish, Goto, FileAt
    <2> QED
      BY <2>0, <2>1, <2>2, <2>3, <2>4, <2>5, <2>6 DEF ControlMoves, OpenStep, CloseStep
  <1> QED
    BY <1>2, <1>3, <1>4, <1>5, Movers

\* If no thread opens the node, nobody ever connects.
Unopened == Control = {} => listen_fd = NoFd /\ used = {}

\* The readers and the writers do not listen, and without a listener no client
\* can connect.
LEMMA UnopenedStep ==
    ASSUME TypeOK, FdInv, NoFdLeak, Unopened, Next
    PROVE  Unopened'
  <1> SUFFICES ASSUME Control = {} PROVE Unopened'
    BY DEF Unopened
  <1>0. listen_fd = NoFd /\ used = {}
    BY DEF Unopened
  <1>1. ASSUME NEW r \in Readers, ReaderMoves(r) PROVE Unopened'
    BY <1>0, <1>1, ReaderFrame DEF Unopened
  <1>2. ASSUME NEW w \in Writers, WriterMoves(w) PROVE Unopened'
    BY <1>0, <1>2, WriterFrame DEF Unopened
  <1>3. ASSUME NEW c \in Conns, ClientMoves(c) PROVE Unopened'
    <2>1. ~ClientConnect(c)
      <3> SUFFICES ASSUME ClientConnect(c) PROVE FALSE
        OBVIOUS
      <3>1. PICK f \in Fds : fdtab[f] = "listener"
        BY DEF ClientConnect
      <3>2. f = client_fd /\ client_fd # NoFd
        BY <1>0, <3>1, NameAssumption DEF NoFdLeak
      <3> QED
        BY <3>1, <3>2, NameAssumption DEF FdInv, Plain
    <2>2. listen_fd' = listen_fd /\ used' = used
      BY <1>3, <2>1 DEF ClientMoves, ClientSend, ClientHangup, nodeVars
    <2> QED
      BY <1>0, <2>2 DEF Unopened
  <1> QED
    BY <1>1, <1>2, <1>3, Movers

\* With one thread that opens and closes a UnixSocketNode, and once a client
\* has connected: between its calls the socket file is there exactly while the
\* node listens, whichever of socket(), bind() and listen() fail.
THEOREM SocketFileCorrect == OneControl => (Spec => []SocketFileFollowsListener)
  <1> SUFFICES ASSUME OneControl PROVE Spec => []SocketFileFollowsListener
    OBVIOUS
  <1> DEFINE PathInv == TypeOK /\ FdInv /\ NoFdLeak /\ OpensClosed /\ FileInv /\ Unopened
  <1>1. Init => PathInv
    <2> SUFFICES ASSUME Init PROVE PathInv
      OBVIOUS
    <2>1. NoFdLeak /\ OpensClosed
      BY DEF Init, NoFdLeak, OpensClosed, Threads
    <2>2. FileInv
      BY DEF Init, FileInv, FileAt, Threads
    <2>3. Unopened
      BY DEF Init, Unopened
    <2> QED
      BY <2>1, <2>2, <2>3, FlowInit DEF FlowInv
  <1>2. PathInv /\ [Next]_vars => PathInv'
    <2>1. ASSUME PathInv, Next PROVE PathInv'
      <3>1. TypeOK' /\ FdInv'
        BY <2>1, TypeStep, FdStep
      <3>2. NoFdLeak' /\ OpensClosed'
        BY <2>1, LeakStep
      <3>3. FileInv' /\ Unopened'
        BY <2>1, FileStep, UnopenedStep
      <3> QED
        BY <3>1, <3>2, <3>3
    <2>2. ASSUME PathInv, UNCHANGED vars PROVE PathInv'
      <3>1. UNCHANGED <<pc, fdtab, client_fd, listen_fd, sock_path, sockfile, used>>
        BY <2>2 DEF vars, nodeVars, kernVars
      <3>2. TypeOK'
        BY <2>2, TypeStutter
      <3>3. FdInv' /\ NoFdLeak' /\ OpensClosed' /\ Unopened'
        BY <2>2, <3>1 DEF FdInv, NoFdLeak, OpensClosed, Unopened
      <3>4. FileInv'
        BY <2>2, <3>1 DEF FileInv, FileAt, IsSocket
      <3> QED
        BY <3>2, <3>3, <3>4
    <2> QED
      BY <2>1, <2>2
  <1>3. PathInv => SocketFileFollowsListener
    <2> SUFFICES ASSUME PathInv, UnixDomain, used # {}, \A t \in Control : pc[t] = "idle"
                 PROVE  sockfile <=> listen_fd # NoFd
      BY DEF SocketFileFollowsListener
    <2>1. PICK t \in Control : TRUE
      BY DEF Unopened
    <2>2. FileAt(t) /\ pc[t] = "idle"
      BY DEF FileInv
    <2> QED
      BY <2>2 DEF FileAt
  <1> HIDE DEF PathInv
  <1> QED
    BY <1>1, <1>2, <1>3, PTL DEF Spec

=============================================================================
