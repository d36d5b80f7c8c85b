----------------------------- MODULE SocketNode -----------------------------
(***************************************************************************)
(* TcpSocketNode and UnixSocketNode: one object that listens on a socket,   *)
(* accepts a single client on the first read or write, and then exchanges   *)
(* lines of text with it.  open() takes no lock.  close() and the accept    *)
(* inside do_read()/do_write() hold _mtx.  Everything a reader does with    *)
(* _read_buf, and everything a writer does with _client_fd after the        *)
(* accept, happens outside the lock.                                        *)
(*                                                                         *)
(* A byte remembers the connection it was sent on, its position there and   *)
(* whether it is a newline: that is all the properties tell apart.  The     *)
(* kernel is external: descriptors are names for objects, a name may be     *)
(* reused once it is free, and a blocked read() keeps the object it started *)
(* on even if its name is closed.  A write to a client that has hung up ends *)
(* the program with SIGPIPE, or fails if the program ignores that signal.   *)
(***************************************************************************)
EXTENDS Integers, Sequences, FiniteSets

CONSTANTS
    Readers, Writers, Control,  \* threads in do_read, do_write, open/close
    Conns,                      \* client connections, each used once
    Fds, NoFd,                  \* descriptor names; NoFd is the -1 of the code
    NoThread, NoConn,
    UnixDomain,                 \* TRUE for UnixSocketNode
    Backlog,                    \* connections the kernel queues before accept
    MaxSent,                    \* bound: bytes a client sends
    MsgLen, MaxMsgs,            \* bound: bytes of a string, strings of a writer
    MaxCloses,                  \* bound: calls of close()
    Interrupts                  \* TRUE if a signal may interrupt a read()

Threads == Readers \cup Writers \cup Control

\* What a descriptor that is not a connection can name.
Plain == {"free", "socket", "listener"}

ASSUME ThreadAssumption ==
    /\ Readers \cap Writers = {}
    /\ Readers \cap Control = {}
    /\ Writers \cap Control = {}
    /\ NoThread \notin Threads
ASSUME NameAssumption ==
    /\ NoFd \notin Fds
    /\ NoConn \notin Conns
    /\ Conns \cap Plain = {}
ASSUME BoundAssumption ==
    /\ {Backlog, MaxSent, MsgLen, MaxMsgs, MaxCloses} \subseteq Nat
    /\ {UnixDomain, Interrupts} \subseteq BOOLEAN

VARIABLES
    \* the node
    mtx,         \* the thread that holds _mtx
    client_fd,   \* _client_fd
    listen_fd,   \* _listen_fd
    read_buf,    \* _read_buf
    sock_path,   \* _sock_path is not empty (UnixSocketNode)
    \* the kernel and the clients
    fdtab,       \* descriptor name -> what it names
    backlog,     \* connections waiting for accept()
    used,        \* connections that clients have made
    inq,         \* bytes that arrived and were not yet read, per connection
    hup,         \* the client has closed its end
    out,         \* bytes written to the client, per connection
    sockfile,    \* the socket file exists (UnixSocketNode)
    \* the threads
    pc,          \* where each thread is
    cfd,         \* the copy of _client_fd a reader works with
    src,         \* the object a blocked read() reads from
    chunk,       \* what the last ::read() returned
    nl,          \* position of the newline a reader has found
    msg, pos,    \* string a writer is on, bytes of it already written
    \* history
    closes,      \* calls of close() so far
    sent,        \* everything each client sent
    rcvd,        \* bytes returned to callers since the last close()
    last,        \* the last string each reader returned
    torn         \* TRUE once a do_read overlapped a do_read or a close body

nodeVars == <<mtx, client_fd, listen_fd, read_buf, sock_path>>
kernVars == <<fdtab, backlog, used, inq, hup, out, sockfile>>
readVars == <<cfd, src, chunk, nl>>
writeVars == <<msg, pos>>
histVars == <<closes, sent, rcvd, last, torn>>
vars == <<nodeVars, kernVars, pc, readVars, writeVars, histVars>>

Byte == [from : Conns, n : 1..MaxSent, nl : BOOLEAN]
OutByte == [w : Writers, m : 1..MaxMsgs, p : 1..MsgLen]

ReadPc == {"rd_lock", "rd_accept", "rd_scan", "rd_take", "rd_copy",
           "rd_call", "rd_wait", "rd_append", "rd_eof"}
WritePc == {"wr_lock", "wr_accept", "wr_loop", "wr_killed"}
OpenPc == {"op_socket", "op_bind", "op_listen"}
ClosePc == {"cl_lock", "cl_fds", "cl_buf"}

\* The part of close() that runs under the lock.
CloseBody == {"cl_fds", "cl_buf"}

HasNewline(s) == \E i \in DOMAIN s : s[i].nl

\* Mutant of IsFirstNewline: rfind() for find().
IsLastNewline(s, i) ==
    i \in DOMAIN s /\ s[i].nl /\ \A j \in (i + 1)..Len(s) : ~s[j].nl

\* std::string::find('\n') finds i.
IsFirstNewline(s, i) == i \in DOMAIN s /\ s[i].nl /\ \A j \in 1..(i - 1) : ~s[j].nl

\* substr(0, k) and what erase(0, k) leaves; both clip at the end of s.
Prefix(s, k) == SubSeq(s, 1, IF k <= Len(s) THEN k ELSE Len(s))
Suffix(s, k) == SubSeq(s, k + 1, Len(s))

Goto(t, label) == pc' = [pc EXCEPT ![t] = label]

NodeType ==
    /\ mtx \in Threads \cup {NoThread}
    /\ client_fd \in Fds \cup {NoFd}
    /\ listen_fd \in Fds \cup {NoFd}
    /\ read_buf \in Seq(Byte)
    /\ sock_path \in BOOLEAN
KernelType ==
    /\ fdtab \in [Fds -> Plain \cup Conns]
    /\ backlog \in Seq(Conns)
    /\ used \in SUBSET Conns
    /\ inq \in [Conns -> Seq(Byte)]
    /\ hup \in [Conns -> BOOLEAN]
    /\ out \in [Conns -> Seq(OutByte)]
    /\ sockfile \in BOOLEAN
PcType ==
    /\ pc \in [Threads -> {"idle"} \cup ReadPc \cup WritePc \cup OpenPc \cup ClosePc]
    /\ \A r \in Readers : pc[r] \in {"idle"} \cup ReadPc
    /\ \A w \in Writers : pc[w] \in {"idle"} \cup WritePc
    /\ \A t \in Control : pc[t] \in {"idle"} \cup OpenPc \cup ClosePc
ReadType ==
    /\ cfd \in [Readers -> Fds \cup {NoFd}]
    /\ src \in [Readers -> Conns \cup {NoConn}]
    /\ chunk \in [Readers -> Seq(Byte)]
    /\ nl \in [Readers -> Nat]
    /\ \A r \in Readers : pc[r] = "rd_call" => cfd[r] \in Fds
    /\ \A r \in Readers : pc[r] = "rd_wait" => src[r] \in Conns
WriteType ==
    /\ msg \in [Writers -> 0..MaxMsgs]
    /\ pos \in [Writers -> 0..MsgLen]
    /\ \A w \in Writers : pc[w] # "idle" => msg[w] \in 1..MaxMsgs
HistoryType ==
    /\ closes \in 0..MaxCloses
    /\ sent \in [Conns -> Seq(Byte)]
    /\ rcvd \in Seq(Byte)
    /\ last \in [Readers -> Seq(Byte)]
    /\ torn \in BOOLEAN

TypeOK ==
    /\ NodeType
    /\ KernelType
    /\ PcType
    /\ ReadType
    /\ WriteType
    /\ HistoryType

Init ==
    /\ mtx = NoThread
    /\ client_fd = NoFd
    /\ listen_fd = NoFd
    /\ read_buf = <<>>
    /\ sock_path = FALSE
    /\ fdtab = [f \in Fds |-> "free"]
    /\ backlog = <<>>
    /\ used = {}
    /\ inq = [c \in Conns |-> <<>>]
    /\ hup = [c \in Conns |-> FALSE]
    /\ out = [c \in Conns |-> <<>>]
    /\ sockfile \in IF UnixDomain THEN BOOLEAN ELSE {FALSE}
    /\ pc = [t \in Threads |-> "idle"]
    /\ cfd = [r \in Readers |-> NoFd]
    /\ src = [r \in Readers |-> NoConn]
    /\ chunk = [r \in Readers |-> <<>>]
    /\ nl = [r \in Readers |-> 0]
    /\ msg = [w \in Writers |-> 0]
    /\ pos = [w \in Writers |-> 0]
    /\ closes = 0
    /\ sent = [c \in Conns |-> <<>>]
    /\ rcvd = <<>>
    /\ last = [r \in Readers |-> <<>>]
    /\ torn = FALSE

-----------------------------------------------------------------------------
(* open(): no lock is taken; _listen_fd is read again by every call.        *)

\* The early return when the node is already open, else go on to socket().
OpenBegin(t) ==
    /\ pc[t] = "idle"
    /\ client_fd = NoFd
    /\ listen_fd = NoFd
    /\ Goto(t, "op_socket")
    /\ UNCHANGED <<nodeVars, kernVars, readVars, writeVars, histVars>>

\* Mutant of ClaimPath: the path is not remembered.
ClaimPathUnrecorded ==
    /\ sock_path' = sock_path
    /\ sockfile' = (sockfile /\ ~UnixDomain)

\* UnixSocketNode records the path and removes a file left there first.
ClaimPath ==
    /\ sock_path' = (UnixDomain \/ sock_path)
    /\ sockfile' = (sockfile /\ ~UnixDomain)

OpenSocket(t) ==
    /\ pc[t] = "op_socket"
    /\ ClaimPath
    /\ \/ \E f \in Fds :
            /\ fdtab[f] = "free"
            /\ fdtab' = [fdtab EXCEPT ![f] = "socket"]
            /\ listen_fd' = f
            /\ Goto(t, "op_bind")
       \/ \* socket() fails and open() throws
          /\ listen_fd' = NoFd
          /\ Goto(t, "idle")
          /\ UNCHANGED fdtab
    /\ UNCHANGED <<mtx, client_fd, read_buf, backlog, used, inq, hup, out,
                   readVars, writeVars, histVars>>

\* ::close() on a set of names: those that are in use become free.  A
\* listener that goes away takes the connections it had queued with it.
CloseFds(S) ==
    /\ fdtab' = [f \in Fds |-> IF f \in S THEN "free" ELSE fdtab[f]]
    /\ backlog' = IF \E f \in S \cap Fds : fdtab[f] = "listener"
                  THEN <<>> ELSE backlog

\* Mutant of OpenFail: throw without closing the socket.
OpenFailUnclosed(t) ==
    /\ listen_fd' = NoFd
    /\ Goto(t, "idle")
    /\ UNCHANGED <<fdtab, backlog>>

\* The failure path of bind() and listen(): close the socket and throw.
OpenFail(t) ==
    /\ CloseFds({listen_fd})
    /\ listen_fd' = NoFd
    /\ Goto(t, "idle")

IsSocket(f) == f \in Fds /\ fdtab[f] = "socket"

\* bind() creates the socket file of a UnixSocketNode.
OpenBind(t) ==
    /\ pc[t] = "op_bind"
    /\ \/ /\ IsSocket(listen_fd)
          /\ Goto(t, "op_listen")
          /\ sockfile' = (sockfile \/ UnixDomain)
          /\ UNCHANGED <<listen_fd, fdtab, backlog>>
       \/ /\ OpenFail(t)
          /\ UNCHANGED sockfile
    /\ UNCHANGED <<mtx, client_fd, read_buf, sock_path, used, inq, hup, out,
                   readVars, writeVars, histVars>>

\* When listen() fails UnixSocketNode also removes the file bind() created.
OpenListen(t) ==
    /\ pc[t] = "op_listen"
    /\ \/ /\ IsSocket(listen_fd)
          /\ fdtab' = [fdtab EXCEPT ![listen_fd] = "listener"]
          /\ Goto(t, "idle")
          /\ UNCHANGED <<listen_fd, backlog, sockfile>>
       \/ /\ OpenFail(t)
          /\ sockfile' = (sockfile /\ ~UnixDomain)
    /\ UNCHANGED <<mtx, client_fd, read_buf, sock_path, used, inq, hup, out,
                   readVars, writeVars, histVars>>

-----------------------------------------------------------------------------
(* close(): the whole body holds the lock, but readers and writers outside  *)
(* the lock see its effects one after the other.                            *)

CloseBegin(t) ==
    /\ pc[t] = "idle"
    /\ closes < MaxCloses
    /\ closes' = closes + 1
    /\ Goto(t, "cl_lock")
    /\ UNCHANGED <<nodeVars, kernVars, readVars, writeVars,
                   sent, rcvd, last, torn>>

CloseLock(t) ==
    /\ pc[t] = "cl_lock"
    /\ mtx = NoThread
    /\ mtx' = t
    /\ torn' = (torn \/ \E r \in Readers : pc[r] # "idle")
    /\ Goto(t, "cl_fds")
    /\ UNCHANGED <<client_fd, listen_fd, read_buf, sock_path, kernVars,
                   readVars, writeVars, closes, sent, rcvd, last>>

CloseDescriptors(t) ==
    /\ pc[t] = "cl_fds"
    /\ CloseFds({client_fd, listen_fd})
    /\ client_fd' = NoFd
    /\ listen_fd' = NoFd
    /\ Goto(t, "cl_buf")
    /\ UNCHANGED <<mtx, read_buf, sock_path, used, inq, hup, out, sockfile,
                   readVars, writeVars, histVars>>

\* Mutant of CloseFinish: the buffer outlives the connection.
CloseFinishKeepsBuffer(t) ==
    /\ pc[t] = "cl_buf"
    /\ sockfile' = (sockfile /\ ~sock_path)
    /\ sock_path' = FALSE
    /\ mtx' = NoThread
    /\ rcvd' = <<>>
    /\ Goto(t, "idle")
    /\ UNCHANGED <<client_fd, listen_fd, read_buf, fdtab, backlog, used, inq, hup,
                   out, readVars, writeVars, closes, sent, last, torn>>

\* The rest of close(): drop the buffer, remove the socket file, unlock.
CloseFinish(t) ==
    /\ pc[t] = "cl_buf"
    /\ read_buf' = <<>>
    /\ sockfile' = (sockfile /\ ~sock_path)
    /\ sock_path' = FALSE
    /\ mtx' = NoThread
    /\ rcvd' = <<>>
    /\ Goto(t, "idle")
    /\ UNCHANGED <<client_fd, listen_fd, fdtab, backlog, used, inq, hup, out,
                   readVars, writeVars, closes, sent, last, torn>>

-----------------------------------------------------------------------------
(* do_accept(), called with the lock held; it blocks until a client comes.  *)

\* accept() takes the oldest queued connection and gives it a free name.
Accepted ==
    /\ listen_fd # NoFd
    /\ fdtab[listen_fd] = "listener"
    /\ backlog # <<>>
    /\ \E f \in Fds :
         /\ fdtab[f] = "free"
         /\ fdtab' = [fdtab EXCEPT ![f] = Head(backlog)]
         /\ client_fd' = f
    /\ backlog' = Tail(backlog)

\* accept() fails: the socket is not (yet, or any more) a listening one, or
\* the process has no descriptor left.
AcceptFails ==
    /\ listen_fd # NoFd
    /\ \/ fdtab[listen_fd] # "listener"
       \/ backlog # <<>> /\ \A f \in Fds : fdtab[f] # "free"

\* The locked block that do_read() and do_write() begin with, after the lock
\* was taken because there was no client: do_accept() and unlock.
AcceptBlock(t, accepted, refused) ==
    /\ mtx = t
    /\ mtx' = NoThread
    /\ \/ /\ client_fd = NoFd
          /\ Accepted
          /\ Goto(t, accepted)
       \/ /\ \/ listen_fd = NoFd
             \/ AcceptFails
          /\ Goto(t, refused)
          /\ UNCHANGED <<client_fd, fdtab, backlog>>
    /\ UNCHANGED <<listen_fd, read_buf, sock_path, used, inq, hup, out,
                   sockfile, histVars>>

-----------------------------------------------------------------------------
(* do_read()                                                                *)

ReadBegin(r) ==
    /\ pc[r] = "idle"
    /\ torn' = \/ torn
               \/ \E q \in Readers : q # r /\ pc[q] # "idle"
               \/ \E t \in Control : pc[t] \in CloseBody
    /\ Goto(r, "rd_lock")
    /\ UNCHANGED <<nodeVars, kernVars, readVars, writeVars,
                   closes, sent, rcvd, last>>

\* Lock; with a client the lock is dropped at once, else accept under it.
ReadLock(r) ==
    /\ pc[r] = "rd_lock"
    /\ mtx = NoThread
    /\ \/ /\ client_fd # NoFd
          /\ Goto(r, "rd_scan")
          /\ UNCHANGED mtx
       \/ /\ client_fd = NoFd
          /\ Goto(r, "rd_accept")
          /\ mtx' = r
    /\ UNCHANGED <<client_fd, listen_fd, read_buf, sock_path, kernVars,
                   readVars, writeVars, histVars>>

\* Without a listener do_read() returns the empty string; it throws if
\* accept() fails.  Either way the call is over and no byte was delivered.
ReadAccept(r) ==
    /\ pc[r] = "rd_accept"
    /\ AcceptBlock(r, "rd_scan", "idle")
    /\ UNCHANGED <<readVars, writeVars>>

\* _read_buf.find('\n'), without the lock.
ReadScan(r) ==
    /\ pc[r] = "rd_scan"
    /\ \/ \E i \in DOMAIN read_buf :
            /\ IsFirstNewline(read_buf, i)
            /\ nl' = [nl EXCEPT ![r] = i]
            /\ Goto(r, "rd_take")
       \/ /\ ~HasNewline(read_buf)
          /\ Goto(r, "rd_copy")
          /\ UNCHANGED nl
    /\ UNCHANGED <<nodeVars, kernVars, cfd, src, chunk, writeVars, histVars>>

\* do_read() returns the string s, and its locals are gone.
Return(r, s) ==
    /\ Goto(r, "idle")
    /\ cfd' = [cfd EXCEPT ![r] = NoFd]
    /\ src' = [src EXCEPT ![r] = NoConn]
    /\ nl' = [nl EXCEPT ![r] = 0]
    /\ UNCHANGED chunk
    /\ rcvd' = rcvd \o s
    /\ last' = [last EXCEPT ![r] = s]
    /\ UNCHANGED <<closes, sent, torn>>

\* Mutant of ReadTake: the newline that was returned stays in the buffer.
ReadTakeLeavesNewline(r) ==
    /\ pc[r] = "rd_take"
    /\ Return(r, Prefix(read_buf, nl[r]))
    /\ read_buf' = Suffix(read_buf, nl[r] - 1)
    /\ UNCHANGED <<mtx, client_fd, listen_fd, sock_path, kernVars, writeVars>>

\* substr() and erase() of the line that find() saw.
ReadTake(r) ==
    /\ pc[r] = "rd_take"
    /\ Return(r, Prefix(read_buf, nl[r]))
    /\ read_buf' = Suffix(read_buf, nl[r])
    /\ UNCHANGED <<mtx, client_fd, listen_fd, sock_path, kernVars, writeVars>>

\* Mutant of ReadCopy: the copy is used even if there is no client.
ReadCopyUnchecked(r) ==
    /\ pc[r] = "rd_copy"
    /\ mtx = NoThread
    /\ cfd' = [cfd EXCEPT ![r] = client_fd]
    /\ Goto(r, "rd_call")
    /\ UNCHANGED <<src, chunk, nl, histVars, nodeVars, kernVars, writeVars>>

\* Copy _client_fd under the lock; without a client return "".
ReadCopy(r) ==
    /\ pc[r] = "rd_copy"
    /\ mtx = NoThread
    /\ \/ /\ client_fd # NoFd
          /\ cfd' = [cfd EXCEPT ![r] = client_fd]
          /\ Goto(r, "rd_call")
          /\ UNCHANGED <<src, chunk, nl, histVars>>
       \/ /\ client_fd = NoFd
          /\ Return(r, <<>>)
    /\ UNCHANGED <<nodeVars, kernVars, writeVars>>

\* ::read() looks the copied name up; by now it may name nothing, or a
\* socket that cannot be read, or the connection of another client.
ReadCall(r) ==
    /\ pc[r] = "rd_call"
    /\ \/ /\ fdtab[cfd[r]] \in Conns
          /\ src' = [src EXCEPT ![r] = fdtab[cfd[r]]]
          /\ Goto(r, "rd_wait")
       \/ /\ fdtab[cfd[r]] \notin Conns
          /\ Goto(r, "rd_eof")
          /\ UNCHANGED src
    /\ UNCHANGED <<nodeVars, kernVars, cfd, chunk, nl, writeVars, histVars>>

\* ::read() returns some of the bytes that have arrived.
ReadData(r) ==
    /\ pc[r] = "rd_wait"
    /\ \E k \in 1..Len(inq[src[r]]) :
         /\ chunk' = [chunk EXCEPT ![r] = Prefix(inq[src[r]], k)]
         /\ inq' = [inq EXCEPT ![src[r]] = Suffix(@, k)]
    /\ Goto(r, "rd_append")
    /\ UNCHANGED <<nodeVars, fdtab, backlog, used, hup, out, sockfile,
                   cfd, src, nl, writeVars, histVars>>

\* Mutant of ReadNothing: 0 > nr for 0 >= nr, so the end of file is retried.
ReadNothingRetries(r) ==
    /\ pc[r] = "rd_wait"
    /\ \/ hup[src[r]] /\ inq[src[r]] = <<>>
       \/ Interrupts
    /\ Goto(r, "rd_copy")
    /\ UNCHANGED <<nodeVars, kernVars, readVars, writeVars, histVars>>

\* ::read() returns 0 at the end of the stream, or -1 when interrupted.
ReadNothing(r) ==
    /\ pc[r] = "rd_wait"
    /\ \/ hup[src[r]] /\ inq[src[r]] = <<>>
       \/ Interrupts
    /\ Goto(r, "rd_eof")
    /\ UNCHANGED <<nodeVars, kernVars, readVars, writeVars, histVars>>

\* Mutant of ReadAppend: wait for more before looking for the newline.
ReadAppendUnscanned(r) ==
    /\ pc[r] = "rd_append"
    /\ read_buf' = read_buf \o chunk[r]
    /\ chunk' = [chunk EXCEPT ![r] = <<>>]
    /\ Goto(r, "rd_copy")
    /\ UNCHANGED <<mtx, client_fd, listen_fd, sock_path, kernVars,
                   cfd, src, nl, writeVars, histVars>>

\* _read_buf.append(), without the lock, then look for a newline again.
ReadAppend(r) ==
    /\ pc[r] = "rd_append"
    /\ read_buf' = read_buf \o chunk[r]
    /\ chunk' = [chunk EXCEPT ![r] = <<>>]
    /\ Goto(r, "rd_scan")
    /\ UNCHANGED <<mtx, client_fd, listen_fd, sock_path, kernVars,
                   cfd, src, nl, writeVars, histVars>>

\* End of file or error: return what is buffered, newline or not.
ReadEof(r) ==
    /\ pc[r] = "rd_eof"
    /\ Return(r, read_buf)
    /\ read_buf' = <<>>
    /\ UNCHANGED <<mtx, client_fd, listen_fd, sock_path, kernVars, writeVars>>

-----------------------------------------------------------------------------
(* do_write()                                                               *)

WriteBegin(w) ==
    /\ pc[w] = "idle"
    /\ msg[w] < MaxMsgs
    /\ msg' = [msg EXCEPT ![w] = @ + 1]
    /\ Goto(w, "wr_lock")
    /\ UNCHANGED <<nodeVars, kernVars, readVars, pos, histVars>>

WriteLock(w) ==
    /\ pc[w] = "wr_lock"
    /\ mtx = NoThread
    /\ \/ /\ client_fd # NoFd
          /\ Goto(w, "wr_loop")
          /\ UNCHANGED mtx
       \/ /\ client_fd = NoFd
          /\ Goto(w, "wr_accept")
          /\ mtx' = w
    /\ UNCHANGED <<client_fd, listen_fd, read_buf, sock_path, kernVars,
                   readVars, writeVars, histVars>>

\* Without a listener, or if accept() fails, do_write() throws.
WriteAccept(w) ==
    /\ pc[w] = "wr_accept"
    /\ AcceptBlock(w, "wr_loop", "idle")
    /\ UNCHANGED <<readVars, writeVars>>

\* The connection _client_fd names at this moment, if it takes bytes.
Writable(c) ==
    /\ client_fd # NoFd
    /\ fdtab[client_fd] = c
    /\ ~hup[c]

\* Mutant of WriteSome: a partial write does not advance the pointer.
WriteSomeRepeats(w) ==
    /\ pc[w] = "wr_loop"
    /\ \E c \in Conns, k \in 1..MsgLen :
         /\ Writable(c)
         /\ out' = [out EXCEPT ![c] =
                      @ \o [i \in 1..k |-> [w |-> w, m |-> msg[w], p |-> i]]]
         /\ Goto(w, IF k = MsgLen THEN "idle" ELSE "wr_loop")
    /\ UNCHANGED <<nodeVars, fdtab, backlog, used, inq, hup, sockfile,
                   readVars, msg, pos, histVars>>

\* One ::write() of the loop: _client_fd is read again, without the lock,
\* and the kernel takes some of the bytes that remain.
WriteSome(w) ==
    /\ pc[w] = "wr_loop"
    /\ \E c \in Conns, k \in 1..(MsgLen - pos[w]) :
         /\ Writable(c)
         /\ out' = [out EXCEPT ![c] =
                      @ \o [i \in 1..k |-> [w |-> w, m |-> msg[w], p |-> pos[w] + i]]]
         /\ pos' = [pos EXCEPT ![w] = (@ + k) % MsgLen]
         /\ Goto(w, IF pos[w] + k = MsgLen THEN "idle" ELSE "wr_loop")
    /\ UNCHANGED <<nodeVars, fdtab, backlog, used, inq, hup, sockfile,
                   readVars, msg, histVars>>

\* The descriptor is gone or the client is: do_write() throws.
WriteFail(w) ==
    /\ pc[w] = "wr_loop"
    /\ \A c \in Conns : ~Writable(c)
    /\ Goto(w, "idle")
    /\ pos' = [pos EXCEPT ![w] = 0]
    /\ UNCHANGED <<nodeVars, kernVars, readVars, msg, histVars>>

\* SIGPIPE: the client is gone.
WriteKilled(w) ==
    /\ pc[w] = "wr_loop"
    /\ client_fd # NoFd
    /\ fdtab[client_fd] \in {c \in Conns : hup[c]}
    /\ Goto(w, "wr_killed")
    /\ UNCHANGED <<nodeVars, kernVars, readVars, writeVars, histVars>>

\* The program has not ended.
Alive == \A w \in Writers : pc[w] # "wr_killed"

-----------------------------------------------------------------------------
(* Clients: the peers of the node, which owe it nothing.                    *)

ClientConnect(c) ==
    /\ c \notin used
    /\ \E f \in Fds : fdtab[f] = "listener"
    /\ Len(backlog) < Backlog
    /\ used' = used \cup {c}
    /\ backlog' = Append(backlog, c)
    /\ UNCHANGED <<nodeVars, fdtab, inq, hup, out, sockfile, pc,
                   readVars, writeVars, histVars>>

ClientSend(c) ==
    /\ c \in used
    /\ ~hup[c]
    /\ Len(sent[c]) < MaxSent
    /\ \E newline \in BOOLEAN :
         LET b == [from |-> c, n |-> Len(sent[c]) + 1, nl |-> newline]
         IN  /\ sent' = [sent EXCEPT ![c] = Append(@, b)]
             /\ inq' = [inq EXCEPT ![c] = Append(@, b)]
    /\ UNCHANGED <<nodeVars, fdtab, backlog, used, hup, out, sockfile, pc,
                   readVars, writeVars, closes, rcvd, last, torn>>

ClientHangup(c) ==
    /\ c \in used
    /\ ~hup[c]
    /\ hup' = [hup EXCEPT ![c] = TRUE]
    /\ UNCHANGED <<nodeVars, fdtab, backlog, used, inq, out, sockfile, pc,
                   readVars, writeVars, histVars>>

-----------------------------------------------------------------------------
ReaderStep(r) ==
    \/ ReadLock(r) \/ ReadAccept(r) \/ ReadScan(r) \/ ReadTake(r)
    \/ ReadCopy(r) \/ ReadCall(r) \/ ReadData(r) \/ ReadNothing(r)
    \/ ReadAppend(r) \/ ReadEof(r)
WriterStep(w) ==
    WriteLock(w) \/ WriteAccept(w) \/ WriteSome(w) \/ WriteFail(w) \/ WriteKilled(w)
OpenStep(t) == OpenSocket(t) \/ OpenBind(t) \/ OpenListen(t)
CloseStep(t) == CloseLock(t) \/ CloseDescriptors(t) \/ CloseFinish(t)

Next ==
    /\ Alive
    /\ \/ \E r \in Readers : ReadBegin(r) \/ ReaderStep(r)
       \/ \E w \in Writers : WriteBegin(w) \/ WriterStep(w)
       \/ \E t \in Control : OpenBegin(t) \/ OpenStep(t) \/ CloseBegin(t) \/ CloseStep(t)
       \/ \E c \in Conns : ClientConnect(c) \/ ClientSend(c) \/ ClientHangup(c)

Spec == Init /\ [][Next]_vars

\* A thread inside a call keeps running whenever it can.  Nobody has to make
\* a call, and a client has to do nothing at all.
Fairness ==
    /\ \A r \in Readers : WF_vars(ReaderStep(r) /\ Alive)
    /\ \A w \in Writers : WF_vars(WriterStep(w) /\ Alive)
    /\ \A t \in Control : WF_vars(OpenStep(t) /\ Alive) /\ WF_vars(CloseStep(t) /\ Alive)

FairSpec == Spec /\ Fairness
-----------------------------------------------------------------------------
(* Properties                                                               *)

\* The connection the node is talking to, if any.
Current == {c \in Conns : client_fd # NoFd /\ fdtab[client_fd] = c}

\* As long as calls of do_read() do not overlap each other or a close(), no
\* byte of the current client is lost, duplicated or reordered on its way
\* from the kernel through _read_buf to the callers, and nothing of an
\* earlier client is mixed in, however reads are split and however often the
\* node is closed and opened again.
ByteConservation ==
    ~torn => \A c \in Current :
        /\ \A r \in Readers :
             pc[r] = "rd_append" => rcvd \o read_buf \o chunk[r] \o inq[c] = sent[c]
        /\ (\A r \in Readers : pc[r] # "rd_append")
             => rcvd \o read_buf \o inq[c] = sent[c]

\* A string that do_read() returned is one line: its only newline is at the
\* end.  It lacks that newline only if the client had hung up.
ReturnsOneLine ==
    (~torn /\ ~Interrupts) => \A r \in Readers :
        LET s == last[r] IN
        /\ \A i \in 1..(Len(s) - 1) : ~s[i].nl
        /\ s # <<>> => s[Len(s)].nl \/ hup[s[Len(s)].from]

\* What LineServed and HangupEndsRead rest on.  As long as calls of do_read() do
\* not overlap each other or a close(), a reader that blocks in ::read() blocks for
\* the rest of a line: every whole line that was received has been returned, and
\* it blocks on the client that the node has, whose end is the end of the call,
\* whatever the name was that it copied.
BlocksForRest ==
    ~torn => \A r \in Readers :
        pc[r] = "rd_wait" => src[r] \in Current /\ ~HasNewline(read_buf)

\* No descriptor is leaked: whatever open(), do_accept() and close() do, in
\* whatever order and with whatever failures, every descriptor in use is
\* still reachable as _client_fd or _listen_fd.
NoFdLeak == \A f \in Fds : fdtab[f] # "free" => f \in {client_fd, listen_fd}

\* What a client receives from a single writer is strings in the order they
\* were written, each complete before the next begins: the loop over partial
\* writes neither repeats nor skips a byte, also across failed strings.
OutInOrder ==
    \A w \in Writers : Writers = {w} => \A c \in Conns :
        \A i \in 1..(Len(out[c]) - 1) :
            LET a == out[c][i]
                b == out[c][i + 1]
            IN  \/ b.m = a.m /\ b.p = a.p + 1
                \/ b.m > a.m /\ a.p = MsgLen /\ b.p = 1

\* Once a client has found the socket file, and while nobody is inside open()
\* or close(), the file exists exactly as long as the node listens.
SocketFileFollowsListener ==
    (UnixDomain /\ used # {} /\ \A t \in Control : pc[t] = "idle")
        => (sockfile <=> listen_fd # NoFd)

\* A blocked reader for which a complete line has arrived returns, unless the
\* program has ended.
LineServed ==
    \A r \in Readers :
        (pc[r] = "rd_wait" /\ HasNewline(inq[src[r]])) ~> (pc[r] = "idle" \/ ~Alive)

\* A do_read() ends once the client has hung up, or with the program.
HangupEndsRead ==
    \A r \in Readers :
        (pc[r] # "idle" /\ \E c \in Current : hup[c]) ~> (pc[r] = "idle" \/ ~Alive)

\* The header says that "the only way to break out of a blocking read in one
\* thread is to call close() from a different thread": a read that is
\* blocked when close() is called comes back.
CloseBreaksRead ==
    \A r \in Readers, t \in Control :
        (pc[r] \in {"rd_accept", "rd_wait"} /\ pc[t] = "cl_lock")
            ~> (pc[r] \notin {"rd_accept", "rd_wait"})

\* Up to the first close() the node is a LineStream of its first client.
Conversation == CHOOSE c \in Current : TRUE
Stream == INSTANCE LineStream WITH
    Byte <- Byte,
    IsNewline <- LAMBDA b : b.nl,
    arrived <- IF Current = {} THEN <<>> ELSE sent[Conversation],
    taken <- rcvd,
    over <- Current # {} /\ hup[Conversation]
ImplementsLineStream == Stream!Spec
=============================================================================
