----------------------------- MODULE IRChatNode -----------------------------
(***************************************************************************)
(* IRChatNode and the IRC object it drives.  open() makes an IRC object and *)
(* a thread (looper) that connects, receives lines and puts the messages    *)
(* among them on a queue, and connects again, after a sleep, whenever the   *)
(* connection is lost.  close() says QUIT, disconnects from its own thread, *)
(* and joins the looper.  Nothing is locked.  Messages other than writes    *)
(* and reads come from one thread, Control.                                 *)
(*                                                                         *)
(* What an open() makes (IRC object, queue, looper) has the number of that  *)
(* open().  Connections are numbered as they are made; the FILE that        *)
(* fdopen() makes for one has its number, too.  A line that the server      *)
(* sends is two halves, as recv() may get it in two; line m is the halves   *)
(* 2m-1 and 2m.  A line that recv() has cut is not put together again: its  *)
(* head is dropped, and its tail parsed as if it were a line.  A message is *)
(* what it was made from: 2m-1 stands for all of line m, 2m for its tail.   *)
(* What is in a line is left out; a server is taken to send no line that is *)
(* malformed as a whole.  What a use of freed memory does is left open      *)
(* between nothing and the end of the program, which is also what a null    *)
(* pointer and an exception in the looper lead to.                          *)
(*                                                                         *)
(* The IRChatStream of v0 (legacy) has the same looper and IRC object, but   *)
(* opens in its constructor and closes in its destructor, when nobody has a *)
(* reference to it any more, and is itself the queue.                       *)
(***************************************************************************)
EXTENDS Integers, Sequences

CONSTANTS
    Readers, Writers,
    MaxOpens,     \* bound: calls of open()
    MaxConns,     \* bound: connections made
    MaxLines      \* bound: lines the server sends

None == 0
Control == 0
Sessions == 1..MaxOpens
Conns == 1..MaxConns
Lines == 1..MaxLines
Halves == 1..(2 * MaxLines)
Movers == {Control} \cup Sessions       \* who connects and disconnects
Callers == Movers \cup Writers          \* who calls an IRC object
Threads == Callers \cup Readers

ASSUME ThreadAssumption ==
    /\ Readers \cap Writers = {}
    /\ (Readers \cup Writers) \cap Nat = {}
ASSUME BoundAssumption == {MaxOpens, MaxConns, MaxLines} \subseteq Nat

VARIABLES
    legacy,      \* it is the IRChatStream of v0
    \* the node
    conn,        \* _conn: the session whose IRC object it points to, or None
    cancel,      \* _cancel
    loop,        \* _loop: the session whose looper it points to, or None
    qvp,         \* _qvp: the session whose queue it holds, or None
    \* the IRC objects, per session
    connected,
    dataout,     \* the connection whose FILE it points to, or None
    irc_socket,  \* the connection whose descriptor it holds, or None
    deleted,     \* objects deleted
    \* the process
    fds,         \* connections with an open descriptor
    files,       \* connections with an open FILE
    logs,        \* sessions whose IRC object has its log, a FILE, open
    \* the server
    conns,       \* connections made so far
    inq,         \* halves sent and not received, per connection
    hup,         \* connections the server has hung up on
    quits,       \* connections QUIT was sent on
    sent,        \* lines sent so far
    \* the threads
    pc,
    obj,         \* the IRC object a caller works on
    lconn,       \* the connection a looper waits on in recv()
    lines,       \* the lines, and tails of lines, a looper has still to parse
    source,      \* the queue a reader waits on
    keeps,       \* the reader holds a reference to it, from stream()
    \* the queues, per session
    queue,
    given,       \* history: all that was added
    \* history
    opens,       \* calls of open() that got to a queue
    reopened,    \* open() was called while a looper was there
    away,        \* close() began while the looper was not in message_loop()
    ended        \* "no", or why the program ended

nodeVars == <<conn, cancel, loop, qvp>>
ircVars == <<connected, dataout, irc_socket>>
kernelVars == <<fds, files, logs>>
serverVars == <<conns, inq, hup, quits, sent>>
loopVars == <<lconn, lines>>
readVars == <<source, keeps, queue>>
historyVars == <<legacy, opens, reopened, away>>
vars == <<nodeVars, ircVars, deleted, kernelVars, serverVars, pc, obj, loopVars,
          readVars, given, historyVars, ended>>

ControlPc == {"idle", "op_queue", "op_start", "cl_quit", "cl_say", "cl_join", "cl_null"}
DisconnectPc == {"dc_check", "dc_fclose", "dc_mark", "dc_socket"}
LoopPc == {"none", "lp_start", "lp_connect", "lp_mark", "lp_hello", "lp_loop", "lp_recv",
           "lp_wait", "lp_parse", "lp_end", "lp_disc", "done"}
InMessageLoop == {"lp_loop", "lp_recv", "lp_wait", "lp_parse", "lp_end"}

NodeType ==
    /\ conn \in {None} \cup Sessions
    /\ loop \in {None} \cup Sessions
    /\ qvp \in {None} \cup Sessions
    /\ cancel \in BOOLEAN
IrcType ==
    /\ connected \in [Sessions -> BOOLEAN]
    /\ dataout \in [Sessions -> {None} \cup Conns]
    /\ irc_socket \in [Sessions -> {None} \cup Conns]
    /\ deleted \subseteq Sessions
KernelType == fds \subseteq 1..conns /\ files \subseteq 1..conns /\ logs \subseteq Sessions
ServerType ==
    /\ conns \in 0..MaxConns
    /\ sent \in 0..MaxLines
    /\ hup \subseteq 1..conns /\ quits \subseteq 1..conns
    /\ inq \in [Conns -> Seq(Halves)]
PcType ==
    /\ pc[Control] \in ControlPc \cup DisconnectPc
    /\ \A s \in Sessions : pc[s] \in LoopPc \cup DisconnectPc
    /\ \A w \in Writers : pc[w] \in {"idle", "wr_print"}
    /\ \A r \in Readers : pc[r] \in {"idle", "rd_get", "rd_take"}
CallerType ==
    /\ obj \in [Callers -> {None} \cup Sessions]
    /\ \A w \in Writers : pc[w] # "idle" <=> obj[w] # None
    /\ \A t \in Movers : pc[t] \in DisconnectPc => obj[t] # None
LoopType ==
    /\ lconn \in [Sessions -> {None} \cup Conns]
    /\ lines \in [Sessions -> Seq(Halves)]
    /\ \A s \in Sessions : pc[s] = "lp_wait" <=> lconn[s] # None
    /\ \A s \in Sessions : pc[s] = "lp_parse" <=> lines[s] # <<>>
ReadType ==
    /\ source \in [Readers -> {None} \cup Sessions]
    /\ keeps \in [Readers -> BOOLEAN]
    /\ queue \in [Sessions -> Seq(Halves)]
    /\ given \in [Sessions -> Seq(Halves)]
HistoryType ==
    /\ opens \in 0..MaxOpens
    /\ legacy \in BOOLEAN /\ reopened \in BOOLEAN /\ away \in BOOLEAN
    /\ ended \in {"no", "refused", "connected", "lost", "null", "misuse"}

TypeOK ==
    /\ NodeType /\ IrcType /\ KernelType /\ ServerType /\ PcType
    /\ CallerType /\ LoopType /\ ReadType /\ HistoryType

Init ==
    /\ legacy \in BOOLEAN
    /\ conn = None /\ cancel = FALSE /\ loop = None /\ qvp = None
    /\ connected = [s \in Sessions |-> FALSE]
    /\ dataout = [s \in Sessions |-> None]
    /\ irc_socket = [s \in Sessions |-> None]
    /\ deleted = {}
    /\ fds = {} /\ files = {} /\ logs = {}
    /\ conns = 0 /\ hup = {} /\ quits = {} /\ sent = 0
    /\ inq = [c \in Conns |-> <<>>]
    /\ pc = [t \in Threads |-> IF t \in Sessions THEN "none" ELSE "idle"]
    /\ obj = [t \in Callers |-> None]
    /\ lconn = [s \in Sessions |-> None]
    /\ lines = [s \in Sessions |-> <<>>]
    /\ source = [r \in Readers |-> None]
    /\ keeps = [r \in Readers |-> FALSE]
    /\ queue = [s \in Sessions |-> <<>>]
    /\ given = [s \in Sessions |-> <<>>]
    /\ opens = 0
    /\ reopened = FALSE /\ away = FALSE
    /\ ended = "no"

Goto(t, label) == pc' = [pc EXCEPT ![t] = label]
EndWith(why) == ended' = why

\* fprintf() and fflush() on dataout; the FILE may have been closed.
Output(t) ==
    \/ UNCHANGED ended
    \/ dataout[obj[t]] \notin files /\ EndWith("misuse")

-----------------------------------------------------------------------------
(* open()                                                                   *)

\* The node lets go of what it had, then looks at the URL.
OpenBegin ==
    /\ ~legacy /\ pc[Control] = "idle"
    /\ conn' = None
    /\ cancel' = FALSE
    /\ reopened' = (reopened \/ loop # None)
    /\ \/ opens < MaxOpens /\ Goto(Control, "op_queue") /\ opens' = opens + 1
       \/ UNCHANGED <<pc, opens>>    \* it is no IRC URL
    /\ UNCHANGED <<loop, qvp, ircVars, deleted, kernelVars, serverVars, obj, loopVars,
                   readVars, given, legacy, away, ended>>

OpenQueue ==
    /\ pc[Control] = "op_queue"
    /\ qvp' = opens
    /\ Goto(Control, "op_start")
    /\ UNCHANGED <<conn, cancel, loop, ircVars, deleted, kernelVars, serverVars, obj,
                   loopVars, readVars, given, historyVars, ended>>

\* The constructor of an IRC object opens its log; nothing depends on whether it can.
OpenLog(s) == logs' = logs \cup {s} /\ UNCHANGED <<fds, files>>

\* new IRC, its hooks, and the thread.
OpenStart ==
    /\ pc[Control] = "op_start"
    /\ conn' = opens
    /\ loop' = opens
    /\ OpenLog(opens)
    /\ pc' = [pc EXCEPT ![Control] = "idle", ![opens] = "lp_start"]
    /\ UNCHANGED <<cancel, qvp, ircVars, deleted, serverVars, obj,
                   loopVars, readVars, given, historyVars, ended>>

\* The constructor of v0 does all of it at once.
Construct ==
    /\ legacy /\ pc[Control] = "idle"
    /\ conn = None /\ opens < MaxOpens
    /\ opens' = opens + 1
    /\ conn' = opens' /\ loop' = opens' /\ qvp' = opens' /\ cancel' = FALSE
    /\ OpenLog(opens')
    /\ Goto(opens', "lp_start")
    /\ UNCHANGED <<ircVars, deleted, serverVars, obj, loopVars,
                   readVars, given, legacy, reopened, away, ended>>

-----------------------------------------------------------------------------
(* disconnect(), called by the looper and by close()                        *)

\* The looper sleeps 20 seconds in "lp_start"; close() goes on to the join.
Disconnected(t) == Goto(t, IF t = Control THEN "cl_join" ELSE "lp_start")

DisconnectCheck(t) ==
    /\ pc[t] = "dc_check"
    /\ IF connected[obj[t]] THEN Goto(t, "dc_fclose") ELSE Disconnected(t)
    /\ UNCHANGED <<nodeVars, ircVars, deleted, kernelVars, serverVars, obj, loopVars,
                   readVars, given, historyVars, ended>>

\* fclose(dataout) closes the descriptor, too.
DisconnectFclose(t) ==
    LET f == dataout[obj[t]] IN
    /\ pc[t] = "dc_fclose"
    /\ files' = files \ {f}
    /\ fds' = IF f \in files THEN fds \ {f} ELSE fds
    /\ Output(t)
    /\ Goto(t, "dc_mark")
    /\ UNCHANGED <<nodeVars, ircVars, deleted, logs, serverVars, obj, loopVars, readVars,
                   given, historyVars>>

\* Mutant of DisconnectMark: connected stays.
DisconnectMarkNot(t) ==
    /\ pc[t] = "dc_mark"
    /\ Goto(t, "dc_socket")
    /\ UNCHANGED <<nodeVars, ircVars, deleted, kernelVars, serverVars, obj,
                   loopVars, readVars, given, historyVars, ended>>

DisconnectMark(t) ==
    /\ pc[t] = "dc_mark"
    /\ connected' = [connected EXCEPT ![obj[t]] = FALSE]
    /\ Goto(t, "dc_socket")
    /\ UNCHANGED <<nodeVars, dataout, irc_socket, deleted, kernelVars, serverVars, obj,
                   loopVars, readVars, given, historyVars, ended>>

\* The second close of the descriptor; irc_socket is read again for it.  If its
\* number is free by now, or is that of a connection made since, that one goes.
DisconnectSocket(t) ==
    LET c == irc_socket[obj[t]] IN
    /\ pc[t] = "dc_socket"
    /\ \E d \in {c} \cup {later \in fds : c \notin fds /\ c < later} : fds' = fds \ {d}
    /\ Disconnected(t)
    /\ UNCHANGED <<nodeVars, ircVars, deleted, files, logs, serverVars, obj, loopVars,
                   readVars, given, historyVars, ended>>

-----------------------------------------------------------------------------
(* close()                                                                  *)

\* close() of a node that is not open does nothing.
Close ==
    /\ pc[Control] = "idle"
    /\ conn # None
    /\ cancel' = TRUE
    /\ away' = (away \/ pc[loop] \notin InMessageLoop)
    /\ obj' = [obj EXCEPT ![Control] = conn]
    /\ Goto(Control, "cl_quit")
    /\ UNCHANGED <<conn, loop, qvp, ircVars, deleted, kernelVars, serverVars, loopVars,
                   readVars, given, legacy, opens, reopened, ended>>

CloseBegin == ~legacy /\ Close

\* The destructor of v0, once nobody reads or writes any more.
Destruct ==
    /\ legacy
    /\ \A t \in Readers \cup Writers : pc[t] = "idle"
    /\ Close

CloseQuit ==
    /\ pc[Control] = "cl_quit"
    /\ Goto(Control, IF connected[obj[Control]] THEN "cl_say" ELSE "dc_check")
    /\ UNCHANGED <<nodeVars, ircVars, deleted, kernelVars, serverVars, obj, loopVars,
                   readVars, given, historyVars, ended>>

\* Mutant of CloseSay: no QUIT.
CloseSayNothing ==
    /\ pc[Control] = "cl_say"
    /\ Goto(Control, "dc_check")
    /\ UNCHANGED <<nodeVars, ircVars, deleted, kernelVars, serverVars, obj,
                   loopVars, readVars, given, historyVars, ended>>

\* Mutant of CloseSay: the server will hang up anyway, so why disconnect.
CloseSayOnly ==
    /\ pc[Control] = "cl_say"
    /\ quits' = quits \cup ({dataout[obj[Control]]} \cap files \cap fds)
    /\ Output(Control)
    /\ Goto(Control, "cl_join")
    /\ UNCHANGED <<nodeVars, ircVars, deleted, kernelVars, conns, inq, hup, sent, obj,
                   loopVars, readVars, given, historyVars>>

\* QUIT reaches the server if the FILE and its descriptor are open.
CloseSay ==
    /\ pc[Control] = "cl_say"
    /\ quits' = quits \cup ({dataout[obj[Control]]} \cap files \cap fds)
    /\ Output(Control)
    /\ Goto(Control, "dc_check")
    /\ UNCHANGED <<nodeVars, ircVars, deleted, kernelVars, conns, inq, hup, sent, obj,
                   loopVars, readVars, given, historyVars>>

\* Mutant of CloseJoin: the looper is left to end by itself.
CloseJoinNot ==
    /\ ~legacy /\ pc[Control] = "cl_join"
    /\ loop' = None
    /\ deleted' = deleted \cup {conn}
    /\ conn' = None
    /\ Goto(Control, "cl_null")
    /\ UNCHANGED <<cancel, qvp, ircVars, kernelVars, serverVars, obj, loopVars,
                   readVars, given, historyVars, ended>>

\* The IRC object goes; its destructor neither disconnects nor closes the log.
CloseJoin ==
    /\ ~legacy /\ pc[Control] = "cl_join"
    /\ pc[loop] = "done"
    /\ loop' = None
    /\ deleted' = deleted \cup {conn}
    /\ conn' = None
    /\ Goto(Control, "cl_null")
    /\ UNCHANGED <<cancel, qvp, ircVars, kernelVars, serverVars, obj, loopVars,
                   readVars, given, historyVars, ended>>

\* In v0 the IRC object is never deleted; the queue goes with the stream.
DestructJoin ==
    /\ legacy /\ pc[Control] = "cl_join"
    /\ pc[loop] = "done"
    /\ loop' = None /\ conn' = None /\ qvp' = None
    /\ Goto(Control, "idle")
    /\ UNCHANGED <<cancel, ircVars, deleted, kernelVars, serverVars, obj, loopVars,
                   readVars, given, historyVars, ended>>

\* The queue is not closed, only let go.
CloseNull ==
    /\ pc[Control] = "cl_null"
    /\ qvp' = None
    /\ Goto(Control, "idle")
    /\ UNCHANGED <<conn, cancel, loop, ircVars, deleted, kernelVars, serverVars, obj,
                   loopVars, readVars, given, historyVars, ended>>

-----------------------------------------------------------------------------
(* looper(): start(), message_loop(), disconnect() and around.  _conn is    *)
(* read anew for each call; "lost" is the end of a looper that finds it, or *)
(* _qvp, null.                                                              *)

LoopLost(l) ==
    /\ \/ pc[l] \in {"lp_start", "lp_loop", "lp_disc"} /\ conn = None
       \/ pc[l] = "lp_parse" /\ qvp = None    \* in got_privmsg()
    /\ EndWith("lost")
    /\ UNCHANGED <<nodeVars, ircVars, deleted, kernelVars, serverVars, pc, obj,
                   loopVars, readVars, given, historyVars>>

\* start() refuses if the object is connected, and the looper throws.
LoopStart(l) ==
    /\ pc[l] = "lp_start"
    /\ conn # None
    /\ obj' = [obj EXCEPT ![l] = conn]
    /\ Goto(l, "lp_connect")
    /\ EndWith(IF connected[conn] THEN "connected" ELSE ended)
    /\ UNCHANGED <<nodeVars, ircVars, deleted, kernelVars, serverVars, loopVars,
                   readVars, given, historyVars>>

\* socket(), connect(), fdopen(): a connection, or the looper throws.
LoopConnect(l) ==
    /\ pc[l] = "lp_connect"
    /\ \/ /\ conns < MaxConns
          /\ conns' = conns + 1
          /\ irc_socket' = [irc_socket EXCEPT ![obj[l]] = conns + 1]
          /\ dataout' = [dataout EXCEPT ![obj[l]] = conns + 1]
          /\ fds' = fds \cup {conns + 1}
          /\ files' = files \cup {conns + 1}
          /\ Goto(l, "lp_mark")
          /\ UNCHANGED ended
       \/ /\ EndWith("refused")
          /\ UNCHANGED <<conns, irc_socket, dataout, fds, files, pc>>
    /\ UNCHANGED <<nodeVars, connected, deleted, logs, inq, hup, quits, sent, obj, loopVars,
                   readVars, given, historyVars>>

LoopMark(l) ==
    /\ pc[l] = "lp_mark"
    /\ connected' = [connected EXCEPT ![obj[l]] = TRUE]
    /\ Goto(l, "lp_hello")
    /\ UNCHANGED <<nodeVars, dataout, irc_socket, deleted, kernelVars, serverVars, obj,
                   loopVars, readVars, given, historyVars, ended>>

\* NICK and USER.
LoopHello(l) ==
    /\ pc[l] = "lp_hello"
    /\ Output(l)
    /\ Goto(l, "lp_loop")
    /\ UNCHANGED <<nodeVars, ircVars, deleted, kernelVars, serverVars, obj,
                   loopVars, readVars, given, historyVars>>

LoopMessages(l) ==
    /\ pc[l] = "lp_loop"
    /\ conn # None
    /\ obj' = [obj EXCEPT ![l] = conn]
    /\ Goto(l, IF connected[conn] THEN "lp_recv" ELSE "lp_end")
    /\ UNCHANGED <<nodeVars, ircVars, deleted, kernelVars, serverVars, loopVars,
                   readVars, given, historyVars, ended>>

\* recv() looks the descriptor up once and then waits on the connection.
LoopRecv(l) ==
    LET c == irc_socket[obj[l]] IN
    /\ pc[l] = "lp_recv"
    /\ \/ c \in fds /\ Goto(l, "lp_wait") /\ lconn' = [lconn EXCEPT ![l] = c]
       \/ c \notin fds /\ Goto(l, "lp_end") /\ UNCHANGED lconn
    /\ UNCHANGED <<nodeVars, ircVars, deleted, kernelVars, serverVars, obj, lines,
                   readVars, given, historyVars, ended>>

\* split_to_replies(): what comes before each end of line.  A first half at the
\* end of the chunk is dropped.  A second half at its beginning is a tail; or it
\* is only the newline of its line, which then begins, and spoils, the next one.
Replies(chunk) ==
    LET torn == IF chunk[1] % 2 = 0 THEN 1 ELSE 0
        whole == [i \in 1..((Len(chunk) - torn) \div 2) |-> chunk[torn + 2 * i] - 1]
    IN IF torn = 0 THEN {whole}
       ELSE {<<chunk[1]>> \o whole, IF whole = <<>> THEN whole ELSE Tail(whole)}

\* Mutant of LoopData: the chunk is looked at and not taken.
LoopDataPeeks(l) ==
    /\ pc[l] = "lp_wait"
    /\ \E n \in 1..Len(inq[lconn[l]]) :
       \E replies \in Replies(SubSeq(inq[lconn[l]], 1, n)) :
         /\ lines' = [lines EXCEPT ![l] = replies]
         /\ Goto(l, IF replies = <<>> THEN "lp_recv" ELSE "lp_parse")
    /\ lconn' = [lconn EXCEPT ![l] = None]
    /\ UNCHANGED <<nodeVars, ircVars, deleted, kernelVars, serverVars, obj,
                   readVars, given, historyVars, ended>>

\* recv() returns as much of what is there as it likes.
LoopData(l) ==
    LET c == lconn[l] IN
    /\ pc[l] = "lp_wait"
    /\ \E n \in 1..Len(inq[c]) : \E replies \in Replies(SubSeq(inq[c], 1, n)) :
         /\ inq' = [inq EXCEPT ![c] = SubSeq(@, n + 1, Len(@))]
         /\ lines' = [lines EXCEPT ![l] = replies]
         /\ Goto(l, IF replies = <<>> THEN "lp_recv" ELSE "lp_parse")
    /\ lconn' = [lconn EXCEPT ![l] = None]
    /\ UNCHANGED <<nodeVars, ircVars, deleted, kernelVars, conns, hup, quits, sent, obj,
                   readVars, given, historyVars, ended>>

LoopHangup(l) ==
    /\ pc[l] = "lp_wait"
    /\ lconn[l] \in hup
    /\ inq[lconn[l]] = <<>>
    /\ lconn' = [lconn EXCEPT ![l] = None]
    /\ Goto(l, "lp_end")
    /\ UNCHANGED <<nodeVars, ircVars, deleted, kernelVars, serverVars, obj, lines,
                   readVars, given, historyVars, ended>>

\* recv() fails: a signal, or keepalive gives up on the connection.
LoopError(l) ==
    /\ pc[l] = "lp_wait"
    /\ lconn' = [lconn EXCEPT ![l] = None]
    /\ Goto(l, "lp_end")
    /\ UNCHANGED <<nodeVars, ircVars, deleted, kernelVars, serverVars, obj, lines,
                   readVars, given, historyVars, ended>>

\* Mutant of LoopParse: only the first line of a chunk is looked at.
LoopParseFirst(l) ==
    /\ pc[l] = "lp_parse"
    /\ qvp # None
    /\ queue' = [queue EXCEPT ![qvp] = Append(@, Head(lines[l]))]
    /\ given' = [given EXCEPT ![qvp] = Append(@, Head(lines[l]))]
    /\ lines' = [lines EXCEPT ![l] = Tail(@)]
    /\ Goto(l, "lp_recv")
    /\ UNCHANGED <<nodeVars, ircVars, deleted, kernelVars, serverVars, obj, lconn,
                   source, keeps, historyVars, ended>>

\* parse_irc_reply(): the line is a PING, which gets its PONG; or a message, for
\* got_privmsg(); or of no consequence, as a PING with an open FILE is.  A tail
\* may be any of these, and may also lack the parameters of what it begins with,
\* which are then a null pointer.
LoopParse(l) ==
    LET m == Head(lines[l]) IN
    /\ pc[l] = "lp_parse"
    /\ \/ /\ Output(l)
          /\ UNCHANGED <<queue, given>>
       \/ /\ qvp # None
          /\ queue' = [queue EXCEPT ![qvp] = Append(@, m)]
          /\ given' = [given EXCEPT ![qvp] = Append(@, m)]
          /\ UNCHANGED ended
       \/ m % 2 = 0 /\ EndWith("null") /\ UNCHANGED <<queue, given>>
    /\ lines' = [lines EXCEPT ![l] = Tail(@)]
    /\ Goto(l, IF Len(lines[l]) = 1 THEN "lp_recv" ELSE "lp_parse")
    /\ UNCHANGED <<nodeVars, ircVars, deleted, kernelVars, serverVars, obj, lconn,
                   source, keeps, historyVars>>

\* if (_cancel) return, without a disconnect().
LoopEnd(l) ==
    /\ pc[l] = "lp_end"
    /\ Goto(l, IF cancel THEN "done" ELSE "lp_disc")
    /\ UNCHANGED <<nodeVars, ircVars, deleted, kernelVars, serverVars, obj, loopVars,
                   readVars, given, historyVars, ended>>

LoopDisconnect(l) ==
    /\ pc[l] = "lp_disc"
    /\ conn # None
    /\ obj' = [obj EXCEPT ![l] = conn]
    /\ Goto(l, "dc_check")
    /\ UNCHANGED <<nodeVars, ircVars, deleted, kernelVars, serverVars, loopVars,
                   readVars, given, historyVars, ended>>

-----------------------------------------------------------------------------
(* write_one() and run_cmd(): nothing asks whether the node is open; a       *)
(* command to an object that is not connected is dropped without a word.    *)

Command(w) ==
    /\ pc[w] = "idle"
    /\ conn # None
    /\ connected[conn]
    /\ obj' = [obj EXCEPT ![w] = conn]
    /\ Goto(w, "wr_print")
    /\ UNCHANGED ended

WriteBegin(w) ==
    /\ ~legacy /\ pc[w] = "idle"
    /\ \/ Command(w)
       \/ conn = None /\ EndWith("null") /\ UNCHANGED <<obj, pc>>
    /\ UNCHANGED <<nodeVars, ircVars, deleted, kernelVars, serverVars, loopVars,
                   readVars, given, historyVars>>

\* write_out() of v0: whoever calls it keeps the stream alive.
WriteOut(w) ==
    /\ legacy /\ pc[Control] = "idle"
    /\ Command(w)
    /\ UNCHANGED <<nodeVars, ircVars, deleted, kernelVars, serverVars, loopVars,
                   readVars, given, historyVars>>

WritePrint(w) ==
    /\ pc[w] = "wr_print"
    /\ Output(w)
    /\ obj' = [obj EXCEPT ![w] = None]
    /\ Goto(w, "idle")
    /\ UNCHANGED <<nodeVars, ircVars, deleted, kernelVars, serverVars, loopVars,
                   readVars, given, historyVars>>

\* A caller works on an object that has been deleted, and the program ends.
UseDeleted(t) ==
    /\ obj[t] \in deleted
    /\ pc[t] \notin {"idle", "none", "done", "op_queue", "op_start", "cl_null"}
    /\ EndWith("misuse")
    /\ UNCHANGED <<nodeVars, ircVars, deleted, kernelVars, serverVars, pc, obj,
                   loopVars, readVars, given, historyVars>>

-----------------------------------------------------------------------------
(* read(), and remove() on the queue that stream() returned                 *)

\* A node that is not open returns void.
ReadBegin(r) ==
    /\ ~legacy /\ pc[r] = "idle"
    /\ conn # None
    /\ Goto(r, "rd_get")
    /\ UNCHANGED <<nodeVars, ircVars, deleted, kernelVars, serverVars, obj, loopVars,
                   readVars, given, historyVars, ended>>

\* update() of v0 pops from the stream it keeps alive.
Update(r) ==
    /\ legacy /\ pc[Control] = "idle" /\ pc[r] = "idle"
    /\ conn # None
    /\ source' = [source EXCEPT ![r] = conn]
    /\ keeps' = [keeps EXCEPT ![r] = TRUE]
    /\ Goto(r, "rd_take")
    /\ UNCHANGED <<nodeVars, ircVars, deleted, kernelVars, serverVars, obj, loopVars,
                   queue, given, historyVars, ended>>

\* read() calls through _qvp; stream() copies it, and a null is just returned.
ReadGet(r) ==
    /\ pc[r] = "rd_get"
    /\ \/ /\ qvp # None
          /\ source' = [source EXCEPT ![r] = qvp]
          /\ \E b \in BOOLEAN : keeps' = [keeps EXCEPT ![r] = b]
          /\ Goto(r, "rd_take")
          /\ UNCHANGED ended
       \/ /\ qvp = None
          /\ \/ EndWith("null") /\ UNCHANGED pc
             \/ Goto(r, "idle") /\ UNCHANGED ended
          /\ UNCHANGED <<source, keeps>>
    /\ UNCHANGED <<nodeVars, ircVars, deleted, kernelVars, serverVars, obj, loopVars,
                   queue, given, historyVars>>

\* Nobody holds the queue of session s any more.
LetGo(s) == s # qvp /\ ~\E r \in Readers : keeps[r] /\ source[r] = s

\* The oldest message; or, the queue having been destroyed, an exception.
ReadTake(r) ==
    LET s == source[r] IN
    /\ pc[r] = "rd_take"
    /\ \/ queue[s] # <<>> /\ queue' = [queue EXCEPT ![s] = Tail(@)]
       \/ queue[s] = <<>> /\ LetGo(s) /\ UNCHANGED queue
    /\ source' = [source EXCEPT ![r] = None]
    /\ keeps' = [keeps EXCEPT ![r] = FALSE]
    /\ Goto(r, "idle")
    /\ UNCHANGED <<nodeVars, ircVars, deleted, kernelVars, serverVars, obj, loopVars,
                   given, historyVars, ended>>

-----------------------------------------------------------------------------
(* The server                                                               *)

\* Somebody may still receive on c; what the server does else is of no effect.
Attached(c) == c \in fds \/ \E l \in Sessions : lconn[l] = c

ServerSend(c) ==
    /\ Attached(c) /\ c \notin hup
    /\ sent < MaxLines
    /\ sent' = sent + 1
    /\ inq' = [inq EXCEPT ![c] = @ \o <<2 * sent + 1, 2 * sent + 2>>]
    /\ UNCHANGED <<nodeVars, ircVars, deleted, kernelVars, conns, hup, quits, pc, obj,
                   loopVars, readVars, given, historyVars, ended>>

ServerHangup(c) ==
    /\ Attached(c) /\ c \notin hup
    /\ hup' = hup \cup {c}
    /\ UNCHANGED <<nodeVars, ircVars, deleted, kernelVars, conns, inq, quits, sent, pc,
                   obj, loopVars, readVars, given, historyVars, ended>>

-----------------------------------------------------------------------------
ControlStep ==
    \/ OpenQueue \/ OpenStart
    \/ CloseQuit \/ CloseSay \/ CloseJoin \/ DestructJoin \/ CloseNull
Disconnect(t) ==
    \/ DisconnectCheck(t) \/ DisconnectFclose(t) \/ DisconnectMark(t) \/ DisconnectSocket(t)
LooperStep(l) ==
    \/ LoopLost(l) \/ LoopStart(l) \/ LoopConnect(l) \/ LoopMark(l) \/ LoopHello(l)
    \/ LoopMessages(l) \/ LoopRecv(l) \/ LoopData(l) \/ LoopHangup(l) \/ LoopParse(l) \/ LoopEnd(l)
    \/ LoopDisconnect(l)
ReaderStep(r) == ReadGet(r) \/ ReadTake(r)
Running == ended = "no"

Next ==
    /\ Running
    /\ \/ OpenBegin \/ CloseBegin \/ Construct \/ Destruct \/ ControlStep
       \/ \E t \in Movers : Disconnect(t)
       \/ \E t \in Callers : UseDeleted(t)
       \/ \E l \in Sessions : LooperStep(l) \/ LoopError(l)
       \/ \E w \in Writers : WriteBegin(w) \/ WriteOut(w) \/ WritePrint(w)
       \/ \E r \in Readers : ReadBegin(r) \/ Update(r) \/ ReaderStep(r)
       \/ \E c \in Conns : ServerSend(c) \/ ServerHangup(c)

Spec == Init /\ [][Next]_vars

\* Loopers, and the thread in open() or close(), run whenever they can;
\* connect() ends by its timeout and sleep() by its own; a server that was told
\* QUIT hangs up.  Writers may stop anywhere, and so may readers in FairSpec.
\* (Each subscript has what such a step always changes.)
Fairness ==
    /\ WF_pc(Running /\ (ControlStep \/ Disconnect(Control)))
    /\ \A l \in Sessions : WF_<<pc, lines>>(Running /\ (LooperStep(l) \/ Disconnect(l)))
    /\ \A c \in Conns : WF_hup(Running /\ c \in quits /\ ServerHangup(c))

ReaderFairness == \A r \in Readers : WF_vars(Running /\ ReaderStep(r))

FairSpec == Spec /\ Fairness
FairReaderSpec == FairSpec /\ ReaderFairness
-----------------------------------------------------------------------------
(* Properties                                                               *)

\* Across lost connections, and whatever recv() cuts, got_privmsg() makes at
\* most one message of a line, of all of it or of its tail, and adds them to a
\* queue in the order in which the server sent the lines.
LineOf(h) == (h + 1) \div 2
InOrder ==
    ~reopened => \A s \in Sessions : \A i, j \in DOMAIN given[s] :
        i < j => LineOf(given[s][i]) < LineOf(given[s][j])

\* Unless open() comes before close(), a looper never finds _conn or _qvp null:
\* close() takes them away only after the looper has returned, and it returns
\* without looking at them.
LooperKeepsNode == ~reopened => ended # "lost"

\* After a close() that found the looper in message_loop() there is no looper,
\* and of every connection that was ever made FILE and descriptor have been
\* closed, even if the server was hanging up meanwhile.  (Of what open() opened
\* only the log is left.)
ClosedIsQuiet ==
    (~reopened /\ ~away /\ pc[Control] = "idle" /\ conn = None) =>
        /\ \A s \in Sessions : pc[s] \in {"none", "done"}
        /\ fds = {} /\ files = {}

\* "When the IRC network burps and closes our connection, just log in again":
\* a connection that the network has hung up on does not stay the last one of an
\* open node, unless the network refuses the next, or somebody ends the program.
Reconnects ==
    []<>(\/ \A c \in hup : c < MaxConns => conns > c
         \/ conn = None \/ cancel \/ reopened \/ ended \in {"refused", "null", "misuse"})

\* A close() that finds the looper in message_loop() returns: QUIT goes out
\* before the FILE is closed, the server hangs up, and recv(), which a close of
\* the descriptor would not wake, ends.  So the thread that opens and closes is
\* never for ever inside a call.
CloseReturns == []<>(pc[Control] = "idle" \/ away \/ reopened \/ ~Running)

\* What CloseReturns rests on.  A close() that found the looper in message_loop()
\* waits at its join for a looper that has returned, or that has nothing left to
\* wait for: it sees that the object is not connected, a recv() that it begins
\* fails, and the server was told QUIT on the connection that it receives on.
JoinCannotHang ==
    (pc[Control] = "cl_join" /\ ~away /\ ~reopened) =>
        /\ cancel /\ pc[loop] \in InMessageLoop \cup {"done"}
        /\ ~connected[loop] /\ irc_socket[loop] \notin fds
        /\ pc[loop] = "lp_wait" => lconn[loop] \in quits

\* A pipeline that drains the stream "won't return until the bot is stopped":
\* once it is, a reader that holds the queue returns.
StreamEnds ==
    \A r \in Readers :
        (pc[r] = "rd_take" /\ conn = None /\ pc[Control] = "idle")
            ~> (pc[r] # "rd_take" \/ conn # None \/ ~Running)
=============================================================================
