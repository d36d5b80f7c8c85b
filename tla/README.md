# A verification model of the sensory nodes

TLA+ modules for the *sensory* repository: objects ("nodes") through which
Atomese talks to sockets, files, directories, terminals, IRC and language
models. Every node answers the same few messages (`*-open-*`, `*-close-*`,
`*-read-*`, `*-write-*`, `*-stream-*`, `*-follow-*`, `*-barrier-*`), any thread
may send any message at any time, reads block, and several nodes run a thread of
their own. The code protects some of this with mutexes and leaves the rest to
luck or convention. What can go wrong is therefore mostly a matter of
interleavings, which is what the modules describe.

All source paths below are under `src/opencog/atoms/`.

## 1. Inventory

### 1.1 Components

| Component | State it keeps | Operations | Talks to |
|---|---|---|---|
| `sockets/TcpSocketNode`, `sockets/UnixSocketNode` | `_mtx`, `_listen_fd`, `_client_fd`, `_read_buf`, `_sock_path` | open, close, do_accept, do_read, do_write | kernel sockets, one client |
| `filedir/FileWatcher` | `_mtx`, `_inotify_fd`, `_watch_fd`, `_watch_thread` | add_watch, remove_watch, wait_event, poll_and_add_events, start_watching, stop_watching | inotify; owned by the two file nodes |
| `filedir/TextFileNode` | `_mtx`, `_fh`, `_tail_mode`, a FileWatcher | open, close, follow, do_read, do_write, barrier | stdio, FileWatcher |
| `filedir/FileSysNode` | `_cvp`, `_cwd`, a FileWatcher | open, close, stream, read, write (`pwd ls watch cd special ...`) | directories, a shared container, FileWatcher's thread |
| `ollama/OllamaNode` | `_loop`, `_cancel`, `_req_queue`, `_qvp` | open, close, looper (thread), write, read, stream, `*-embedding-*` | HTTP server, two queues |
| `irc/IRChatNode`, `irc/IRC` | `_conn`, `_loop`, `_cancel`, `_qvp`; socket, channel and user lists | open, close, looper (thread), callbacks, read, write; start, message_loop, disconnect, parse_irc_reply | IRC server, a queue |
| `terminal/TerminalNode` | `_mtx`, `_fh`, `_xterm_pid` | open, halt, do_read, do_write | stdio, an xterm process |
| `sensory/SensoryNode`, `StreamNode`, `TextStreamNode` | `_item_type` | dispatch of messages; `write()` pumps a container or stream into the node | every node |
| `sensory/ReadStream`, `StringStream` | `_value`, the node it reads | value() | the pump and the nodes |
| `sensory-v0`, `filedir-v0`, `terminal-v0`, `irc-v0` | a FILE, directory or connection per stream value | the same, one generation back: a stream value opens in its constructor and closes in its destructor, or at end of file | links that copy streams |
| types, scheme modules, cython, cmake | none | | |

How they interact: SensoryNode turns a message into a virtual call on the node
in the thread of the sender. A node's `write()` may be a pump that reads from
another node's container until that is closed. FileSysNode, OllamaNode and
IRChatNode own a background thread that fills a container which readers drain in
their own threads; only the container is synchronised, the pointers to it are
not. TextFileNode and FileSysNode share the FileWatcher class, each instance
having its own mutex and inotify descriptor.

### 1.2 What is hard, and what makes each component correct

* **Sockets.** The lock is held during `accept()`, dropped during `read()` and
  `write()`. Descriptor numbers are copied and used later, when the kernel may
  have given the number to something else. Correct means: bytes arrive once, in
  order, cut after newlines, and never next to those of an earlier client;
  every descriptor is closed once; a reader comes back.
* **FileWatcher.** Descriptors again, copied under a lock and used outside it;
  a thread told to stop only by closing what it polls. Correct means: no event
  is dropped, and `stop_watching()` returns.
* **TextFileNode.** `open()` and `follow()` take no lock, `close()` and
  `do_read()` do, and stdio is used outside it. The end-of-file flag of stdio is
  a state of its own. Correct means: no append is slept through, a close ends
  the read, a FILE is neither lost nor used after it is closed.
* **FileSysNode.** No lock at all; `_cvp` is replaced by open and watch while
  the watch thread and readers hold the old one. Correct means: whoever is left with
  an old container is told, events arrive, a closed node is quiet, and a command
  closes its directory however it ends.
* **OllamaNode.** No lock at all; two queues and a flag. Correct means: answers
  belong to the session that asked, in order, close returns, and the JSON written
  and read by hand says what was meant, whatever characters that takes.
* **IRC.** A looper that reconnects and sleeps, a close that disconnects from
  its own thread and joins; a list of users per channel updated by eight kinds
  of server message. `recv()` cuts lines, and nothing joins them again. Correct
  means: messages in order and at most one of each line, a lost connection is made
  again, close returns and leaves no socket.
* **Terminal.** A process id and a FILE that readers and `halt()` share; only
  `halt()` is locked, and in v0 nothing is. A reader at the end of file halts what
  the terminal has by then. Correct means: no FILE is forgotten, no xterm either if it
  got its FILE, and none is used once closed unless calls cross.
* **Pump.** A loop whose end depends on how containers and streams report that
  they are exhausted, and which ends with an exception as often as by returning.
  Correct means: everything is written once, in order, to the last item, and the
  pump ends when what it copies between is closed.

The list `hazards` in `PROJECT.json` names each of these at its line, with the
property that watches it or the reason why none does.

## 2. Modules

| Module | Models | Status |
|---|---|---|
| `SocketNode` | both socket nodes, the descriptor table, clients | checked, proved |
| `LineStream` | what a line reader promises, abstractly | refined by `SocketNode` |
| `SocketNodeMC` | symmetry for TLC | |
| `SocketNodeProofs` | types, conservation of bytes, no leak | proved |
| `SocketStreamProofs` | what callers and clients get, what a reader blocks for; the refinement | proved |
| `FileWatcher` | state and operations of FileWatcher, inotify | extended by the next two |
| `FileWatcherProofs` | lemmas about those operations | proved |
| `TextFileNode` | TextFileNode with a FileWatcher, stdio, a growing file | checked, proved |
| `TextFileNodeProofs` | types, tail mode, FILEs lost, the wait for an event | proved |
| `FileSysNode` | FileSysNode with a FileWatcher, its thread, containers, directory commands; FileSysStream of v0 | checked, proved |
| `FileSysNodeProofs` | types, directories, containers, watch thread, its events and its join | proved |
| `JsonText` | the JSON strings of OllamaNode, and those of the server | extended by the next |
| `OllamaNode` | OllamaNode with its looper, its queues, the server | checked, proved |
| `SessionService` | what a node promises that answers prompts in sessions, abstractly | refined by `OllamaNode` |
| `OllamaNodeProofs` | types, answers, close, queues, the JSON strings; the refinement | proved |
| `IRChatNode` | IRChatNode with its looper, the IRC objects, the server; IRChatStream of v0 | checked, proved |
| `IRChatNodeProofs` | types, messages, close and its join, members | proved |
| `TerminalNode` | open, halt, FILE and xterm of TerminalNode; TerminalStream of v0 | extended by the next |
| `StreamNode` | dispatch and the pump of `write()`, over terminals, ReadStream, StringStream, containers; WriteLink, OutputStream, TextFileStream of v0 | checked, proved |
| `StreamNodeProofs` | types, terminals, the pump, the lines of readers | proved |
| `StreamNodeMC` | the programs for TLC | |

All have the same form. Constants are the sets of threads, the names that the kernel
or stdio hands out, and bounds (each marked "bound" where it is declared). `pc[t]`
says where thread `t` is; a label exists for each point where another thread can get
in between: a lock taken or dropped, a system or library call, a member read without
the lock. One action is one such step with everything the code does in it, in the
code's order, errors and early returns included. The variable `legacy` of
`FileSysNode`, `IRChatNode` and `TerminalNode` is chosen once and says which
generation of the class a behaviour is about; the two share the actions that their
code shares. "History" variables (`closes`, `rcvd`, `raced`, ...) count or record what
happened; no guard of the code looks at them, except that bounds do.

### 2.1 SocketNode

`open()` is `OpenBegin`, `OpenSocket`, `OpenBind`, `OpenListen`; socket, bind
and listen may each fail, by `OpenFail`. `close()` is `CloseLock`,
`CloseDescriptors`, `CloseFinish`: one locked region, in two steps because
readers and writers outside the lock see it in the middle. `do_accept()` is
`AcceptBlock`, reached by `ReadLock`/`ReadAccept` and `WriteLock`/`WriteAccept`
with the lock held. `do_read()` then is `ReadScan`, `ReadTake`, `ReadCopy`,
`ReadCall`, `ReadData` or `ReadNothing`, `ReadAppend`, `ReadEof`; `do_write()`
is `WriteSome` repeated, or `WriteFail`, or `WriteKilled`: a write to a client that has
hung up raises SIGPIPE, which ends the program (`Alive`) unless the program that embeds
the nodes ignores it, when it fails like any other. A byte is a record of the connection it
came on, its position there and whether it is a newline. `UnixDomain` tells the
two classes apart: they differ in the socket file, and map to the lines of
either.

The kernel is a table from descriptor names to what they name. A `::read()`
looks the name up once (`ReadCall`) and then keeps the object, so closing the
name does not wake it. `Interrupts` lets a read fail by a signal.

Two `std::string` operations on `_read_buf` by two threads at once are a data
race; the model lets them happen one after the other in either order, and the
properties about bytes leave histories with such overlaps out (`torn`).

`ImplementsLineStream` maps `SocketNode` up to its first `close()` to
`LineStream`: `arrived` is what the client sent, `taken` what calls returned,
`over` that the client hung up.

### 2.2 FileWatcher, TextFileNode

Each region under FileWatcher's own mutex is short and is one step. An inotify
instance has a name that may be used again once it is closed, and a queue that
drops an event equal to its last one. `cleanup_watch` and `cleanup_inotify`
always occur together and are `RemoveWatch`.

In `TextFileNode` a file is a sequence of characters of which only "newline or
not" counts; a FILE has a position and a sticky end-of-file flag. `do_read()` is
`ReadBegin`, `ReadCopy` (the top of the loop), `ReadGets`, then either
`ReadEnd`/`ReadFclose`/`ReadForget`, or `ReadClear`, `ReadCheck`, `ReadPoll` and around,
with `ReadFail`/`ReadFclose`/`ReadForget`/`ReadUnwatch` as the handler of the exception.
The `fclose()` and the nulling of `_fh` are two steps everywhere, since `open()` takes
no lock and may publish a FILE between them. `wait_event()` spins
on a descriptor that does not block, which here is waiting. stdio on a FILE that
was closed is undefined: `fgets()` gets nothing, or, if the FILE was handed out
again, works on the new file; `misuse` records it.

### 2.3 FileSysNode

Containers are numbered as they are created; `cvp` is the current one. `open()`
is `OpenClose`, `OpenNew`. The watch command is `WatchClose`, `WatchNew` and the
three lock regions of `start_watching()`: `WatchCheck`, `WatchAdd`,
`WatchSpawn`. `close()` is `CloseStop`,
`CloseJoin`, `CloseContainer`, `CloseNull`. The watch thread is `PollCheck`,
`PollWait`, `PollRead`, `PollAdd`. A call through a null `_cvp`, an exception
that leaves the watch thread, and an assignment to a running `std::thread` set
`terminated`, after which nothing happens.

The other commands are `CommandBegin`, then for those that list the directory the
node is in `OpenDir`, `ListEntry` once for each entry in any order, `ListEnd`; for
those with an argument `ArgumentOf`; and `CommandReply`. `_cwd` is read when the
directory is opened. "stat" stands for btime, mtime and filesize; "." and ".." are one
entry `Dot`. What an answer says is left out.
The FileSysStream of v0 is the same without container, watch and open:
`WriteOut`, `LegacyEntry`, `LegacyArgument`, `LegacyReply`.

A reader keeps the container it took from. `read()` in the code holds only a
reference to `_cvp`; that the container could be destroyed under a blocked
`remove()` is left out here.

### 2.4 OllamaNode, JsonText

What an `open()` makes has the number of that open: its queues and its looper.
The looper is `LoopTop`, `LoopGet`, `LoopRemove`, `LoopCheck`, `LoopPost`,
`LoopOffer`, `LoopAdd`: `_cancel`, `_req_queue` and `_qvp` are read again at each
of these. Readers hold the answer queue (`stream()`) or only use it (`read()`);
once nobody holds it, it is destroyed and a blocked reader gets void. Messages
other than reads and writes come from one thread.

`JsonText` has a text as code points, a `std::string` as bytes, and a JSON string as
units: a byte, an escaped character, the four digits of a `\u`. `json_escape`,
`json_get_string` and `json_decode_uXXXX()` (`IsPair`, `CodePoint`, `Decoded`) are
the code's; `json_get_string` is a recursive function of the position, which at each
one gives the bytes of its `Piece` and goes on by what was `Taken`. `Utf8` and
`Encodings`, all the spellings of a text that RFC 8259 allows (`Spelt` has one spelling
of each character, and an encoding is these one after the other), are the
reference they are checked against, at every `LoopPost`. A text is of any characters of
Unicode (`TextAssumption` leaves out only surrogates, which are none). `garbled` records
which kinds of text were not understood: prompts with a control character that
`json_escape()` leaves as it is (`Bare`), answers in which the server wrote `\b` or `\f`
(`Unread`), and all others. `Asking` and `Hearing` collect what may be lost of the texts,
so that TLC goes through them once. Digits that are none make `std::stoul()` throw out
of the looper.

`ImplementsService` maps `OllamaNode` to `SessionService` until an open node is opened.
`accepting` is the session in `_req_queue` while that queue is open, `serving` the same
until the looper is joined; `asked`, `told` and `waiting` are what was added to the queue,
what was answered, and the answers still in theirs. So `OpenRequests` is `Start`,
`CloseRequests` is `StopAccepting`, `CloseJoin` is `StopServing`, and between
the last two the looper may still answer.

### 2.5 IRChatNode

The IRC object, the looper and the queue that an `open()` makes have its number, and so
has the log that the IRC object opens and nobody closes (`logs`).
`disconnect()` is `DisconnectCheck`, `DisconnectFclose`, `DisconnectMark`,
`DisconnectSocket`, taken by the looper or by `close()`, which is `CloseBegin`,
`CloseQuit`, `CloseSay`, a disconnect, `CloseJoin` and `CloseNull`. The looper is
`LoopStart`, `LoopConnect`, `LoopMark`, `LoopHello` (`IRC::start()`), `LoopMessages`,
`LoopRecv`, `LoopData`/`LoopHangup`/`LoopError`, `LoopParse`
(`IRC::message_loop()`), `LoopEnd`, `LoopDisconnect`, and then the sleep, which is
the time spent before the next `LoopStart`. `LoopLost` is a looper that finds
`_conn` or `_qvp` null. `recv()` looks its descriptor up once; a close of the
descriptor does not wake it. A line is two halves, of which `recv()` may return
one without the other. `split_to_replies()` (`Replies`) keeps the whole lines, drops a
head at the end of a chunk, and hands on a tail at the beginning of one; if that tail is
the newline alone, it goes before the next line and spoils it. Whether a line, or a
tail, is a PING, a message or nothing is decided when it is parsed; a tail may also lack
parameters that the code then reads through a null pointer, which ends the program. The
second close of the descriptor in `disconnect()` closes a later connection if the number
has been used again.

IRChatStream of v0 does the same in its constructor and destructor (`Construct`,
`Destruct`, `DestructJoin`, `WriteOut`, `Update`); it is its own queue, and is not
destroyed while a reader or writer has a reference to it.

A FILE used after `fclose()` and an object used after `delete` are undefined: the
model goes on as if nothing had happened, or ends the program.

### 2.6 TerminalNode, StreamNode

A fork that succeeds begins a session: its FILE and its xterm have its number.
`open()` is `OpenBegin`, `OpenFork`, `OpenFopen` (each call between may fail),
`close()` is `CloseBegin` and then `halt()`: `HaltLock`, `HaltClose`, `HaltNull`,
`HaltReturn`. `do_read()` is `ReadCheck`, `ReadGets`, and `halt()` at the end of
file; `do_write()` is `NotOpen` or `TakeFile`, then `WritePrint`. The TerminalStream of
v0 has `Construct...`, `Drop`, `UpdateCheck` and `UpdateGets` in their place, and no
lock. The user of an xterm types (`Type`) and closes it (`Leave`).
`fgets_unlocked()` may return a line twice after a write by another thread
(`torn`), as the comment in `do_read()` says it does; the FILE then has not moved past
it (`stuck`). `again` records the pumps that hold what they have held before, because
their FILE was stuck or because their ReadStream was asked while its node was not open.
The -1 of a failed fork given to `kill()` ends every xterm and, on Linux, not the caller.

A pump is a thread in `StreamNode::write()`: `Start`, then the next values of what it
copies (`StringUpdate`, `StreamUpdate`, `ContainerCheck` and `ContainerRemove`, or
the `*-read-*` of a terminal), `WriteOne` for each, and `PassEnd`, which decides
whether the loop goes on. In v0 it is a WriteLink with an OutputStream:
`LegacyStart`, `LegacyWriteOne`, and `FileUpdate` for a TextFileStream. What a pump
copies, from where and to where, and who opens and closes, is the program `job` of a
behaviour. `StreamNodeMC` has six: two bridges between two xterms, one of each
generation, written after `examples/xterm-bridge.scm`; two echoes within one; a
container, and a file, shown on an xterm.

Containers, `concurrent_queue` and `std::thread` are outside the repository and
are modelled from how the code uses them: `remove()` waits for an item or for
the close of an empty container, when a queue throws and a container that is
pumped may also return something to skip; `value()` of a closed container
drains it, so that a second one finds nothing; `add()` to a closed one throws. That
`StreamNode::write()`, which falls through from its loop for containers to the one for
streams, ends there rests on this.

## 3. Runs

| Run | Question | Bounds |
|---|---|---|
| `SocketSession` | safety over two clients in a row, a close and reopen between them, signals, failing system calls | 1 reader, 1 writer, 1 control thread, 2 clients of 2 bytes, 2 names, 1 close |
| `SocketStream` | one conversation, with liveness and refinement | 1 client of 3 bytes, 2 strings of 2 bytes, no close |
| `SocketCloseRead` | does close() break out of a blocking read? no | 1 client, 1 close |
| `TextFileTail` | tailing with open, follow, close, failures | 1 reader, 1 writer, 1 control, 2 characters, 3 calls, 2 FILEs, 2 inotify names |
| `TextFileClose` | does a reader use a FILE after close()? yes | the same without the writer |
| `TextFileSticky` | does a reader wait only at the end of the file? no | the same without the writer |
| `FileSysSession` | messages from two threads, directory commands, watch; and v0 | 2 control threads, 4 messages, of which 3 may overlap (a fourth only to close a node that is being closed), 2 directories of 2 entries, 2 changes; 3 commands of v0 |
| `FileSysReopen` | is a watch closed only by close()? no | 1 control thread, 3 messages |
| `OllamaSession` | two sessions, prompts, answers, close | 1 writer, 1 reader, 2 opens, 2 prompts, texts of at most 2 out of 8 characters |
| `IRChatSession` | messages, lost connections, close at every point | 1 writer, 1 reader, 1 open, 2 connections, 2 lines |
| `StreamPumps` | pumps of both generations against open, close, users and failures | 6 programs of 1 or 2 pumps and 1 or 2 control threads, 2 xterms, 2 lines, 1 repeat |
| `IRChatStream` | does the stream end when the node is closed? no | 1 reader, 1 open, 1 connection, 1 line |

Why the bounds are enough to be interesting: two descriptor names are the listener and
the client, so a name is used again as soon as it is free, and accept runs out of
names. Two clients are the fewest that can be mixed up. Three bytes hold a line, a
split line and an unterminated rest. One close between two opens gives every reader a
stale descriptor. Two FILEs let a reader hold one while the node has the other. Four
messages hold open, watch, open or watch, close; with three, two that overlap still
find a node that was opened. Two directories let a cd take the node to the other.
The eight characters are a quote, a backslash, a slash, a newline, a backspace, the letter
u, one of two bytes and one of four, alone and next to each other. Two prompts of two
sessions let an answer be late by a session. Two connections are the fewest of which the second
replaces the first, and two lines the fewest that have an order; a second session of
IRChatNode is left to a URL that fails, which is enough to take `_conn` away from a
looper. Two xterms are a bridge, or one terminal opened again under a reader of the
first; two lines, in a bridge of the current generation one, let a line be lost,
repeated or overtaken.

`SYMMETRY` is used in `SocketSession` only, over clients and descriptor names,
where there is no liveness property and the constants are not mentioned
otherwise. `CHECK_DEADLOCK FALSE` is set everywhere because each system really
may stop: bounds on calls are used up, an `accept()` waits for a client that
does not come, or the program ends.

### 3.1 What the properties say

`SocketNode`
* `ByteConservation`: returned bytes, `_read_buf`, the chunk in hand and the
  kernel's queue together are exactly what the current client sent.
* `ReturnsOneLine`, `ImplementsLineStream`: results are lines.
* `NoFdLeak`, `SocketFileFollowsListener`: nothing stays behind.
* `OutInOrder`: the loop over partial writes neither repeats nor skips.
* `LineServed`, `HangupEndsRead`: a reader with something to return returns.
* `BlocksForRest`: a reader in `::read()` has no whole line in hand, and blocks on the
  client that the node has.

`TextFileNode`
* `TailIsWatched`, `AppendWakes`, `ClosedEndsRead`: a tail never sleeps through
  an append made after its watch began, nor through a close.
* `LostOnlyByReopen`: only `open()` on an open node loses a FILE, or a reader that has
  closed its own and then forgets the one an overlapping `open()` has put in its place.
* `WaiterIsWoken`: in each state, a reader that waits has an event to read if
  something came after its watch that it has not read, and an instance that is closed
  once the node is. With two readers this is false: both wait on one instance, and the
  first takes the event of the second.

`FileSysNode`
* `LeftBehindIsClosed`, `ClosedIsQuiet`, `CloseReturns`,
  `EventReachesContainer`.
* `JoinCannotHang`: the thread that `close()` joins finds no watch at its next check, and
  is not in `poll()` or `read()` on a name that is open.
* `EventsHandedOn`: no step drops an event on its way from inotify to the container,
  unless it takes the watch down before the event was read, or ends the program.
* `DirsClosed`: a command that ends, also by an exception, has closed its DIR.

`OllamaNode`
* `AnswersInOrder`: each session answers its own prompts, in order.
* `PromptAnswered`, `ClosedIsQuiet`, `CloseReturns`.
* `JoinCannotHang`: the looper that `close()` joins has no open queue to wait on, also
  if an open node was opened.
* `ImplementsService`: open and close begin and end sessions, one after the other, and
  what is asked in one is answered in it, although nothing is locked.
* `LooperHasQueues`: the queues of its own session are in `_req_queue` and `_qvp`
  whenever the looper reads these.
* `TextsSurvive`: the server reads what was written and the reader gets what the
  server meant, however that is spelled and whatever characters it is made of, but for
  prompts with a bare control character and answers spelled with `\b` or `\f`.

`IRChatNode`
* `InOrder`: a line makes at most one message, of all of it or of its tail, and
  messages reach the queue in the order of their lines, over reconnects and however
  `recv()` cuts.
* `LooperKeepsNode`: `_conn` and `_qvp` outlive the looper.
* `ClosedIsQuiet`, `CloseReturns`: a close that finds the looper in
  `message_loop()` gets it out of `recv()`, returns, and leaves no thread and of no connection
  a FILE or a descriptor, even if the server hangs up meanwhile. The log stays open.
* `JoinCannotHang`: such a close joins a looper that will find itself unconnected, and
  whose `recv()` is on a connection on which the server was told QUIT.
* `Reconnects`: a connection the network has hung up on does not stay the last of an open
  node.

`TerminalNode`, `StreamNode`
* `NoOrphan`: an open FILE is some terminal's `_fh` and a running xterm its
  `_xterm_pid`, whatever fails in `open()` and whoever halts first. One case is false and
  excepted by name (`Forgotten`): after a failed `fopen()` the terminal has an xterm and
  no FILE, `open()` takes it for closed, and a second fork leaves nobody who knows of the
  first xterm.
* `Unharmed`: a FILE is used after `fclose()` only if a halt meets an open, a halt or
  a reader or writer.
* `InOrder`, `Complete`: a pump writes what was typed or added, once, in order, and
  all of it if it ends because its source is exhausted. Only the line written last may
  come again, at once: from a FILE that has not moved past it, or from a ReadStream
  whose node was not open when it was asked.
* `PumpsEnd`: pumps end once what they copy between is closed.

Seven of these are theorems and in no cfg, since a run that checks their neighbours says as
much on its bounds. `BlocksForRest`, `WaiterIsWoken` and the three `JoinCannotHang` are the
safety halves of liveness properties beside them: no thread is ever where nothing will
get it out, which a proof can establish, and fairness does the rest, which is TLC's.
`AnswersInOrder` and `LooperHasQueues` are what `ImplementsService` rests on: a
session could not answer its own prompts in their order without them. All seven hold on
the bounds of the run of their module when they are added to its cfg.

Several properties are stated for histories without certain overlaps (`torn`, `raced`,
`overlap`, `reopened`, `crossed`, `cut`): two reads at once or a close during a read
of a socket; an open or follow during a read of a file; two messages to a directory
node at once; an open of an Ollama or IRC node that is open; a close of an IRC node
(`away`) while its looper sleeps, connects, or has just left `message_loop()` to
disconnect; an open or halt of a terminal that meets
another, or a reader or writer. The code takes no lock there and no document promises
anything. The overlapping steps are in the model all the same, so that the rest is
checked in their presence, and the hazard list says what they lead to. What such a
property does not say is plain from its name for the overlap: `NoFdLeak`, with one
control thread, is not about two opens at once, nor is `Unharmed` about a halt under a
reader, nor `ImplementsService` about a node that is opened twice.

### 3.2 Where the code and its documents disagree

Five runs expect a violation.

1. `CloseBreaksRead`. The headers of both socket nodes call `close()` the way to
   break out of a blocking read. A reader in `accept()` holds the lock `close()`
   needs; a reader in `::read()` is not woken by closing the descriptor.
2. `NoUseAfterClose`. The header of TextFileNode says that tail mode makes the
   design thread safe. `fgets()` runs on a copy of a FILE that `close()` closes.
3. `WaitsOnlyAtEnd`. The comment on `do_read()` says that it waits when the end
   of the file is reached. After a line without a newline stdio's flag says
   "end" although more has been appended, and the reader waits on top of it.
4. `WatchedUntilClosed`. The design notes say that a watch goes on until
   `*-close-*`. A second open or watch closes its container and leaves the
   thread, which will throw at its next event.
5. `StreamEnds`. The echo bot example says that a listener returns when the bot is
   stopped. `close()` drops the queue of messages without closing it.

Without a run of their own, because they follow from single lines:

* `examples/xterm-bridge.scm` (161-166) says that writing the `*-stream-*` of a
  terminal to another is an infinite loop that ends with its input. What
  `TextStreamNode::stream()` returns is a StringStream, which `sensory_types.script` (12)
  derives from StringValue, so `StreamNode::write()` takes it for a value: it copies
  one line and returns (`PassEnd`).
* `StreamNode.cc` (167) copies a stream "until it is exhausted". A ReadStream of a node
  that is not open keeps its last value (`ReadStream.cc` 59) and is never exhausted
  while the node written to is open; `InOrder` allows for that repetition.
* `json_escape()`, by its comment an escape "for JSON embedding", leaves control
  characters other than newline, return and tab as they are, which is not JSON.
  `TextsSurvive` leaves such prompts to the server.
* `json_get_string()`, by its comment "with JSON escapes decoded", has no case for
  `\b` and `\f` (`OllamaNode.cc` 287-301) and reads them as the letters b and f;
  `TextsSurvive` leaves such answers out.
* `json_get_string()` takes the first occurrence of a quoted key for the key, also
  where it is a value: a model of the name "response" is read as an empty answer.
* `StreamEqualLink::compare()` (`StreamEqualLink.cc` 100) swaps its arguments whenever the
  second is a node, also if both are, so that a type node is compared by type with
  a node before it and by name with a node behind it, although the link is unordered.

### 3.3 Fairness

Weak fairness of each thread that is inside a call (`ReaderStep`, `WriterStep`,
`ControlStep`, ...) and of the background threads: the operating system runs threads
that can run, and `std::mutex` is eventually given to a waiter in these small runs,
where no thread takes it again and again. Beginning a call is not fair: nobody has to
read, write, open or close. Clients, files and directories have no fairness at all.
The step of OllamaNode's looper that asks the server is fair because the HTTP client
has timeouts. IRChatNode's looper is fair for the same reason, and the IRC server
hangs up on a connection that it got a QUIT on; writers and, but in
`IRChatStream`, readers have no fairness, as nothing depends on theirs. Pumps, and opens and halts of
terminals, are fair once begun; users, and those who fill a container, are not. A
mutex is not fair to a halt against a stream of others, so `PumpsEnd` is about what
follows once nobody sends close any more. No strong fairness is used.

## 4. Proofs

Every safety invariant that a passing run checks is also a theorem, and so are seven
more (section 3.1 says why no run has them), the
refinements of `LineStream` and `SessionService`, and the action properties
`LostOnlyByReopen` and `EventsHandedOn`. A theorem holds for any sets of threads, clients,
descriptors, terminals, ... and any bounds, from the assumptions that the modules
name (`ThreadAssumption`, `NameAssumption`, `BoundAssumption`, `JobAssumption`, ...:
disjoint sets and natural bounds). Some hold under a condition on the program that
uses the node, which is then in the statement:

* `OneControl`: at most one thread opens and closes (sockets, text files);
* `OneConversation`: one reader, no close, no signals (the refinement, as in its run);
* `OneReader` of `TextFileNodeProofs`: one thread reads the file (`WakeCorrect`;
  section 3.1 says what two do to each other);
* `OneSource`, `OneReader` of `StreamNodeProofs`: a container, a file and a terminal
  are each read by one pump. The programs of `StreamNodeMC` are like that, and a
  second reader would get some of the items in place of the first.

The other conditions are history variables inside the properties themselves
(section 3.1). All proofs have one form: an inductive invariant, checked by TLC
on the bounds of the run first, then `...Init`, one lemma for each kind of step, and
a temporal step that puts them together. Where several actions of a thread have the
same effect on the rest, that effect is a lemma of its own (`PumpEffects`,
`OpenEffects`, `WatcherKeeps`, ...), and the invariants are proved from it.

### 4.1 Sockets

`SocketNodeProofs` has `TypeCorrect`, `BytesConserved` and `NoLeakWithOneControl`.
`TypeOK` is inductive by itself. `ByteConservation` is not: that no byte is lost
depends on who may touch the buffer. The invariant `FlowInv` adds

* `LockInv`: `mtx` is held exactly by the thread that is at a label inside a
  locked region, hence two are never there together;
* `FdInv`: `_client_fd` names a connection and `_listen_fd` a socket, unless
  they are -1;
* `QueueInv`: a connection in the backlog is there once, no descriptor names it
  and nobody has read from it;
* `AloneInv`: while nothing overlapped (`~torn`), at most one reader is inside
  `do_read()`, none during the body of `close()`, it reads from the current
  client, and without a client nothing is buffered or received;
* `ClosedInv`: between the two halves of `close()` there is no client.

`ByteConservation` then is an equation between four sequences: an action leaves
them alone, appends the same byte on both sides, or moves a prefix from one to the
next, which `CutRestores` and `ConcatBytes` show to leave the whole unchanged.
`NoFdLeak` needs that `_listen_fd` is not overwritten while it names something,
which holds because with one control thread `open()` does not overlap another open
or a close.

`SocketStreamProofs` goes on from there.

* `LinesReturned` (`ReturnsOneLine`), by `StreamInv`: what has been scanned has no
  newline before the place found, or none at all (`ScannedInv`); a reader is at the
  end of file only if its client is and nothing is queued (`EndInv`); bytes know their
  connection (`SentInv`).
* `BlockedForRest` (`BlocksForRest`), from the same `StreamInv`: a reader goes to
  `::read()` only when the whole buffer is scanned.
* `StreamImplemented` (`ImplementsLineStream`): under `OneConversation` nothing
  overlaps (`QuietInv`), and each step of `SocketNode` is mapped: `ReadTake` and
  `ReadEof` to `LineStream`'s delivery, the steps of the client to its own, the rest
  to stutters. `ByteConservation` says that what `LineStream` has still to deliver is
  `_read_buf`, the chunk and the kernel's queue.
* `WrittenInOrder` (`OutInOrder`), by `OutInv`: a single writer's place in its string
  is that of the newest byte its client got.
* `SocketFileCorrect` (`SocketFileFollowsListener`), by `FileInv`: where the file and
  `_sock_path` stand at each label of open and close.

### 4.2 TextFileNode

`TypeCorrect` needs `OneInstance`: a watcher never has more than one inotify instance.
`TailCorrect` (`TailIsWatched`) and `LostCorrect` (`LostOnlyByReopen`) follow from
`IInv`: a FILE is handed over closed or not at all (`Handed`); an open or follow that
did not race has no reader beside it (`Apart`); a reader forgets a FILE, and takes the
watch down, only when the node has no open one (`Unhanded`), which an open or follow
that races makes false; and a tail with a FILE has its watch, also between the
steps of `follow()` (`Followed`).

`WakeCorrect` (`WaiterIsWoken`) is about the way from the end of file that `fgets()`
saw to the wait. `EndIsTold` follows a reader along it: if the file has more by then,
the event is in the queue of the reader's instance, since `ReadClear` comes before the
wait and only this reader empties the queue. It needs that a FILE of the node is open,
unless a `close()` that has taken the watch down is between closing and forgetting it
(`Held`), and that the FILE a reader copied is the node's as long as there is a watch
(`FileStays`).

### 4.3 FileSysNode

`TypeCorrect` needs that there are enough numbers for containers: a call makes one at
most (`Budget`). `DirsCorrect` is inductive given the types. The next three are about
messages that do not overlap. Then at most one call is under way (`OneCall`), and
`SerialInv` says where it is: every container but the current one is closed, and that
one when a call is about to leave it (`LeftInv`, for `LeftCorrect`); a watch thread
and an inotify instance belong to an open node, and each step of `close()` and of
`start_watching()` has what the steps before it left (`WatchInv`, for `ClosedQuiet`).
`JoinCorrect` (`JoinCannotHang`) is `WatchInv` at the label of the join.

`EventsCorrect` (`EventsHandedOn`) has no such condition: it holds for any overlap,
from the types and `HandInv` (events are in hand only at the label that adds them),
with lemmas on each operation of the watcher in `FileWatcherProofs` (`PostKeeps`,
`EventsStay`, `ReadsOwnInstance`).

### 4.4 OllamaNode

`SessionInv`: as long as a node is not opened twice, a looper that runs is the one
`_loop` names, `_req_queue` and `_qvp` are its queues from before it starts until it
is joined, and `_cancel` is set only while `close()` waits. That is `QueuesHeld` and
`ClosedQuiet`. For `AnswersCorrect`, `Accounted` finds every accepted prompt of a
session: answered, in order, or with the looper, or waiting behind it.

`JoinCorrect` (`JoinCannotHang`) is by `WakeInv`, which does not ask how often the
node was opened: `CloseRequests` closes the queue that the node has, a queue that
`OpenRequests` replaces is gone, and from `CloseRequests` on `_cancel` stays set.

`ServiceImplemented` (`ImplementsService`): each step of `OllamaNode` is one of
`SessionService` or a stutter. `RequestInv` says what the request queue is at each
label of open and close (closed from `CloseRequests` on, none before `OpenRequests`),
and that a session that has not begun has neither prompts nor answers; `Numbered` that
a prompt is new; `SessionInv` and `Accounted` that the prompt answered is the next one
of its session.

`TextsCorrect` (`TextsSurvive`) is about what the codec computes for texts of any
length, and so an induction, which the prover cannot take from the library's induction
theorems. It is carried out with the least element instead: if a formula about 1..n is
not true of all of them, the set of those it is false of has a least element (`Least`,
from the well-foundedness of < on the naturals), and `Upto` turns that into a step
from i to i + 1. In the same way the recursive functions in `FlattenSeq` and
`json_get_string` are shown to exist (`FlattenExists`, `ReaderExists`). The rest is by
three parts:

* `FlattenRuns` and `FlattenParts`: where in a flattened sequence the i-th part is;
* `Utf8IsDecoded`, `Surrogates`, `CharIs`, `SpellingIs`: one character, by arithmetic.
  What the code makes of a code point with shifts and masks is its UTF-8, and a pair
  of surrogates is the character it was made from; `CharRead`: read from where one of
  its spellings begins, a character gives its bytes and ends where the spelling ends.
  Here it matters that a character alone is no high surrogate, which the code would
  join with the spelling behind it, and that a character of several bytes has no quote
  and no backslash among them;
* `TextRead` and `TextEscaped`: hence `json_get_string` of an encoding of a text is
  its bytes, and `json_escape` of these bytes is one of its encodings (`EscapeJoined`,
  `CharEscaped`), so that a server which reads encodings reads the text.

The first of these is about encodings without `\b` and `\f` (`AnswerKept`), the second
about texts without a bare control character (`PromptKept`); `PostKept` puts the two
together.

### 4.5 IRChatNode

`OneLooper` and `NotLost` are for `NodeKept` what `SessionInv` is above.
`MessagesInOrder` rests on `Current` (a looper in `message_loop()` receives from the
connection made last) and `Order`: halves are numbered as they are sent and stay sorted
on the connection; the replies still to parse and the messages in the queue are sorted
by their lines, no line twice; and each of these places is ahead of the next. That a
chunk keeps this is `RepliesAre`: each reply stands for the second half of another line
of the chunk (`Spread`). For `ClosedQuiet`, `Clean` says at each label of the looper's
and of `close()`'s disconnect which of the two has the last connection, that no other is
open, and that they do not both take it down. `JoinCorrect` (`JoinCannotHang`) adds
`Quit` to it: from `CloseSay` on the server was told QUIT on the last connection, and
from `DisconnectMark` on the object is not connected, whichever of the two marked it.

### 4.6 Terminals

`NoOrphanCorrect` is by `TerminalInv`: a FILE and a process id name sessions of their
terminal (`Owned`), in v0 at most one constructor or destructor works on a terminal,
and none while it is in use (`Born`), and a terminal that was never crossed is
`Sound`: at most one thread is changing it, and what FILE and xterm are like then
depends on how far that one has come (`Changed`, `Settled`): an xterm that runs is the
terminal's, or has been forgotten (`Xterms`), and one that had its FILE ends, or is halted,
before `open()` can fork over it (`Bare`). `UnharmedCorrect` needs
`InUse` besides: who is inside `fgets()` or `fprintf()` for such a terminal has a FILE
that is open.

### 4.7 Pumps

`CompleteCorrect` is by `FlowInv` of `StreamNodeProofs`: what a pump has written and
what it has still to write are, in order, all that has passed from its source.

`InOrderCorrect` takes `LineInv` for pumps on terminals. Their source is not passed on
as a whole: sessions end in the middle, a FILE that is torn returns a line twice, and
a ReadStream of a closed node returns its last line for ever. For each session of the
terminal the pump keeps an `Account`: it has written places 1 to n, and n is the
number of lines taken from the FILE, or one less while the last one waits, or one more
while the FILE is stuck at the line written last, when what comes next is the line written last
or nothing (`Dead`). `Shape` says what can be in the stream: nothing, the next line,
or the last one again. `OpenedInv` is what keeps two sessions apart: nobody reads one
whose `fopen()` is not over, and one that is over does not become `_fh` again.

### 4.8 What stays with TLC

The liveness properties: fairness and ENABLED are out of the prover's reach. What they
rest on is proved where it is a property of states: that nobody waits where nothing
will get him out (`BlocksForRest`, `WaiterIsWoken`, `JoinCannotHang`), and that events
and prompts are not dropped (`EventsHandedOn`, `ImplementsService`). And the five
properties of section 3.2, which are false. Facts about sequences that need induction
are cited from the library, avoided, or, for the JSON strings, proved by the least
element.

## 5. Plan

What is left, in order of what matters most:

1. An abstract queue that FileSysNode and IRChatNode are shown to implement between
   open and close, as OllamaNode is shown to implement `SessionService`.
2. Action properties that are only implied by the invariants so far: no step but
   that of an open takes a container or a queue from a node.
3. `IRCUsers`: the list of channel users kept by `parse_irc_reply()`, as actions
   over a sequence of records, against the set of users it should be.
4. `*-embedding-*` of OllamaNode; `StreamEqualLink.compare` of v0.

## 6. Not modelled

The list of channel users of IRC, which nothing reads, and what is in an IRC line;
StreamEqualLink, LookatLink and `describe()` of v0; `_item_type`, and values stored under
keys that are no message; what the answers of FileSysNode say; the
embedding message, the array of floats and the search for a key of OllamaNode; the text of
IRC commands and messages; URL parsing, which only decides whether an open fails;
AtomSpace, cogutil, the HTTP library, stdio and the kernel, which are environment;
types, scheme modules and build files, which have no state.

## 7. Running

    tlc -workers 2 -config SocketSession.cfg SocketNodeMC.tla
    tlc -workers 2 -config TextFileTail.cfg TextFileNode.tla
    tlc -workers 2 -config StreamPumps.cfg StreamNodeMC.tla
    for m in SocketNode SocketStream FileWatcher TextFileNode FileSysNode \
             OllamaNode IRChatNode StreamNode; do tlapm ${m}Proofs.tla; done

Definitions commented "Mutant of ..." are wrong variants of an action, as a
slip of the pen would make them; with the variant in place of the action, TLC
finds the property violated that `PROJECT.json` names. They show that each
property can fail.
