---------------------------- MODULE FileSysNode ----------------------------
(***************************************************************************)
(* FileSysNode: answers to directory commands, and after the "watch"        *)
(* command the names of changed entries, arrive in a container that readers *)
(* take them from.  open(), and watch, replace the container.  A FileWatcher *)
(* runs a background thread that moves events from inotify into the         *)
(* container it was started with.  Nothing in FileSysNode is locked; of the *)
(* watcher only short regions are.                                          *)
(*                                                                         *)
(* Containers are numbered in the order of their creation.  They are        *)
(* external: remove() blocks until there is an item or the container is     *)
(* closed and empty; add() to a closed container throws Canceled.  An       *)
(* exception that leaves the watch thread, an assignment to a std::thread   *)
(* that is joinable and a call through a null pointer end the program.      *)
(*                                                                         *)
(* What an answer says is left out.  The FileSysStream of v0 (legacy) has   *)
(* the commands only, and returns the answers instead of queueing them.     *)
(***************************************************************************)
EXTENDS FileWatcher

CONSTANTS
    Readers, Control,  \* threads that read, and threads that send messages
    Reply,             \* an answer to a command
    Dirs, NoDir,       \* directories
    Dot,               \* the entries "." and ".."
    MaxCalls,          \* bound: messages sent; in v0, and once two overlap, the
                       \* last of them is a close() while another one joins
    MaxChanges         \* bound: changes in the directory

Threads == Readers \cup Control
Containers == 1..MaxCalls
NoCvp == 0
Items == Names \cup {Reply}

ASSUME ThreadAssumption == Readers \cap Control = {}
Entries == Names \cup {Dot}

\* Commands without an argument, for the entries of the directory the node is
\* in ("ls" and special; "stat" stands for btime, mtime and filesize), and with
\* one; an unknown one of these fails like one without a file URL.
ListCommands == {"ls", "stat", "unknown"}
ArgCommands == {"cd", "special", "magic"}
Commands == {"pwd"} \cup ListCommands \cup ArgCommands

ASSUME ReplyAssumption == Reply \notin Names /\ Dot \notin Names /\ NoDir \notin Dirs /\ Dirs # {}
ASSUME BoundAssumption == {MaxCalls, MaxChanges} \subseteq Nat

VARIABLES
    \* the node
    legacy,      \* it is the FileSysStream of v0
    cwd,         \* _cwd
    cvp,         \* _cvp; 0 is the null pointer
    made,        \* containers created so far
    closed,      \* close() was called on a container
    unique,      \* the container is a UnisetValue
    content,     \* what a container holds
    \* the watch thread
    wpc,         \* "none": _watch_thread is not joinable
    wcvp,        \* its copy of the container
    wfd,         \* its copy of _inotify_fd
    wev,         \* events it has read and not yet added
    \* the threads
    pc,          \* where each thread is
    rcvp,        \* the container a reader takes from
    cmd,         \* the command a thread works on
    dir,         \* the directory whose DIR it has open
    left,        \* the entries readdir() has still to return
    \* history
    calls,       \* messages sent so far
    changes,     \* changes in the directory so far
    overlap,     \* TRUE once two messages were in progress together
    terminated   \* the program has ended

cvpVars == <<cvp, made, closed, unique, content>>
threadVars == <<wpc, wcvp, wfd, wev>>
dirVars == <<legacy, cwd, cmd, dir, left>>
histVars == <<calls, changes, overlap, terminated>>
vars == <<watcherVars, cvpVars, threadVars, pc, rcvp, dirVars, histVars>>

WatchPc == {"none", "wt_check", "wt_poll", "wt_read", "wt_add", "wt_done"}
ControlPc == {"op_close", "op_new", "cl_stop", "cl_join", "cl_close", "cl_null",
              "wr_open", "wr_list", "wr_arg", "wr_reply",
              "wa_close", "wa_new", "wa_check", "wa_add", "wa_spawn"}

ContainerType ==
    /\ cvp \in {NoCvp} \cup 1..made
    /\ made \in 0..MaxCalls
    /\ closed \in [Containers -> BOOLEAN]
    /\ unique \in [Containers -> BOOLEAN]
    /\ content \in [Containers -> Seq(Items)]
WatchType ==
    /\ wpc \in WatchPc
    /\ wcvp \in {NoCvp} \cup Containers
    /\ wfd \in Inos \cup {NoIno}
    /\ wev \in Seq(Event)
    /\ wpc \in {"wt_poll", "wt_read"} => wfd # NoIno
CallType ==
    /\ pc \in [Threads -> {"idle", "rd_take"} \cup ControlPc]
    /\ rcvp \in [Readers -> {NoCvp} \cup Containers]
    /\ calls \in 0..MaxCalls
    /\ changes \in 0..MaxChanges
DirType ==
    /\ cwd \in Dirs
    /\ cmd \in [Control -> Commands]
    /\ dir \in [Control -> Dirs \cup {NoDir}]
    /\ left \in [Control -> SUBSET Entries]
FlagType ==
    /\ legacy \in BOOLEAN /\ overlap \in BOOLEAN /\ terminated \in BOOLEAN

TypeOK == WatcherType /\ ContainerType /\ WatchType /\ CallType /\ DirType /\ FlagType

Init ==
    /\ WatcherInit
    /\ cvp = NoCvp
    /\ made = 0
    /\ closed = [c \in Containers |-> FALSE]
    /\ unique = [c \in Containers |-> FALSE]
    /\ content = [c \in Containers |-> <<>>]
    /\ wpc = "none"
    /\ wcvp = NoCvp
    /\ wfd = NoIno
    /\ wev = <<>>
    /\ pc = [t \in Threads |-> "idle"]
    /\ rcvp = [r \in Readers |-> NoCvp]
    /\ calls = 0
    /\ changes = 0
    /\ overlap = FALSE
    /\ terminated = FALSE
    /\ legacy \in BOOLEAN
    /\ cwd = CHOOSE d \in Dirs : TRUE
    /\ cmd = [t \in Control |-> "pwd"]
    /\ dir = [t \in Control |-> NoDir]
    /\ left = [t \in Control |-> {}]

Goto(t, label) == pc' = [pc EXCEPT ![t] = label]

Terminate == terminated' = TRUE

-----------------------------------------------------------------------------
(* Containers                                                               *)

\* There is a container, and it takes items.
Accepts(c) == c \in {d \in Containers : ~closed[d]}

\* add(): a UnisetValue keeps one of each.
Holding(c, x) ==
    IF unique[c] /\ \E i \in DOMAIN content[c] : content[c][i] = x
    THEN content ELSE [content EXCEPT ![c] = Append(@, x)]

\* close() on the container _cvp points to, if it points to one.
CloseCvp ==
    closed' = [c \in Containers |-> closed[c] \/ c = cvp]

\* _cvp = createQueueValue() or createUnisetValue().
NewCvp(uniset) ==
    /\ made' = made + 1
    /\ cvp' = made + 1
    /\ unique' = [unique EXCEPT ![made + 1] = uniset]

-----------------------------------------------------------------------------
(* Messages: one call at a time from each thread of Control.                *)

Send(t, last) ==
    /\ pc[t] = "idle"
    /\ overlap' = (overlap \/ \E u \in Control : pc[u] # "idle")
    /\ calls < IF last \/ ~(overlap' \/ legacy) THEN MaxCalls ELSE MaxCalls - 1
    /\ calls' = calls + 1

Call(t, label) ==
    /\ Send(t, label = "cl_stop" /\ \E u \in Control : pc[u] = "cl_join")
    /\ Goto(t, label)
    /\ UNCHANGED <<dirVars, watcherVars, cvpVars, threadVars, rcvp, changes, terminated>>

OpenBegin(t) == ~legacy /\ Call(t, "op_close")
CloseBegin(t) == ~legacy /\ Call(t, "cl_stop")

\* write() throws if the node is not open.
WatchBegin(t) == ~legacy /\ cvp # NoCvp /\ Call(t, "wa_close")

CommandLabel(k) ==
    CASE k = "pwd" -> "wr_reply" [] k \in ListCommands -> "wr_open" [] OTHER -> "wr_arg"
Command(t, k) ==
    /\ Send(t, FALSE)
    /\ cmd' = [cmd EXCEPT ![t] = k]
    /\ Goto(t, CommandLabel(k))
    /\ UNCHANGED <<watcherVars, cvpVars, threadVars, rcvp, legacy, cwd, dir, left,
                   changes, terminated>>

CommandBegin(t, k) == ~legacy /\ cvp # NoCvp /\ Command(t, k)

\* write_out() of v0 tells the two kinds of commands by the size of the list.
WriteOut(t, k) == legacy /\ Command(t, k)

\* Mutant of OpenClose: the old container is dropped without closing it.
OpenCloseNot(t) ==
    /\ pc[t] = "op_close"
    /\ Goto(t, "op_new")
    /\ UNCHANGED <<dirVars, watcherVars, cvpVars, threadVars, rcvp, histVars>>

\* open(): close the old container, if any, then make a queue.
OpenClose(t) ==
    /\ pc[t] = "op_close"
    /\ CloseCvp
    /\ Goto(t, "op_new")
    /\ UNCHANGED <<dirVars, watcherVars, cvp, made, unique, content, threadVars, rcvp, histVars>>

OpenNew(t) ==
    /\ pc[t] = "op_new"
    /\ NewCvp(FALSE)
    /\ Goto(t, "idle")
    /\ UNCHANGED <<dirVars, watcherVars, closed, content, threadVars, rcvp, histVars>>

-----------------------------------------------------------------------------
(* Commands                                                                 *)

cmdRest == <<watcherVars, cvpVars, threadVars, rcvp, legacy, histVars>>

\* The call ends.
Ends(t) ==
    /\ cmd' = [cmd EXCEPT ![t] = "pwd"]
    /\ Goto(t, "idle")

\* The command throws; closedir() has been called if there is a DIR.
Fail(t) ==
    /\ dir' = [dir EXCEPT ![t] = NoDir]
    /\ left' = [left EXCEPT ![t] = {}]
    /\ Ends(t)

\* do_opendir() on the directory the node is in; it throws if there is none.
OpenDir(t) ==
    /\ pc[t] = "wr_open"
    /\ \/ Fail(t)
       \/ /\ dir' = [dir EXCEPT ![t] = cwd]
          /\ left' = [left EXCEPT ![t] = Entries]
          /\ Goto(t, "wr_list")
          /\ UNCHANGED cmd
    /\ UNCHANGED <<cmdRest, cwd>>

\* Mutant of Fails: statx() fails and the DIR stays open.
FailsOpen(t) ==
    /\ cmd[t] \in {"stat", "unknown"}
    /\ Ends(t)
    /\ UNCHANGED <<dir, left>>

\* statx() fails for an entry; an unknown command is only found out here.
Fails(t) == cmd[t] \in {"stat", "unknown"} /\ Fail(t)

\* What a listing leaves out, against endless descents.
Skipped(e) == e = Dot

\* One turn of the loop.
Entry(t) ==
    /\ pc[t] = "wr_list"
    /\ \E e \in left[t] :
         \/ ~Skipped(e) /\ Fails(t)
         \/ /\ Skipped(e) \/ cmd[t] # "unknown"
            /\ left' = [left EXCEPT ![t] = @ \ {e}]
            /\ UNCHANGED <<cmd, dir, pc>>
    /\ UNCHANGED <<cmdRest, cwd>>

ListEntry(t) == ~legacy /\ Entry(t)
LegacyEntry(t) == legacy /\ Entry(t)

\* readdir() is at the end: closedir(), then the answer.
ListEnd(t) ==
    /\ pc[t] = "wr_list" /\ left[t] = {}
    /\ dir' = [dir EXCEPT ![t] = NoDir]
    /\ Goto(t, "wr_reply")
    /\ UNCHANGED <<cmdRest, cwd, cmd, left>>

\* A command with an argument, which must be a file URL.  cd looks at nothing;
\* "special" opens the directory it names for its "." and closes it again.
Argument(t, known) ==
    /\ pc[t] = "wr_arg"
    /\ \/ Fail(t) /\ UNCHANGED cwd
       \/ /\ cmd[t] \in known
          /\ IF cmd[t] = "cd" THEN cwd' \in Dirs ELSE UNCHANGED cwd
          /\ Goto(t, "wr_reply")
          /\ UNCHANGED <<cmd, dir, left>>
    /\ UNCHANGED cmdRest

ArgumentOf(t) == ~legacy /\ Argument(t, ArgCommands)

\* The argument of v0 may be anything that has a string; magic does nothing
\* but fail.
LegacyArgument(t) == legacy /\ Argument(t, ArgCommands \ {"magic"})

\* The answer is added to what is the container now, which may be another one,
\* or closed, which throws, or none.
CommandReply(t) ==
    /\ ~legacy /\ pc[t] = "wr_reply"
    /\ \/ /\ Accepts(cvp)
          /\ content' = Holding(cvp, Reply)
          /\ UNCHANGED terminated
       \/ \* add() throws
          cvp # NoCvp /\ ~Accepts(cvp) /\ UNCHANGED <<content, terminated>>
       \/ \* close() came between the check and the answer
          /\ cvp = NoCvp
          /\ Terminate
          /\ UNCHANGED content
    /\ Ends(t)
    /\ UNCHANGED <<watcherVars, cvp, made, closed, unique, threadVars, rcvp,
                   legacy, cwd, dir, left, calls, changes, overlap>>

\* v0 returns it.
LegacyReply(t) ==
    /\ legacy /\ pc[t] = "wr_reply"
    /\ Ends(t)
    /\ UNCHANGED <<cmdRest, cwd, dir, left>>

-----------------------------------------------------------------------------
(* The watch command, open() and close()                                    *)

\* The watch command: close the queue, make a set in its place.
WatchClose(t) ==
    /\ pc[t] = "wa_close"
    /\ CloseCvp
    /\ Goto(t, "wa_new")
    /\ UNCHANGED <<dirVars, watcherVars, cvp, made, unique, content, threadVars, rcvp, histVars>>

WatchNew(t) ==
    /\ pc[t] = "wa_new"
    /\ NewCvp(TRUE)
    /\ Goto(t, "wa_check")
    /\ UNCHANGED <<dirVars, watcherVars, closed, content, threadVars, rcvp, histVars>>

\* start_watching() throws if the thread of an earlier watch is there.
WatchCheck(t) ==
    /\ pc[t] = "wa_check"
    /\ Goto(t, IF wpc = "none" THEN "wa_add" ELSE "idle")
    /\ UNCHANGED <<dirVars, watcherVars, cvpVars, threadVars, rcvp, histVars>>

WatchAdd(t) ==
    /\ pc[t] = "wa_add"
    /\ \/ AddWatch /\ Goto(t, "wa_spawn")
       \/ AddWatchFails /\ Goto(t, "idle")
    /\ UNCHANGED <<dirVars, cvpVars, threadVars, rcvp, histVars>>

\* Mutant of WatchSpawn: the thread is started and left to itself.
WatchSpawnDetached(t) ==
    /\ pc[t] = "wa_spawn"
    /\ wpc' = "none"
    /\ wcvp' = cvp
    /\ Goto(t, "idle")
    /\ UNCHANGED <<dirVars, watcherVars, cvpVars, wfd, wev, rcvp, histVars>>

\* The reference to _cvp that was handed down is copied only here.
WatchSpawn(t) ==
    /\ pc[t] = "wa_spawn"
    /\ \/ /\ wpc = "none"
          /\ wpc' = "wt_check"
          /\ wcvp' = cvp
          /\ UNCHANGED terminated
       \/ /\ wpc # "none"
          /\ Terminate
          /\ UNCHANGED <<wpc, wcvp>>
    /\ Goto(t, "idle")
    /\ UNCHANGED <<dirVars, watcherVars, cvpVars, wfd, wev, rcvp, calls, changes, overlap>>

\* Mutant of CloseStop: the thread is joined and the watch is kept.
CloseStopKeepsWatch(t) ==
    /\ pc[t] = "cl_stop"
    /\ Goto(t, IF wpc # "none" THEN "cl_join" ELSE "cl_close")
    /\ UNCHANGED <<dirVars, watcherVars, cvpVars, threadVars, rcvp, histVars>>

\* close(): stop_watching() removes the watch only if there is a thread.
CloseStop(t) ==
    /\ pc[t] = "cl_stop"
    /\ \/ /\ wpc # "none"
          /\ RemoveWatch
          /\ Goto(t, "cl_join")
       \/ /\ wpc = "none"
          /\ Goto(t, "cl_close")
          /\ UNCHANGED watcherVars
    /\ UNCHANGED <<dirVars, cvpVars, threadVars, rcvp, histVars>>

\* join() waits for the thread; it throws, and close() with it, if another
\* close() has joined the thread meanwhile.
CloseJoin(t) ==
    /\ pc[t] = "cl_join"
    /\ \/ /\ wpc = "wt_done"
          /\ wpc' = "none"
          /\ wcvp' = NoCvp
          /\ wfd' = NoIno
          /\ Goto(t, "cl_close")
          /\ UNCHANGED wev
       \/ /\ wpc = "none"
          /\ Goto(t, "idle")
          /\ UNCHANGED threadVars
    /\ UNCHANGED <<dirVars, watcherVars, cvpVars, rcvp, histVars>>

CloseContainer(t) ==
    /\ pc[t] = "cl_close"
    /\ CloseCvp
    /\ Goto(t, IF cvp # NoCvp THEN "cl_null" ELSE "idle")
    /\ UNCHANGED <<dirVars, watcherVars, cvp, made, unique, content, threadVars, rcvp, histVars>>

CloseNull(t) ==
    /\ pc[t] = "cl_null"
    /\ cvp' = NoCvp
    /\ Goto(t, "idle")
    /\ UNCHANGED <<dirVars, watcherVars, made, closed, unique, content, threadVars, rcvp, histVars>>

-----------------------------------------------------------------------------
(* The watch thread: poll_and_add_events() until it returns false.          *)

\* Mutant of PollCheck: poll on whatever _inotify_fd is.
PollCheckNot ==
    /\ wpc = "wt_check"
    /\ wpc' = "wt_poll"
    /\ wfd' = inotify_fd
    /\ UNCHANGED <<dirVars, watcherVars, cvpVars, wcvp, wev, pc, rcvp, histVars>>

\* The check under the lock.
PollCheck ==
    /\ wpc = "wt_check"
    /\ wpc' = IF Active THEN "wt_poll" ELSE "wt_done"
    /\ wfd' = IF Active THEN inotify_fd ELSE wfd
    /\ UNCHANGED <<dirVars, watcherVars, cvpVars, wcvp, wev, pc, rcvp, histVars>>

\* poll() returns when there are events or the name is not open, or after
\* the timeout.
PollWait ==
    /\ wpc = "wt_poll"
    /\ \/ (Ready(wfd) \/ Gone(wfd)) /\ wpc' = "wt_read"
       \/ ~Ready(wfd) /\ wpc' = "wt_check"
    /\ UNCHANGED <<dirVars, watcherVars, cvpVars, wcvp, wfd, wev, pc, rcvp, histVars>>

\* read(): some events; or EBADF, and the thread ends; or EAGAIN if the name
\* belongs to a younger instance by now.
PollRead ==
    /\ wpc = "wt_read"
    /\ \/ /\ TakeEvents(wfd)
          /\ wev' = queue[wfd]
          /\ wpc' = "wt_add"
       \/ /\ ~Ready(wfd)
          /\ wpc' = IF Gone(wfd) THEN "wt_done" ELSE "wt_check"
          /\ UNCHANGED <<dirVars, watcherVars, wev>>
    /\ UNCHANGED <<dirVars, cvpVars, wcvp, wfd, pc, rcvp, histVars>>

\* Mutant of PollAdd: only the first event of the buffer is looked at.
PollAddFirst ==
    /\ wpc = "wt_add"
    /\ content' = IF wev # <<>> /\ Head(wev) # NoName /\ Accepts(wcvp)
                  THEN Holding(wcvp, Head(wev)) ELSE content
    /\ wev' = <<>>
    /\ wpc' = "wt_check"
    /\ UNCHANGED <<dirVars, watcherVars, cvp, made, closed, unique, wcvp, wfd, pc, rcvp, histVars>>

\* The loop over the events: only those with a name are added.
PollAdd ==
    /\ wpc = "wt_add"
    /\ \/ /\ wev = <<>>
          /\ wpc' = "wt_check"
          /\ UNCHANGED <<content, wev, terminated>>
       \/ /\ wev # <<>>
          /\ wev' = Tail(wev)
          /\ \/ Head(wev) = NoName /\ UNCHANGED <<content, terminated>>
             \/ /\ Head(wev) # NoName
                /\ Accepts(wcvp)
                /\ content' = Holding(wcvp, Head(wev))
                /\ UNCHANGED terminated
             \/ /\ Head(wev) # NoName
                /\ ~Accepts(wcvp)
                /\ Terminate
                /\ UNCHANGED content
          /\ UNCHANGED wpc
    /\ UNCHANGED <<dirVars, watcherVars, cvp, made, closed, unique, wcvp, wfd, pc, rcvp,
                   calls, changes, overlap>>

-----------------------------------------------------------------------------
(* Readers take items from the container they got with read() or stream().  *)

ReadBegin(r) ==
    /\ pc[r] = "idle"
    /\ cvp # NoCvp
    /\ rcvp' = [rcvp EXCEPT ![r] = cvp]
    /\ Goto(r, "rd_take")
    /\ UNCHANGED <<dirVars, watcherVars, cvpVars, threadVars, histVars>>

Without(s, i) == SubSeq(s, 1, i - 1) \o SubSeq(s, i + 1, Len(s))

\* remove(): the oldest item of a queue, any item of a set; or Canceled.
ReadTake(r) ==
    LET c == rcvp[r] IN
    /\ pc[r] = "rd_take"
    /\ \/ \E i \in DOMAIN content[c] :
            /\ i = 1 \/ unique[c]
            /\ content' = [content EXCEPT ![c] = Without(@, i)]
       \/ closed[c] /\ content[c] = <<>> /\ UNCHANGED content
    /\ rcvp' = [rcvp EXCEPT ![r] = NoCvp]
    /\ Goto(r, "idle")
    /\ UNCHANGED <<dirVars, watcherVars, cvp, made, closed, unique, threadVars, histVars>>

\* The environment: an entry of the directory changes.
Changed(n) ==
    /\ changes < MaxChanges
    /\ changes' = changes + 1
    /\ Notify(n)
    /\ UNCHANGED <<dirVars, cvpVars, threadVars, pc, rcvp, calls, overlap, terminated>>

-----------------------------------------------------------------------------
ControlCall(t) ==
    \/ OpenBegin(t) \/ CloseBegin(t) \/ WatchBegin(t)
    \/ \E k \in Commands : CommandBegin(t, k) \/ WriteOut(t, k)
ControlStep(t) ==
    \/ OpenClose(t) \/ OpenNew(t)
    \/ OpenDir(t) \/ ListEntry(t) \/ LegacyEntry(t) \/ ListEnd(t) \/ ArgumentOf(t) \/ LegacyArgument(t)
    \/ CommandReply(t) \/ LegacyReply(t)
    \/ WatchClose(t) \/ WatchNew(t) \/ WatchCheck(t) \/ WatchAdd(t) \/ WatchSpawn(t)
    \/ CloseStop(t) \/ CloseJoin(t) \/ CloseContainer(t) \/ CloseNull(t)
WatchStep == PollCheck \/ PollWait \/ PollRead \/ PollAdd

Next ==
    /\ ~terminated
    /\ \/ \E t \in Control : ControlCall(t) \/ ControlStep(t)
       \/ WatchStep
       \/ \E r \in Readers : ReadBegin(r) \/ ReadTake(r)
       \/ \E n \in Names : ~legacy /\ Changed(n)

Spec == Init /\ [][Next]_vars

\* A thread that can run does run; nobody has to send a message.
Fairness ==
    /\ \A t \in Control : WF_vars(ControlStep(t) /\ ~terminated)
    /\ WF_vars(WatchStep /\ ~terminated)
    /\ \A r \in Readers : WF_vars(ReadTake(r) /\ ~terminated)

FairSpec == Spec /\ Fairness
-----------------------------------------------------------------------------
(* Properties                                                               *)

Quiet == \A t \in Control : pc[t] = "idle"
Running == wpc \notin {"none", "wt_done"}

\* When messages come one at a time, a container the node has moved on from
\* is closed: whoever still reads it is told, whatever open(), watch and
\* close() did, and whichever of them failed.
LeftBehindIsClosed ==
    (~overlap /\ Quiet) => \A c \in 1..made : c = cvp \/ closed[c]

\* When messages come one at a time, a closed node has no watch thread and no
\* inotify instance left, however its watches were started, replaced, failed.
ClosedIsQuiet ==
    (~overlap /\ Quiet /\ cvp = NoCvp) => wpc = "none" /\ live = {}

\* What CloseReturns rests on: when messages come one at a time, close() joins a
\* thread that is there, whose next check finds no watch and whose poll() and read()
\* work on a name that is closed; no younger instance has that name meanwhile.
JoinCannotHang ==
    ~overlap => \A t \in Control : pc[t] = "cl_join" =>
        /\ wpc # "none" /\ ~Active
        /\ wpc \in {"wt_poll", "wt_read"} => Gone(wfd)

\* What EventReachesContainer rests on: no step drops an event that inotify holds
\* unless it takes the watch down, and none drops one that the watch thread has read,
\* also when the watch is gone by then: it gets into the container, or add() throws.
EventsHandedOn ==
    [][\A n \in Names :
         /\ Active /\ n \in Elements(queue[inotify_fd]) =>
               ~Active' \/ n \in Elements(queue'[inotify_fd']) \cup Elements(wev')
         /\ n \in Elements(wev) =>
               \/ n \in Elements(wev')
               \/ Accepts(wcvp) /\ n \in Elements(content'[wcvp])
               \/ ~Accepts(wcvp) /\ terminated']_vars

\* When messages come one at a time, every close() that begins ends: the
\* thread it joins always notices that the watch is gone, wherever it was.
CloseReturns ==
    LET Joining == \E t \in Control : pc[t] = "cl_join"
    IN  (Joining /\ ~overlap) ~> (~Joining \/ overlap \/ terminated)

\* An event that inotify has reported gets into the container of the watch
\* thread unless the container is closed or the watch removed first; none is
\* dropped between poll, read and add, however events are batched.
EventReachesContainer ==
    \A n \in Names :
        (Running /\ Active /\ n \in {queue[inotify_fd][i] : i \in DOMAIN queue[inotify_fd]})
            ~> (\/ wcvp # NoCvp /\ n \in {content[wcvp][i] : i \in DOMAIN content[wcvp]}
                \/ wcvp # NoCvp /\ closed[wcvp]
                \/ ~Active \/ overlap \/ terminated)

\* A command that has ended, however it ended, has closed the DIR it opened.
DirsClosed == \A t \in Control : dir[t] # NoDir => pc[t] = "wr_list"

\* The design notes say of a watch that "This will continue, until the
\* `*-close-*` message is sent": the container that a running watch feeds is
\* not closed by anything but close().
WatchedUntilClosed ==
    [][\A c \in Containers :
         (Running /\ wcvp = c /\ ~closed[c] /\ closed'[c])
             => \E t \in Control : CloseContainer(t)]_vars
=============================================================================
