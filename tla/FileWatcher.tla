---------------------------- MODULE FileWatcher ----------------------------
(***************************************************************************)
(* FileWatcher: the wrapper around inotify that TextFileNode and            *)
(* FileSysNode own one of.  Every region under its _mtx is short and does   *)
(* not block, so each is one step here; the inotify descriptor is copied    *)
(* under the lock and used outside it, when its name may already be closed  *)
(* or name a younger inotify instance.                                      *)
(*                                                                         *)
(* An event is the name of a directory entry, or NoName for what concerns   *)
(* the watched object itself.  The kernel part is external: it drops an     *)
(* event equal to the last one in the queue, and closing an instance drops  *)
(* its queue.                                                               *)
(***************************************************************************)
EXTENDS Integers, Sequences

CONSTANTS
    Inos, NoIno,       \* descriptor names for inotify; NoIno is -1
    Names, NoName      \* entries of a watched directory

ASSUME WatcherAssumption == NoIno \notin Inos /\ NoName \notin Names

VARIABLES
    inotify_fd,  \* _inotify_fd
    watching,    \* _watch_fd >= 0
    \* the kernel
    live,        \* names of open inotify instances
    queue        \* events an instance holds, per name

watcherVars == <<inotify_fd, watching, live, queue>>

Event == Names \cup {NoName}

WatcherType ==
    /\ inotify_fd \in Inos \cup {NoIno}
    /\ watching \in BOOLEAN
    /\ live \in SUBSET Inos
    /\ queue \in [Inos -> Seq(Event)]

WatcherInit ==
    /\ inotify_fd = NoIno
    /\ watching = FALSE
    /\ live = {}
    /\ queue = [i \in Inos |-> <<>>]

-----------------------------------------------------------------------------
(* The kernel                                                               *)

\* The events in a queue.
Elements(s) == {s[i] : i \in DOMAIN s}

Post(q, e) == IF q # <<>> /\ q[Len(q)] = e THEN q ELSE Append(q, e)

\* Something happened to what is watched.
Notify(e) ==
    /\ queue' = [i \in Inos |->
                   IF watching /\ i = inotify_fd THEN Post(queue[i], e) ELSE queue[i]]
    /\ UNCHANGED <<inotify_fd, watching, live>>

-----------------------------------------------------------------------------
\* Mutant of RemoveWatch: only inotify_rm_watch(), the instance stays open.
RemoveWatchOnly ==
    /\ watching' = FALSE
    /\ inotify_fd' = NoIno
    /\ UNCHANGED <<live, queue>>

(* cleanup_watch() and cleanup_inotify() together: the instance is closed.  *)
RemoveWatch ==
    /\ inotify_fd' = NoIno
    /\ watching' = FALSE
    /\ live' = live \ {inotify_fd}
    /\ queue' = [i \in Inos |-> IF i = inotify_fd THEN <<>> ELSE queue[i]]

\* add_watch(): replaces a watch that is there, which leaves an IN_IGNORED
\* event behind, and makes an inotify instance if there is none.
AddWatch ==
    /\ \E i \in Inos :
         /\ i = inotify_fd \/ (inotify_fd = NoIno /\ i \notin live)
         /\ inotify_fd' = i
         /\ live' = live \cup {i}
         /\ queue' = IF watching THEN [queue EXCEPT ![i] = Post(@, NoName)] ELSE queue
    /\ watching' = TRUE

\* inotify_init1() or inotify_add_watch() fails: add_watch() throws.
AddWatchFails == RemoveWatch

\* The locked block wait_event() and poll_and_add_events() begin with.
Active == inotify_fd # NoIno /\ watching

\* ::read() on a name: EBADF if it was closed meanwhile, otherwise whatever
\* events the instance that has the name now holds.
Gone(i) == i \notin live
Ready(i) == i \in live /\ queue[i] # <<>>
TakeEvents(i) ==
    /\ Ready(i)
    /\ queue' = [queue EXCEPT ![i] = <<>>]
    /\ UNCHANGED <<inotify_fd, watching, live>>
=============================================================================
