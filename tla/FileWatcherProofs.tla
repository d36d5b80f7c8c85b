------------------------- MODULE FileWatcherProofs --------------------------
(* What the operations of FileWatcher keep, for the modules that use it.    *)
EXTENDS FileWatcher, TLAPS

\* The watcher has a watch exactly when it has an inotify instance, and no other
\* instance is open: none leaks.
OneInstance ==
    /\ watching = (inotify_fd # NoIno)
    /\ live = {inotify_fd} \ {NoIno}

\* The watcher starts without an instance.
LEMMA WatcherStart == WatcherInit => WatcherType /\ OneInstance
  <1> SUFFICES ASSUME WatcherInit PROVE WatcherType /\ OneInstance
    OBVIOUS
  <1>1. queue \in [Inos -> Seq(Event)]
    BY DEF WatcherInit
  <1> QED
    BY <1>1 DEF WatcherInit, WatcherType, OneInstance

\* The queue of an instance remains one of events, whether the kernel merges an
\* event with the last one or not.
LEMMA PostType ==
    ASSUME NEW q \in Seq(Event), NEW e \in Event
    PROVE  Post(q, e) \in Seq(Event)
  BY DEF Post

\* What the operations do to the queues.
LEMMA QueuesStay ==
    ASSUME WatcherType, \/ \E e \in Event : Notify(e)
                        \/ RemoveWatch \/ AddWatch
                        \/ \E i \in Inos : TakeEvents(i)
                        \/ UNCHANGED watcherVars
    PROVE  queue' \in [Inos -> Seq(Event)]
  <1>0. \A i \in Inos : queue[i] \in Seq(Event)
    BY DEF WatcherType
  <1>1. ASSUME NEW e \in Event, Notify(e) PROVE queue' \in [Inos -> Seq(Event)]
    <2>1. \A i \in Inos : Post(queue[i], e) \in Seq(Event)
      BY <1>0, PostType
    <2> QED
      BY <1>0, <1>1, <2>1 DEF Notify
  <1>2. CASE RemoveWatch
    <2>1. <<>> \in Seq(Event)
      OBVIOUS
    <2> QED
      BY <1>0, <1>2, <2>1 DEF RemoveWatch
  <1>3. CASE AddWatch
    <2>1. PICK i \in Inos :
            queue' = IF watching THEN [queue EXCEPT ![i] = Post(@, NoName)] ELSE queue
      BY <1>3 DEF AddWatch
    <2>2. Post(queue[i], NoName) \in Seq(Event)
      BY <1>0, PostType DEF Event
    <2> QED
      BY <2>1, <2>2 DEF WatcherType
  <1>4. ASSUME NEW i \in Inos, TakeEvents(i) PROVE queue' \in [Inos -> Seq(Event)]
    <2>1. <<>> \in Seq(Event)
      OBVIOUS
    <2> QED
      BY <1>4, <2>1 DEF TakeEvents, WatcherType
  <1>5. CASE UNCHANGED watcherVars
    BY <1>5 DEF watcherVars, WatcherType
  <1> QED
    BY <1>1, <1>2, <1>3, <1>4, <1>5

\* Every operation keeps the watcher well typed, and its instance the only one.
LEMMA WatcherKeeps ==
    ASSUME WatcherType, OneInstance,
           \/ \E e \in Event : Notify(e)
           \/ RemoveWatch \/ AddWatch
           \/ \E i \in Inos : TakeEvents(i)
           \/ UNCHANGED watcherVars
    PROVE  WatcherType' /\ OneInstance'
  <1>1. queue' \in [Inos -> Seq(Event)]
    BY QueuesStay
  <1>2. CASE UNCHANGED <<inotify_fd, watching, live>>
    BY <1>1, <1>2 DEF WatcherType, OneInstance
  <1>3. CASE RemoveWatch
    BY <1>1, <1>3 DEF RemoveWatch, WatcherType, OneInstance
  <1>4. CASE AddWatch
    <2>1. PICK i \in Inos :
            /\ i = inotify_fd \/ (inotify_fd = NoIno /\ i \notin live)
            /\ inotify_fd' = i
            /\ live' = live \cup {i}
      BY <1>4 DEF AddWatch
    <2>2. live' = {i} /\ i # NoIno
      BY <2>1, WatcherAssumption DEF OneInstance
    <2> QED
      BY <1>1, <1>4, <2>1, <2>2 DEF AddWatch, WatcherType, OneInstance
  <1> QED
    BY <1>2, <1>3, <1>4 DEF Notify, TakeEvents, watcherVars

\* The kernel may merge an event with the last one, but drops none.
LEMMA PostKeeps ==
    ASSUME NEW q \in Seq(Event), NEW e \in Event
    PROVE  Elements(q) \cup {e} \subseteq Elements(Post(q, e))
  <1>1. CASE q # <<>> /\ q[Len(q)] = e
    <2>1. Len(q) \in DOMAIN q
      BY <1>1
    <2> QED
      BY <1>1, <2>1 DEF Post, Elements
  <1>2. CASE ~(q # <<>> /\ q[Len(q)] = e)
    <2>1. Post(q, e) = Append(q, e)
      BY <1>2 DEF Post
    <2>2. \A i \in DOMAIN q : i \in DOMAIN Append(q, e) /\ Append(q, e)[i] = q[i]
      OBVIOUS
    <2>3. Len(q) + 1 \in DOMAIN Append(q, e) /\ Append(q, e)[Len(q) + 1] = e
      OBVIOUS
    <2> QED
      BY <2>1, <2>2, <2>3 DEF Elements
  <1> QED
    BY <1>1, <1>2

\* Events can be read only from the instance that the watcher has, whatever name a
\* thread has copied.
LEMMA ReadsOwnInstance ==
    ASSUME OneInstance, NEW i \in Inos, Ready(i)
    PROVE  i = inotify_fd
  BY DEF OneInstance, Ready

\* While a watch is there, nothing but reading it, or taking it down, takes an event
\* from its queue: a watch that replaces it goes on with the same instance.
LEMMA EventsStay ==
    ASSUME WatcherType, OneInstance, Active,
           (\E e \in Event : Notify(e)) \/ AddWatch \/ UNCHANGED watcherVars
    PROVE  /\ inotify_fd' = inotify_fd
           /\ Elements(queue[inotify_fd]) \subseteq Elements(queue'[inotify_fd])
  <1>0. inotify_fd \in Inos /\ queue[inotify_fd] \in Seq(Event)
    BY DEF Active, WatcherType
  <1>1. ASSUME NEW e \in Event, Notify(e)
        PROVE  Elements(queue[inotify_fd]) \subseteq Elements(queue'[inotify_fd])
    <2>1. queue'[inotify_fd] = Post(queue[inotify_fd], e)
      BY <1>0, <1>1 DEF Notify, Active
    <2> QED
      BY <1>0, <2>1, PostKeeps
  <1>2. ASSUME AddWatch
        PROVE  /\ inotify_fd' = inotify_fd
               /\ Elements(queue[inotify_fd]) \subseteq Elements(queue'[inotify_fd])
    <2>1. inotify_fd' = inotify_fd /\ queue' = [queue EXCEPT ![inotify_fd] = Post(@, NoName)]
      BY <1>2 DEF AddWatch, Active
    <2>2. queue'[inotify_fd] = Post(queue[inotify_fd], NoName)
      BY <1>0, <2>1 DEF WatcherType
    <2> QED
      BY <1>0, <2>1, <2>2, PostKeeps DEF Event
  <1> QED
    BY <1>1, <1>2 DEF Notify, watcherVars
=============================================================================
