\* Two threads that send four messages, three if any overlap (or a fourth, to
\* close a node that is being closed), with a watch thread, a reader and two
\* changes of the directory; or, of v0, three commands.  Fairness is that of
\* threads inside a call; the system stops when nobody calls, or the program ends.
SPECIFICATION FairSpec
CHECK_DEADLOCK FALSE
CONSTANTS
    Readers = {r1}
    Control = {t1, t2}
    Names = {n1, n2}
    Inos = {i1}
    NoIno = NoIno
    NoName = NoName
    Reply = Reply
    Dirs = {d1, d2}
    NoDir = NoDir
    Dot = Dot
    MaxCalls = 4
    MaxChanges = 2
INVARIANTS
    TypeOK
    LeftBehindIsClosed
    ClosedIsQuiet
    DirsClosed
PROPERTIES
    CloseReturns
    EventReachesContainer
    EventsHandedOn
