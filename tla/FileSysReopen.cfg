\* One thread that sends messages; no change of the directory is needed.
SPECIFICATION Spec
CHECK_DEADLOCK FALSE
CONSTANTS
    Readers = {r1}
    Control = {t1}
    Names = {n1}
    Inos = {i1}
    NoIno = NoIno
    NoName = NoName
    Reply = Reply
    Dirs = {d1}
    NoDir = NoDir
    Dot = Dot
    MaxCalls = 3
    MaxChanges = 1
PROPERTY
    WatchedUntilClosed
