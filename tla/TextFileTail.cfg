\* One reader, one writer and one thread that opens, follows and closes, on a
\* file that grows by two characters.  Fairness is that of threads
\* inside a call; the system stops when nobody calls any more.
SPECIFICATION FairSpec
CHECK_DEADLOCK FALSE
CONSTANTS
    Readers = {r1}
    Writers = {w1}
    Control = {t1}
    Files = {h1, h2}
    Inos = {i1, i2}
    Names = {}
    NoIno = NoIno
    NoName = NoName
    NoFile = NoFile
    NoThread = NoThread
    Bufsz = 2
    MaxChars = 2
    MaxCalls = 3
INVARIANTS
    TypeOK
    TailIsWatched
PROPERTIES
    LostOnlyByReopen
    AppendWakes
    ClosedEndsRead
