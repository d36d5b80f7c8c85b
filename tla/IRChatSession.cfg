\* One session, two connections, two lines; one writer and one reader.  Fairness
\* is that of threads inside a call and of a server that was told QUIT; the
\* system stops when nobody calls, or the program ends.
SPECIFICATION FairSpec
CHECK_DEADLOCK FALSE
CONSTANTS
    Readers = {r1}
    Writers = {w1}
    MaxOpens = 1
    MaxConns = 2
    MaxLines = 2
INVARIANTS
    TypeOK
    InOrder
    LooperKeepsNode
    ClosedIsQuiet
PROPERTIES
    Reconnects
    CloseReturns
