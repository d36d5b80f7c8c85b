\* A reader and a thread that opens and closes the node; the client is free to
\* do nothing at all.  Fairness is that of threads inside a call.
SPECIFICATION FairSpec
CHECK_DEADLOCK FALSE
CONSTANTS
    Readers = {r1}
    Writers = {}
    Control = {t1}
    Conns = {c1}
    Fds = {f1, f2}
    NoFd = NoFd
    NoThread = NoThread
    NoConn = NoConn
    UnixDomain = FALSE
    Backlog = 1
    MaxSent = 2
    MsgLen = 2
    MaxMsgs = 2
    MaxCloses = 1
    Interrupts = FALSE
PROPERTY
    CloseBreaksRead
