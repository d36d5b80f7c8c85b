\* One reader, one writer, one client that may send up to three bytes and hang
\* up at any moment, and no close().  Fairness is that of
\* threads inside a call.  The system may stop: the lock stays with a
\* do_accept() that no client answers.
SPECIFICATION FairSpec
CHECK_DEADLOCK FALSE
CONSTANTS
    Readers = {r1}
    Writers = {w1}
    Control = {t1}
    Conns = {c1}
    Fds = {f1, f2}
    NoFd = NoFd
    NoThread = NoThread
    NoConn = NoConn
    UnixDomain = FALSE
    Backlog = 1
    MaxSent = 3
    MsgLen = 2
    MaxMsgs = 2
    MaxCloses = 0
    Interrupts = FALSE
INVARIANTS
    ReturnsOneLine
    OutInOrder
PROPERTIES
    LineServed
    HangupEndsRead
    ImplementsLineStream
