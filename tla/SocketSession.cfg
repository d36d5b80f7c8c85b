\* One reader, one writer and one thread that opens and closes the node;
\* two clients in a row, so that a reopened node meets a new client.
\* The system may stop: a do_accept() that no client answers keeps the lock.
SPECIFICATION Spec
CHECK_DEADLOCK FALSE
CONSTANTS
    Readers = {r1}
    Writers = {w1}
    Control = {t1}
    Conns = {c1, c2}
    Fds = {f1, f2}
    NoFd = NoFd
    NoThread = NoThread
    NoConn = NoConn
    UnixDomain = TRUE
    Backlog = 1
    MaxSent = 2
    MsgLen = 2
    MaxMsgs = 1
    MaxCloses = 1
    Interrupts = TRUE
SYMMETRY Symmetry
INVARIANTS
    TypeOK
    ByteConservation
    NoFdLeak
    SocketFileFollowsListener
