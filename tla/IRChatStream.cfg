\* The listener of the echo bot: one session, one connection, one line, one
\* reader.  The reader, too, is fair: it takes a message as soon as there is one.
SPECIFICATION FairReaderSpec
CHECK_DEADLOCK FALSE
CONSTANTS
    Readers = {r1}
    Writers = {}
    MaxOpens = 1
    MaxConns = 1
    MaxLines = 1
PROPERTIES
    StreamEnds
