\* The reader has read the unterminated end of the file before follow().
SPECIFICATION FairSpec
CHECK_DEADLOCK FALSE
CONSTANTS
    Readers = {r1}
    Writers = {}
    Control = {t1}
    Files = {h1, h2}
    Inos = {i1, i2}
    Names = {}
    NoIno = NoIno
    NoName = NoName
    NoFile = NoFile
    NoThread = NoThread
    Bufsz = 2
    MaxChars = 2
    MaxCalls = 3
PROPERTY
    WaitsOnlyAtEnd
