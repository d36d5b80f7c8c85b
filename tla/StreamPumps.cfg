\* The programs of StreamNodeMC; two xterms are made, and two lines typed or
\* added, at most.  The system stops when the program ends or every pump has and
\* nobody opens, closes or types any more.
SPECIFICATION FairSpec
CHECK_DEADLOCK FALSE
CONSTANTS
    A = A  B = B  p1 = p1  p2 = p2  c1 = c1  c2 = c2
    Terminals = {A, B}
    Controllers = {c1, c2}
    Pumps = {p1, p2}
    Jobs <- Programs
    MaxSessions = 2
    MaxLines = 2
    MaxRepeats = 1
    NoTerminal = NoTerminal
    Free = Free
INVARIANTS
    TypeOK
    NoOrphan
    Unharmed
    InOrder
    Complete
PROPERTY PumpsEnd
