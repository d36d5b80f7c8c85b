\* One writer, which may write two strings at a time, and one reader;
\* two sessions and two prompts.  Texts of at most two characters: a backspace, a
\* newline, a quote, a slash, a backslash, a u, and one of two and one of four
\* bytes.  Fairness is that of threads inside a call; the system stops when nobody calls, or the program ends.
SPECIFICATION FairSpec
CHECK_DEADLOCK FALSE
CONSTANTS
    Readers = {r1}
    Writers = {w1}
    MaxOpens = 2
    MaxPrompts = 2
    MaxStrings = 2
    Chars = {8, 10, 34, 47, 92, 117, 233, 128512}
    MaxChars = 2
INVARIANTS
    TypeOK
    TextsSurvive
    ClosedIsQuiet
PROPERTIES
    PromptAnswered
    CloseReturns
    ImplementsService
