----------------------------- MODULE LineStream -----------------------------
(***************************************************************************)
(* What a line-oriented reader promises about one conversation: bytes       *)
(* arrive in order, and what has been handed to the caller is always a      *)
(* prefix of them, cut only after newlines, until the stream is over; then  *)
(* the unterminated rest is handed over in one piece.                       *)
(***************************************************************************)
EXTENDS Naturals, Sequences

CONSTANT Byte, IsNewline(_)

VARIABLES
    arrived,   \* every byte the other side has sent
    taken,     \* every byte handed to the caller
    over       \* the other side has closed the stream

vars == <<arrived, taken, over>>

Init == arrived = <<>> /\ taken = <<>> /\ over = FALSE

\* Some more bytes arrive, and the stream may end with them.
Arrive ==
    /\ ~over
    /\ Len(arrived') >= Len(arrived)
    /\ SubSeq(arrived', 1, Len(arrived)) = arrived
    /\ over' \in BOOLEAN
    /\ UNCHANGED taken

\* The caller gets the next line: everything up to the next newline.
TakeLine ==
    /\ \E n \in (Len(taken) + 1)..Len(arrived) :
         /\ IsNewline(arrived[n])
         /\ \A i \in (Len(taken) + 1)..(n - 1) : ~IsNewline(arrived[i])
         /\ taken' = SubSeq(arrived, 1, n)
    /\ UNCHANGED <<arrived, over>>

\* After the end the caller gets what is left when it holds no newline.
TakeRest ==
    /\ over
    /\ \A i \in (Len(taken) + 1)..Len(arrived) : ~IsNewline(arrived[i])
    /\ taken' = arrived
    /\ UNCHANGED <<arrived, over>>

Next == Arrive \/ TakeLine \/ TakeRest

Spec == Init /\ [][Next]_vars
=============================================================================
