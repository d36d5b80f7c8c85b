--------------------------- MODULE SessionService ---------------------------
(***************************************************************************)
(* What a node promises that answers prompts in sessions: while a session   *)
(* is on, what is asked in it is answered in it, in the order it was asked; *)
(* when it ends, first no more is accepted, and then no more is answered,   *)
(* whatever is still to be answered; what was answered can be taken at any  *)
(* time, also later, and once.  There is one session at a time.             *)
(***************************************************************************)
EXTENDS Integers, Sequences

CONSTANTS Sessions, Prompts, None

VARIABLES
    accepting,   \* the session in which prompts are accepted, or None
    serving,     \* the session in which prompts are answered, or None
    asked,       \* the prompts accepted, per session
    told,        \* the prompts answered, per session
    waiting      \* the answers that nobody has taken, per session

vars == <<accepting, serving, asked, told, waiting>>

Init ==
    /\ accepting = None /\ serving = None
    /\ asked = [s \in Sessions |-> <<>>]
    /\ told = [s \in Sessions |-> <<>>]
    /\ waiting = [s \in Sessions |-> <<>>]

\* A session is new, and begins when no other is on.
Start(s) ==
    /\ accepting = None /\ serving = None
    /\ asked[s] = <<>> /\ told[s] = <<>>
    /\ accepting' = s /\ serving' = s
    /\ UNCHANGED <<asked, told, waiting>>

\* A prompt is asked once.
Ask(n) ==
    /\ accepting \in Sessions
    /\ \A s \in Sessions : \A i \in 1..Len(asked[s]) : asked[s][i] # n
    /\ asked' = [asked EXCEPT ![accepting] = Append(@, n)]
    /\ UNCHANGED <<accepting, serving, told, waiting>>

\* The next prompt is answered.
Tell(n) ==
    /\ serving \in Sessions
    /\ Len(told[serving]) < Len(asked[serving])
    /\ n = asked[serving][Len(told[serving]) + 1]
    /\ told' = [told EXCEPT ![serving] = Append(@, n)]
    /\ waiting' = [waiting EXCEPT ![serving] = Append(@, n)]
    /\ UNCHANGED <<accepting, serving, asked>>

\* The oldest answer is taken.
Take(s) ==
    /\ waiting[s] # <<>>
    /\ waiting' = [waiting EXCEPT ![s] = Tail(@)]
    /\ UNCHANGED <<accepting, serving, asked, told>>

StopAccepting ==
    /\ accepting \in Sessions
    /\ accepting' = None
    /\ UNCHANGED <<serving, asked, told, waiting>>

StopServing ==
    /\ accepting = None
    /\ serving \in Sessions
    /\ serving' = None
    /\ UNCHANGED <<accepting, asked, told, waiting>>

Next ==
    \/ \E s \in Sessions : Start(s) \/ Take(s)
    \/ \E n \in Prompts : Ask(n) \/ Tell(n)
    \/ StopAccepting \/ StopServing

Spec == Init /\ [][Next]_vars
=============================================================================
