---------------------------- MODULE StreamNodeMC ----------------------------
(* The programs that TLC runs StreamNode with: the two bridges between two  *)
(* xterms, an echo within one under two threads that open and close it, a   *)
(* container and a file shown on an xterm.                                  *)
EXTENDS StreamNode, TLC

CONSTANTS A, B, p1, p2, c1, c2

Job(old, kind1, from1, kind2, to1, control, lines) ==
    [legacy |-> old,
     kind |-> (p1 :> kind1 @@ p2 :> kind2),
     from |-> (p1 :> from1 @@ p2 :> to1),
     to |-> (p1 :> to1 @@ p2 :> from1),
     control |-> control,
     lines |-> lines,
     fails |-> kind1 # "read"]

Programs ==
    {Job(FALSE, "read", A, "read", B, {c1}, 1), Job(TRUE, "stream", A, "stream", B, {c1}, 2)}
    \cup {Job(FALSE, "string", A, "none", A, {c1, c2}, 1), Job(FALSE, "stream", A, "none", A, {c1}, 2)}
    \cup {Job(FALSE, "container", A, "none", A, {c1}, 0), Job(TRUE, "file", A, "none", A, {c1}, 0)}
=============================================================================
