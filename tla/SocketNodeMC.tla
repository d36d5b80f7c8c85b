---------------------------- MODULE SocketNodeMC ----------------------------
(* Small instances of SocketNode for TLC: the values are in the cfg files.  *)
EXTENDS SocketNode, TLC

\* Connections and descriptor names are interchangeable.
Symmetry == Permutations(Conns) \cup Permutations(Fds)
=============================================================================
