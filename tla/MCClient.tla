------------------------------ MODULE MCClient ------------------------------
(* Small instances of Client for TLC. *)
EXTENDS Client, TLC

\* Descriptors and connections are interchangeable: the client never compares
\* them with anything but each other.
Symmetry == Permutations(Fds) \union Permutations(Conns)

=============================================================================
