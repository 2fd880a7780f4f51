----------------------------- MODULE MCMemPool -----------------------------
(* A small instance of MemPool, with contents and statistics, for TLC. *)
EXTENDS MemReport, TLC

\* Two classes, and sizes below and at the limit of each.
SmallClasses == 0 .. 1
SmallSizes == 1 .. 4

Symmetry == Permutations(Threads) \union Permutations(Blocks)

=============================================================================
