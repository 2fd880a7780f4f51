----------------------------- MODULE MCReceiver -----------------------------
(* Small instances of Receiver for TLC. *)
EXTENDS Receiver

\* Every length up to one more than what is accepted.
SmallLengths == 0 .. LogMax + 1

=============================================================================
