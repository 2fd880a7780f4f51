--------------------------- MODULE PrivateMemory ---------------------------
(***************************************************************************)
(* What the memory pool promises to those who call it: memory of their     *)
(* own.  A block that is given out was nobody's and is all zeros; from     *)
(* then on it holds what its holder has written, until he gives it up.     *)
(*                                                                         *)
(* A block that is reallocated is followed by one with the same contents,  *)
(* provided that these were no more than the new one has room for, and no  *)
(* more than the first use the block was ever put to; else by zeros.       *)
(***************************************************************************)
EXTENDS Naturals, Sequences

CONSTANTS Threads, Blocks, Sizes

VARIABLES
  held,    \* the blocks of each thread
  bytes,   \* what is in every block as far as its holder may use it
  first    \* the size of the first use of every block there has been

vars == <<held, bytes, first>>

Init ==
  /\ held = [t \in Threads |-> {}]
  /\ bytes = [b \in Blocks |-> <<>>]
  /\ first = <<>>

GivesOut(t, b, contents) ==
  /\ \A u \in Threads : b \notin held[u]
  /\ held' = [held EXCEPT ![t] = @ \union {b}]
  /\ bytes' = [bytes EXCEPT ![b] = contents]
  /\ first' = [c \in DOMAIN first \union {b} |->
                IF c \in DOMAIN first THEN first[c] ELSE Len(contents)]

Alloc(t, b, size) == GivesOut(t, b, [k \in 1 .. size |-> "zero"])

\* What becomes of the contents of block b in one of `size' bytes.
Survives(b, size) == Len(bytes[b]) <= size /\ Len(bytes[b]) <= first[b]
Moved(b, size) ==
  [k \in 1 .. size |->
    IF Survives(b, size) /\ k <= Len(bytes[b]) THEN bytes[b][k] ELSE "zero"]

\* The old block is given up by a step of its own.
Realloc(t, b, n, size) == b \in held[t] /\ GivesOut(t, n, Moved(b, size))

Write(t, b) ==
  /\ b \in held[t]
  /\ bytes' = [bytes EXCEPT ![b] = [k \in 1 .. Len(@) |-> "own"]]
  /\ UNCHANGED <<held, first>>

GiveUp(t, b) ==
  /\ b \in held[t]
  /\ held' = [held EXCEPT ![t] = @ \ {b}]
  /\ bytes' = [bytes EXCEPT ![b] = <<>>]
  /\ UNCHANGED first

Next ==
  \E t \in Threads, b \in Blocks :
    \/ Write(t, b) \/ GiveUp(t, b)
    \/ \E size \in Sizes :
         \/ Alloc(t, b, size)
         \/ \E n \in Blocks : Realloc(t, b, n, size)

Spec == Init /\ [][Next]_vars

=============================================================================
