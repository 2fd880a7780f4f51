------------------------------ MODULE PoolSeq ------------------------------
(***************************************************************************)
(* What the connection pool promises: a queue of idle connections.  One    *)
(* that is given back is appended; a request takes the first that is       *)
(* alive, and discards those before it; an idle connection may be          *)
(* withdrawn.  A connection is idle, held by one user, or does not exist.  *)
(***************************************************************************)
EXTENDS SequencesExt, Integers

CONSTANT Conns

VARIABLES
  idle,    \* the connections in the pool, in order
  dead,    \* those of them marked as no longer alive
  held     \* connections out of the pool

vars == <<idle, dead, held>>

Members == {idle[k] : k \in DOMAIN idle}

Init == idle = <<>> /\ dead = {} /\ held = {}

New(c) ==
  /\ c \notin Members \union held
  /\ held' = held \union {c}
  /\ UNCHANGED <<idle, dead>>

Discard(c) ==
  /\ c \in held
  /\ held' = held \ {c}
  /\ UNCHANGED <<idle, dead>>

GiveBack(c) ==
  /\ c \in held
  /\ held' = held \ {c}
  /\ idle' = Append(idle, c)
  /\ UNCHANGED dead

Take ==
  \E k \in 0 .. Len(idle) :
    /\ \A m \in 1 .. k : idle[m] \in dead
    /\ k < Len(idle) => idle[k + 1] \notin dead
    /\ idle' = SubSeq(idle, k + 2, Len(idle))
    /\ dead' = dead \ {idle[m] : m \in 1 .. k}
    /\ held' = held \union {idle[m] : m \in {k + 1} \intersect DOMAIN idle}

Mark(c) ==
  /\ c \in Members
  /\ dead' = dead \union {c}
  /\ UNCHANGED <<idle, held>>

Withdraw(k) ==
  /\ idle' = RemoveAt(idle, k)
  /\ dead' = dead \ {idle[k]}
  /\ UNCHANGED held

Next ==
  \/ Take
  \/ \E c \in Conns : New(c) \/ Discard(c) \/ GiveBack(c) \/ Mark(c)
  \/ \E k \in DOMAIN idle : Withdraw(k)

Spec == Init /\ [][Next]_vars

=============================================================================
