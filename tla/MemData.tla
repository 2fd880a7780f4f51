------------------------------ MODULE MemData ------------------------------
(***************************************************************************)
(* What the holders of blocks find in them: the contents of the blocks of  *)
(* MemPool, cleared by mem_alloc, written by their holders and copied by   *)
(* mem_realloc.  Of a byte matters only whether it is zero, written by the *)
(* present holder, or left by something else.  A block has as many bytes   *)
(* as were malloc'ed, or more if something is written past its end.        *)
(*                                                                         *)
(* Callers of mem_realloc are taken to pass the size they asked for as     *)
(* old_size.                                                               *)
(***************************************************************************)
EXTENDS MemPool

VARIABLE data     \* the bytes of every block

dvars == <<vars, data>>

Fill(n, byte) == [k \in 1 .. n |-> byte]

DInit == Init /\ data = [b \in Blocks |-> <<>>]

\* memcpy, or memset, of n bytes, which may run past the end of the destination.
MemCpy(to, from, n) ==
  [k \in 1 .. (IF n > Len(to) THEN n ELSE Len(to)) |-> IF k <= n THEN from[k] ELSE to[k]]

\* memset in mem_alloc: as many bytes as a block of class i has, the class of the
\* size asked for; that the block is of this class is not looked at.  A fault: as
\* many as the block was first asked for.
ClearedToObjSize(b, i) == heap'[b].obj_size
ClearedTo(b, i) == BlockSize(i)

\* A block of the list of class i as mem_alloc returns it, over what malloc or
\* its last holder left there.
Cleared(b, i) ==
  LET found == IF heap[b].raw THEN Fill(BlockSize(i), "stale") ELSE data[b]
      n == ClearedTo(b, i)
  IN MemCpy(found, Fill(n, "zero"), n)

\* Whether mem_realloc copies; a fault: what is left of the new block is not
\* looked at.
CopiesTooMuch(old, first, new) == old <= first
Copies(old, first, new) == old <= first /\ old <= new

Abandoned(b) == [k \in DOMAIN data[b] |-> "stale"]

DAlloc(t, b, size) ==
  /\ Alloc(t, b, size)
  /\ \E i \in Classes : IsClassOf(i, size) /\ data' = [data EXCEPT ![b] = Cleared(b, i)]

\* A holder fills what it asked for.
Writes(t, b) ==
  /\ op[t] = Idle
  /\ b \in held[t]
  /\ data' = [data EXCEPT ![b] = MemCpy(@, Fill(asked[b], "own"), asked[b])]
  /\ UNCHANGED vars

DFree(t, b) ==
  /\ Free(t, b)
  /\ data' = [data EXCEPT ![b] = Abandoned(b)]

DPut(t) == Put(t) /\ UNCHANGED data

\* mem_realloc up to its mem_free: the new block is n.
DRealloc(t, b, n, size) ==
  /\ Realloc(t, b, n, size)
  /\ \E i \in Classes :
       /\ IsClassOf(i, size)
       /\ data' = [data EXCEPT ![n] =
            IF Copies(asked[b], heap[b].obj_size, size)
            THEN MemCpy(Cleared(n, i), data[b], asked[b]) ELSE Cleared(n, i)]

DFreeOld(t) ==
  /\ FreeOld(t)
  /\ data' = [data EXCEPT ![op[t].block] = Abandoned(op[t].block)]

DNext ==
  \E t \in Threads :
    \/ DPut(t) \/ DFreeOld(t)
    \/ \E b \in Blocks :
         \/ Writes(t, b) \/ DFree(t, b)
         \/ \E size \in Sizes : DAlloc(t, b, size) \/ (\E n \in Blocks : DRealloc(t, b, n, size))

DSpec == DInit /\ [][DNext]_dvars

-----------------------------------------------------------------------------
(* Properties. *)

\* Every block has the bytes of the class it was malloc'ed for: no memset, which
\* clears what a block of the class asked for has, and no memcpy runs past the end
\* of it, although no block records its class.  And whoever holds a block finds in
\* it zeros and what he has written or had copied, to its end, never what another
\* holder, or malloc, left there.
NoResidue ==
  /\ \A b \in Blocks : Len(data[b]) = IF heap[b].raw THEN 0 ELSE BlockSize(heap[b].canary)
  /\ \A t \in Threads : \A b \in held[t] : \A k \in DOMAIN data[b] : data[b][k] # "stale"

\* Whatever other threads do, in the part of mem_free outside the lock too, each
\* thread sees memory of its own, as PrivateMemory promises it: a block is given
\* to one thread at a time, empty, holds what that thread wrote, and loses it in
\* mem_realloc exactly if the new block or the first use of the old one is too
\* small.
Seen(b) ==
  IF \E t \in Threads : b \in held[t] THEN [k \in 1 .. asked[b] |-> data[b][k]] ELSE <<>>
Promise == INSTANCE PrivateMemory
  WITH bytes <- [b \in Blocks |-> Seen(b)],
       first <- [b \in {c \in Blocks : ~heap[c].raw} |-> heap[b].obj_size]
IsPrivateMemory == Promise!Spec

=============================================================================
