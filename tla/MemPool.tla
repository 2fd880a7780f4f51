------------------------------ MODULE MemPool ------------------------------
(***************************************************************************)
(* The memory pool of jujube (mem.c), which every stream and buffer comes  *)
(* from.  Blocks are malloc'ed in sizes that are powers of two, one class  *)
(* per size, and are never given back: mem_free puts a block at the tail   *)
(* of the list of its class and mem_alloc takes the one at the head.       *)
(*                                                                         *)
(* Any number of threads call it.  What happens under mem_mutex is one     *)
(* step; what mem_free and mem_realloc do outside it are steps of their    *)
(* own.  mem_free finds the class of a block again from obj_size, the size *)
(* the block was first allocated for, which is not updated when the block  *)
(* is used again.                                                          *)
(***************************************************************************)
EXTENDS Integers, FiniteSets, Sequences

CONSTANTS
  Threads,
  Blocks,      \* addresses malloc can return; bounds the memory
  Classes,     \* MEM_TYPE_MAX classes, 0 .. n
  MinBlock,    \* size of the blocks of class 0 (16)
  Sizes,       \* sizes that callers ask for
  NULL

BlockSize(i) == MinBlock * 2 ^ i

ASSUME PoolAssumption ==
  /\ IsFiniteSet(Blocks)
  /\ NULL \notin Blocks
  /\ Classes \in SUBSET Nat /\ 0 \in Classes
  /\ MinBlock \in Nat \ {0}
  /\ Sizes \subseteq Nat
  /\ \A size \in Sizes : \E i \in Classes : size <= BlockSize(i)

VARIABLES
  heap,        \* the header of every block; "raw" if not malloc'ed yet
  free,        \* MemPools: the free list of every class
  used,        \* MEM_USED_LIST, whose order nothing depends on
  stat,        \* mem_stat
  held,        \* the blocks each thread has been given and not freed
  asked,       \* the size the holder of a block asked for
  op,          \* where a thread is inside mem_free or mem_realloc
  failed,      \* an assertion of mem.c has failed
  peak         \* history: the most blocks of a class in use at one time

vars == <<heap, free, used, stat, held, asked, op, failed, peak>>

\* `canary' is where the byte 0xf was put: after a block of that class.
HeaderType ==
  [raw : BOOLEAN, canary : Classes, obj_size : Sizes \union {0}, refcount : Int]
Raw == [raw |-> TRUE, canary |-> 0, obj_size |-> 0, refcount |-> 0]

Idle == [at |-> "idle", block |-> NULL]

Init ==
  /\ heap = [b \in Blocks |-> Raw]
  /\ free = [i \in Classes |-> <<>>]
  /\ used = {}
  /\ stat = [i \in Classes |-> [used |-> 0, free |-> 0]]
  /\ held = [t \in Threads |-> {}]
  /\ asked = [b \in Blocks |-> 0]
  /\ op = [t \in Threads |-> Idle]
  /\ failed = FALSE
  /\ peak = [i \in Classes |-> 0]

-----------------------------------------------------------------------------

\* The smallest class whose blocks have room for `size' bytes.
IsClassOf(i, size) ==
  /\ size <= BlockSize(i)
  /\ \A k \in Classes : k < i => size > BlockSize(k)

\* What every allocation does besides finding a block b of class i.
Given(t, b, i, size) ==
  /\ used' = used \union {b}
  /\ held' = [held EXCEPT ![t] = @ \union {b}]
  /\ asked' = [asked EXCEPT ![b] = size]
  /\ peak' = [peak EXCEPT ![i] = IF stat[i].used + 1 > @ THEN stat[i].used + 1 ELSE @]

\* A fault: a new block although there is a free one.
MallocAlways(t, b, size) ==
  /\ heap[b].raw
  /\ \E i \in Classes :
       /\ IsClassOf(i, size)
       /\ heap' = [heap EXCEPT ![b] = [raw |-> FALSE, canary |-> i,
                                       obj_size |-> size, refcount |-> 1]]
       /\ stat' = [stat EXCEPT ![i].used = @ + 1]
       /\ Given(t, b, i, size)
  /\ UNCHANGED <<free, failed>>

\* mem_alloc when its free list is empty.
Malloc(t, b, size) ==
  /\ heap[b].raw
  /\ \E i \in Classes :
       /\ IsClassOf(i, size)
       /\ free[i] = <<>>
       /\ heap' = [heap EXCEPT ![b] = [raw |-> FALSE, canary |-> i,
                                       obj_size |-> size, refcount |-> 1]]
       /\ stat' = [stat EXCEPT ![i].used = @ + 1]
       /\ Given(t, b, i, size)
  /\ UNCHANGED <<free, failed>>

\* Three faults: blocks_free is not counted down; the count of references is
\* left at zero; the block stays on the free list.
ReuseUncounted(t, b, size) ==
  \E i \in Classes :
    /\ IsClassOf(i, size)
    /\ free[i] # <<>>
    /\ b = Head(free[i])
    /\ free' = [free EXCEPT ![i] = Tail(@)]
    /\ stat' = [stat EXCEPT ![i].used = @ + 1]
    /\ heap' = [heap EXCEPT ![b].refcount = @ + 1]
    /\ failed' = (failed \/ heap[b].refcount + 1 # 1)
    /\ Given(t, b, i, size)
ReuseUnreferenced(t, b, size) ==
  \E i \in Classes :
    /\ IsClassOf(i, size)
    /\ free[i] # <<>>
    /\ b = Head(free[i])
    /\ free' = [free EXCEPT ![i] = Tail(@)]
    /\ stat' = [stat EXCEPT ![i] = [used |-> @.used + 1, free |-> @.free - 1]]
    /\ Given(t, b, i, size)
    /\ UNCHANGED <<heap, failed>>
ReuseStaysListed(t, b, size) ==
  \E i \in Classes :
    /\ IsClassOf(i, size)
    /\ free[i] # <<>>
    /\ b = Head(free[i])
    /\ free' = free
    /\ stat' = [stat EXCEPT ![i] = [used |-> @.used + 1, free |-> @.free - 1]]
    /\ heap' = [heap EXCEPT ![b].refcount = @ + 1]
    /\ failed' = (failed \/ heap[b].refcount + 1 # 1)
    /\ Given(t, b, i, size)

\* mem_alloc when there is a free block: the one at the head is taken, its
\* obj_size is kept, and assert(me->refcount == 1) must hold.
Reuse(t, b, size) ==
  \E i \in Classes :
    /\ IsClassOf(i, size)
    /\ free[i] # <<>>
    /\ b = Head(free[i])
    /\ free' = [free EXCEPT ![i] = Tail(@)]
    /\ stat' = [stat EXCEPT ![i] = [used |-> @.used + 1, free |-> @.free - 1]]
    /\ heap' = [heap EXCEPT ![b].refcount = @ + 1]
    /\ failed' = (failed \/ heap[b].refcount + 1 # 1)
    /\ Given(t, b, i, size)

\* mem_alloc returns block b.
Takes(t, b, size) == Malloc(t, b, size) \/ Reuse(t, b, size)

Alloc(t, b, size) ==
  /\ op[t] = Idle
  /\ Takes(t, b, size)
  /\ UNCHANGED op

\* mem_free up to the lock: the canary and the count are checked.
Unreference(t, b) ==
  /\ op' = [op EXCEPT ![t] = [at |-> "put", block |-> b]]
  /\ heap' = [heap EXCEPT ![b].refcount = @ - 1]
  /\ held' = [held EXCEPT ![t] = @ \ {b}]
  /\ failed' = \/ failed
               \/ ~IsClassOf(heap[b].canary, heap[b].obj_size)
               \/ heap[b].refcount - 1 # 0
  /\ UNCHANGED <<free, used, stat, asked, peak>>

\* A thread frees a block that it holds.
Free(t, b) ==
  /\ op[t] = Idle
  /\ b \in held[t]
  /\ Unreference(t, b)

\* A fault: the block goes to the list of the class below.
PutBelow(t) ==
  LET b == op[t].block IN
  /\ op[t].at = "put"
  /\ \E i, k \in Classes :
       /\ IsClassOf(i, heap[b].obj_size)
       /\ k = IF i = 0 THEN 0 ELSE i - 1
       /\ free' = [free EXCEPT ![k] = Append(@, b)]
       /\ stat' = [stat EXCEPT ![k] = [used |-> @.used - 1, free |-> @.free + 1]]
  /\ used' = used \ {b}
  /\ op' = [op EXCEPT ![t] = Idle]
  /\ UNCHANGED <<heap, held, asked, failed, peak>>

\* mem_free under the lock.
Put(t) ==
  LET b == op[t].block IN
  /\ op[t].at = "put"
  /\ \E i \in Classes :
       /\ IsClassOf(i, heap[b].obj_size)
       /\ free' = [free EXCEPT ![i] = Append(@, b)]
       /\ stat' = [stat EXCEPT ![i] = [used |-> @.used - 1, free |-> @.free + 1]]
  /\ used' = used \ {b}
  /\ op' = [op EXCEPT ![t] = Idle]
  /\ UNCHANGED <<heap, held, asked, failed, peak>>

\* mem_realloc of b: a new block n first (for the contents see MemData) ...
Realloc(t, b, n, size) ==
  /\ op[t] = Idle
  /\ b \in held[t]
  /\ Takes(t, n, size)
  /\ op' = [op EXCEPT ![t] = [at |-> "realloc", block |-> b]]

\* ... then mem_free of the old one.
FreeOld(t) ==
  /\ op[t].at = "realloc"
  /\ Unreference(t, op[t].block)

Next ==
  \E t \in Threads :
    \/ \E b \in Blocks, size \in Sizes : Alloc(t, b, size)
    \/ \E b \in Blocks : Free(t, b)
    \/ Put(t)
    \/ \E b, n \in Blocks, size \in Sizes : Realloc(t, b, n, size)
    \/ FreeOld(t)

Spec == Init /\ [][Next]_vars

-----------------------------------------------------------------------------
(* Properties. *)

Listed(i) == {free[i][k] : k \in DOMAIN free[i]}
InClass(i) == {b \in Blocks : ~heap[b].raw /\ heap[b].canary = i}
Putting == {op[t].block : t \in {u \in Threads : op[u].at = "put"}}

\* The variables have their types; the counters, C ints, stay within the
\* number of blocks there are.
TypeOK ==
  /\ heap \in [Blocks -> HeaderType]
  /\ free \in [Classes -> Seq(Blocks)]
  /\ used \in SUBSET Blocks
  /\ stat \in [Classes -> [used : 0 .. Cardinality(Blocks), free : 0 .. Cardinality(Blocks)]]
  /\ held \in [Threads -> SUBSET Blocks]
  /\ asked \in [Blocks -> Sizes \union {0}]
  /\ op \in [Threads -> [at : {"idle", "put", "realloc"}, block : Blocks \union {NULL}]]
  /\ failed \in BOOLEAN
  /\ peak \in [Classes -> 0 .. Cardinality(Blocks)]

\* Every block that has been malloc'ed is either on the used list or once on
\* one free list, that of the class it was malloc'ed for, although its class
\* is found again from the size of its first use and the two lists share one
\* pair of links.  (And the variables have their types.)
Partition ==
  /\ TypeOK
  /\ used \subseteq {b \in Blocks : ~heap[b].raw}
  /\ \A i \in Classes :
       /\ Listed(i) = InClass(i) \ used
       /\ \A k, l \in DOMAIN free[i] : free[i][k] = free[i][l] => k = l

\* No block is given to two threads, or given out again while a thread that
\* is freeing it has yet to take the lock; a block has room for its holder.
Exclusive ==
  /\ \A t, u \in Threads : t # u => held[t] \intersect held[u] = {}
  /\ \A t \in Threads : held[t] \intersect Putting = {}
  /\ used = (UNION {held[t] : t \in Threads}) \union Putting
  /\ \A b \in used : asked[b] <= BlockSize(heap[b].canary)

\* The assertions of mem_alloc and mem_free hold: the canary is where mem_free
\* looks for it, and the count of references is one while a block is in use.
AssertionsHold == ~failed

\* The statistics agree with the lists ("this value should be equal to the num
\* of entries in usedlist", mem.c:117), for every class.
StatsExact ==
  \A i \in Classes :
    /\ stat[i].used = Cardinality(used \intersect InClass(i))
    /\ stat[i].free = Len(free[i])

\* The memory the pool keeps for a class is what has been in use at one time,
\* no more: blocks are reused before new ones are malloc'ed.
FootprintIsPeak ==
  \A i \in Classes : Cardinality(InClass(i)) = peak[i]

=============================================================================
