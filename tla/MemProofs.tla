----------------------------- MODULE MemProofs -----------------------------
(***************************************************************************)
(* The memory pool is sound, for any number of threads, any finite set of  *)
(* blocks and any classes and sizes.                                       *)
(*                                                                         *)
(* PoolInv is inductive.  Its heart is HeadersSound: the size a block was  *)
(* first used for, from which mem_free finds the class again, always has   *)
(* the class in which the block was malloc'ed, so a block goes back to the *)
(* list it came from and the lists stay a partition (ListsSound); and      *)
(* OwnersSound: a block in use is in one pair of hands, also between the   *)
(* part of mem_free outside the lock and the part under it.  Malloc and    *)
(* Reuse are brought to one form, Obtained, of which the rest is proved.   *)
(*                                                                         *)
(* On it rest the invariant of the contents (DataInv, of MemData), the     *)
(* refinement of PrivateMemory, and the invariant of the report that takes *)
(* no lock (ReportInv, of MemReport).                                      *)
(***************************************************************************)
EXTENDS MemReport, SequenceTheorems, FiniteSetTheorems, TLAPS

-----------------------------------------------------------------------------
(* Classes, lists and counts. *)

\* A size has one class only.
LEMMA ClassUnique ==
  ASSUME NEW size \in Sizes, NEW i \in Classes, NEW k \in Classes,
         IsClassOf(i, size), IsClassOf(k, size)
  PROVE  i = k
<1>1. size \in Int /\ i \in Nat /\ k \in Nat /\ MinBlock \in Int
  BY PoolAssumption
<1>2. BlockSize(i) \in Int /\ BlockSize(k) \in Int
  BY <1>1 DEF BlockSize
<1>3. ~(i < k) /\ ~(k < i)
  BY <1>1, <1>2 DEF IsClassOf
<1> QED BY <1>1, <1>3

\* The head is taken off a list without repetitions.
LEMMA TailOfList ==
  ASSUME NEW S, NEW s \in Seq(S), s # <<>>, IsInjective(s)
  PROVE  /\ Head(s) \in S /\ Tail(s) \in Seq(S) /\ Len(Tail(s)) = Len(s) - 1
         /\ Len(s) > 0
         /\ Range(Tail(s)) = Range(s) \ {Head(s)}
         /\ Head(s) \in Range(s)
         /\ IsInjective(Tail(s))
<1>1. /\ Head(s) \in S /\ Tail(s) \in Seq(S) /\ Len(Tail(s)) = Len(s) - 1
      /\ Len(s) \in Nat /\ Len(s) > 0
      /\ \A k \in 1 .. Len(s) - 1 : Tail(s)[k] = s[k + 1]
      /\ Head(s) = s[1]
      /\ DOMAIN s = 1 .. Len(s) /\ DOMAIN Tail(s) = 1 .. Len(s) - 1
  BY HeadTailProperties
<1>2. \A k \in 1 .. Len(s) : k = 1 \/ (k - 1 \in 1 .. Len(s) - 1 /\ Tail(s)[k - 1] = s[k])
  BY <1>1
<1>3. \A k \in 1 .. Len(s) - 1 : k + 1 \in 1 .. Len(s) /\ k + 1 # 1
  BY <1>1
<1>4. Range(Tail(s)) = Range(s) \ {Head(s)}
  <2>1. ASSUME NEW k \in 1 .. Len(s) - 1 PROVE Tail(s)[k] \in Range(s) \ {Head(s)}
    BY <1>1, <1>3 DEF Range, IsInjective
  <2>2. ASSUME NEW x \in Range(s) \ {Head(s)} PROVE x \in Range(Tail(s))
    <3>1. PICK k \in 1 .. Len(s) : x = s[k]
      BY <1>1 DEF Range
    <3>2. k - 1 \in 1 .. Len(s) - 1 /\ Tail(s)[k - 1] = x
      BY <1>1, <1>2, <3>1
    <3>3. k - 1 \in DOMAIN Tail(s)
      BY <1>1, <3>2
    <3> QED BY <3>2, <3>3 DEF Range
  <2> QED BY <1>1, <2>1, <2>2 DEF Range
<1>5. IsInjective(Tail(s))
  BY <1>1, <1>3 DEF IsInjective
<1>6. Head(s) \in Range(s)
  BY <1>1 DEF Range
<1> QED BY <1>1, <1>4, <1>5, <1>6

\* An element that is not on a list is put at its end.
LEMMA AppendToList ==
  ASSUME NEW S, NEW s \in Seq(S), NEW x \in S, x \notin Range(s), IsInjective(s)
  PROVE  /\ Append(s, x) \in Seq(S) /\ Len(Append(s, x)) = Len(s) + 1
         /\ Range(Append(s, x)) = Range(s) \union {x}
         /\ IsInjective(Append(s, x))
<1>1. /\ Append(s, x) \in Seq(S) /\ Len(Append(s, x)) = Len(s) + 1
      /\ Len(s) \in Nat
      /\ \A k \in 1 .. Len(s) : Append(s, x)[k] = s[k]
      /\ Append(s, x)[Len(s) + 1] = x
      /\ DOMAIN s = 1 .. Len(s) /\ DOMAIN Append(s, x) = 1 .. Len(s) + 1
  BY AppendProperties
<1>2. \A k \in 1 .. Len(s) + 1 : k \in 1 .. Len(s) \/ k = Len(s) + 1
  BY <1>1
<1>3. Range(Append(s, x)) = Range(s) \union {x}
  BY <1>1, <1>2 DEF Range
<1>4. IsInjective(Append(s, x))
  <2> SUFFICES ASSUME NEW k \in 1 .. Len(s) + 1, NEW l \in 1 .. Len(s) + 1,
                      Append(s, x)[k] = Append(s, x)[l]
               PROVE  k = l
    BY <1>1 DEF IsInjective
  <2>1. \A m \in 1 .. Len(s) : s[m] # x
    BY <1>1 DEF Range
  <2> QED BY <1>1, <1>2, <2>1 DEF IsInjective
<1> QED BY <1>1, <1>3, <1>4

\* A list without repetitions is as long as it has elements.
LEMMA ListLength ==
  ASSUME NEW S, NEW s \in Seq(S), IsInjective(s)
  PROVE  IsFiniteSet(Range(s)) /\ Cardinality(Range(s)) = Len(s)
<1>1. Len(s) \in Nat /\ DOMAIN s = 1 .. Len(s) /\ s \in [1 .. Len(s) -> S]
  BY LenProperties
<1>2. s \in Bijection(1 .. Len(s), Range(s))
  BY <1>1 DEF Bijection, Injection, Surjection, IsInjective, Range
<1>3. ExistsBijection(1 .. Len(s), Range(s))
  BY <1>2 DEF ExistsBijection
<1>4. IsFiniteSet(1 .. Len(s)) /\ Cardinality(1 .. Len(s)) = Len(s)
  BY <1>1, FS_Interval
<1> QED BY <1>3, <1>4, FS_Bijection

-----------------------------------------------------------------------------
(* The invariant. *)

\* The types, but for the bounds of the counters, which follow from the rest.
PoolTypes ==
  /\ heap \in [Blocks -> HeaderType]
  /\ free \in [Classes -> Seq(Blocks)]
  /\ used \in SUBSET Blocks
  /\ stat \in [Classes -> [used : Int, free : Int]]
  /\ held \in [Threads -> SUBSET Blocks]
  /\ asked \in [Blocks -> Sizes \union {0}]
  /\ op \in [Threads -> [at : {"idle", "put", "realloc"}, block : Blocks \union {NULL}]]
  /\ failed \in BOOLEAN
  /\ peak \in [Classes -> Int]

IsHeld(b) == \E t \in Threads : b \in held[t]
IsPutBy(t, b) == op[t].at = "put" /\ op[t].block = b

\* A block keeps the class it was malloc'ed for, because that is the class of
\* the size it keeps; and it is referenced exactly while it is held.
HeadersSound ==
  \A b \in Blocks :
    IF heap[b].raw THEN b \notin used
    ELSE /\ heap[b].obj_size \in Sizes
         /\ IsClassOf(heap[b].canary, heap[b].obj_size)
         /\ heap[b].refcount = IF IsHeld(b) THEN 1 ELSE 0

\* Every list has the blocks of its class that are not in use, each once.
ListsSound ==
  \A i \in Classes : Range(free[i]) = InClass(i) \ used /\ IsInjective(free[i])

\* A block in use is in one pair of hands: those of its holder, or of a thread
\* on the way to the lock in mem_free.  A thread inside mem_realloc still holds
\* the old block.
OwnersSound ==
  /\ \A b \in used : IsHeld(b) \/ \E t \in Threads : IsPutBy(t, b)
  /\ \A t, u \in Threads : \A b \in held[t] : b \in held[u] => t = u
  /\ \A t \in Threads : \A b \in held[t] : b \in used
  /\ \A t \in Threads : op[t].at = "realloc" => op[t].block \in held[t]
  /\ \A t \in Threads : op[t].at = "put" => op[t].block \in used /\ ~IsHeld(op[t].block)
  /\ \A t, u \in Threads : op[t].at = "put" /\ op[u].at = "put" /\ op[t].block = op[u].block
       => t = u
  /\ \A b \in used : asked[b] <= BlockSize(heap[b].canary)

PoolInv ==
  /\ PoolTypes
  /\ HeadersSound
  /\ ListsSound
  /\ OwnersSound
  /\ AssertionsHold
  /\ StatsExact
  /\ FootprintIsPeak

\* The blocks of a class are finitely many, in use or not.
LEMMA ClassFinite ==
  ASSUME NEW i
  PROVE  /\ IsFiniteSet(InClass(i)) /\ IsFiniteSet(used \intersect InClass(i))
         /\ Cardinality(InClass(i)) \in 0 .. Cardinality(Blocks)
         /\ Cardinality(used \intersect InClass(i)) \in 0 .. Cardinality(InClass(i))
         /\ Cardinality(Blocks) \in Nat
<1>1. IsFiniteSet(Blocks) /\ InClass(i) \in SUBSET Blocks
      /\ (used \intersect InClass(i)) \in SUBSET InClass(i)
  BY PoolAssumption DEF InClass
<1>2. IsFiniteSet(InClass(i)) /\ Cardinality(InClass(i)) <= Cardinality(Blocks)
  BY <1>1, FS_Subset
<1>3. /\ IsFiniteSet(used \intersect InClass(i))
      /\ Cardinality(used \intersect InClass(i)) <= Cardinality(InClass(i))
  BY <1>1, <1>2, FS_Subset
<1>4. /\ Cardinality(Blocks) \in Nat /\ Cardinality(InClass(i)) \in Nat
      /\ Cardinality(used \intersect InClass(i)) \in Nat
  BY <1>1, <1>2, <1>3, FS_CardinalityType
<1> QED BY <1>2, <1>3, <1>4

\* The two counters of a class add up to its blocks.
LEMMA ClassCount ==
  ASSUME PoolInv, NEW i \in Classes
  PROVE  Cardinality(InClass(i)) = stat[i].used + stat[i].free
<1> DEFINE U == used \intersect InClass(i)
           R == Range(free[i])
<1>1. IsFiniteSet(R) /\ Cardinality(R) = Len(free[i])
  BY ListLength DEF PoolInv, PoolTypes, ListsSound
<1>2. IsFiniteSet(U)
  BY ClassFinite
<1>3. InClass(i) = U \union R /\ U \intersect R = {}
  BY DEF PoolInv, ListsSound
<1>4. Cardinality(U) \in Nat /\ Cardinality(R) \in Nat /\ Cardinality(U \intersect R) = 0
  BY <1>1, <1>2, <1>3, FS_CardinalityType, FS_EmptySet
<1>5. Cardinality(U \union R) = Cardinality(U) + Cardinality(R) - Cardinality(U \intersect R)
  <2> HIDE DEF U, R
  <2> QED BY <1>1, <1>2, FS_Union
<1>6. Cardinality(U \union R) = Cardinality(U) + Cardinality(R)
  BY <1>4, <1>5
<1> QED BY <1>1, <1>3, <1>6 DEF PoolInv, StatsExact

\* The type invariant and the first three properties are parts of the invariant.
LEMMA PoolInvImplies ==
  ASSUME PoolInv
  PROVE  Partition /\ Exclusive /\ AssertionsHold
<1> USE DEF PoolInv
<1>1. TypeOK
  <2>1. ASSUME NEW i \in Classes
        PROVE  /\ stat[i].used \in 0 .. Cardinality(Blocks)
               /\ stat[i].free \in 0 .. Cardinality(Blocks)
               /\ peak[i] \in 0 .. Cardinality(Blocks)
    <3>1. stat[i].free = Len(free[i]) /\ Len(free[i]) \in Nat
      BY LenProperties DEF StatsExact, PoolTypes
    <3>2. stat[i].used = Cardinality(used \intersect InClass(i))
      BY DEF StatsExact
    <3> QED BY <3>1, <3>2, ClassCount, ClassFinite DEF FootprintIsPeak
  <2>2. stat \in [Classes -> [used : 0 .. Cardinality(Blocks), free : 0 .. Cardinality(Blocks)]]
    <3>1. ASSUME NEW i \in Classes
          PROVE  stat[i] \in [used : 0 .. Cardinality(Blocks), free : 0 .. Cardinality(Blocks)]
      <4>1. stat[i] \in [used : Int, free : Int]
        BY DEF PoolTypes
      <4> QED BY <2>1, <4>1
    <3> QED BY <3>1 DEF PoolTypes
  <2>3. peak \in [Classes -> 0 .. Cardinality(Blocks)]
    BY <2>1 DEF PoolTypes
  <2> QED BY <2>2, <2>3 DEF TypeOK, PoolTypes
<1>2. Partition
  <2>1. used \subseteq {b \in Blocks : ~heap[b].raw}
    BY DEF HeadersSound, PoolTypes
  <2>2. \A i \in Classes : Listed(i) = Range(free[i])
    BY DEF Listed, Range
  <2> QED BY <1>1, <2>1, <2>2 DEF Partition, ListsSound, IsInjective
<1>3. Exclusive
  <2>1. \A t, u \in Threads : t # u => held[t] \intersect held[u] = {}
    BY DEF OwnersSound
  <2>2. \A b : b \in Putting <=> \E t \in Threads : IsPutBy(t, b)
    BY DEF Putting, IsPutBy
  <2>3. \A t \in Threads : held[t] \intersect Putting = {}
    BY <2>2 DEF OwnersSound, IsPutBy, IsHeld
  <2>4. used = (UNION {held[t] : t \in Threads}) \union Putting
    <3>1. \A b \in used : b \in (UNION {held[t] : t \in Threads}) \union Putting
      BY <2>2 DEF OwnersSound, IsHeld
    <3>2. \A b \in Putting : b \in used
      BY <2>2 DEF OwnersSound, IsPutBy
    <3> QED BY <3>1, <3>2 DEF OwnersSound
  <2> QED BY <2>1, <2>3, <2>4 DEF Exclusive, OwnersSound
<1> QED BY <1>2, <1>3

-----------------------------------------------------------------------------
(* mem_alloc. *)

\* What mem_alloc does, whether it mallocs block b or finds it on a free list:
\* a block that nobody has comes into the hands of thread t, in class i.
Obtained(t, b, size, i) ==
  /\ IsClassOf(i, size)
  /\ b \notin used
  /\ heap' \in [Blocks -> HeaderType]
  /\ \A c \in Blocks : c # b => heap'[c] = heap[c]
  /\ ~heap'[b].raw /\ heap'[b].canary = i /\ heap'[b].refcount = 1
  /\ heap'[b].obj_size \in Sizes /\ IsClassOf(i, heap'[b].obj_size)
  /\ heap[b].raw \/ heap[b].canary = i
  /\ heap[b].raw => free[i] = <<>>
  /\ free' \in [Classes -> Seq(Blocks)]
  /\ \A k \in Classes : Range(free'[k]) = Range(free[k]) \ {b} /\ IsInjective(free'[k])
  /\ stat' \in [Classes -> [used : Int, free : Int]]
  /\ \A k \in Classes : /\ stat'[k].free = Len(free'[k])
                        /\ stat'[k].used = IF k = i THEN stat[k].used + 1 ELSE stat[k].used
  /\ Given(t, b, i, size)
  /\ failed' = FALSE

LEMMA MallocObtains ==
  ASSUME PoolInv, NEW t \in Threads, NEW b \in Blocks, NEW size \in Sizes, Malloc(t, b, size)
  PROVE  \E i \in Classes : Obtained(t, b, size, i)
<1> USE DEF PoolInv
<1>1. PICK i \in Classes :
         /\ IsClassOf(i, size)
         /\ free[i] = <<>>
         /\ heap' = [heap EXCEPT ![b] = [raw |-> FALSE, canary |-> i,
                                         obj_size |-> size, refcount |-> 1]]
         /\ stat' = [stat EXCEPT ![i].used = @ + 1]
         /\ Given(t, b, i, size)
  BY DEF Malloc
<1>2. heap[b].raw /\ free' = free /\ failed' = failed
  BY DEF Malloc
<1>3. heap'[b] = [raw |-> FALSE, canary |-> i, obj_size |-> size, refcount |-> 1]
  BY <1>1 DEF PoolTypes
<1>4. heap' \in [Blocks -> HeaderType] /\ b \notin used
  BY <1>1, <1>2, <1>3 DEF PoolTypes, HeaderType, HeadersSound
<1>5. \A k \in Classes : b \notin Range(free[k])
  BY <1>2 DEF ListsSound, InClass
<1>6. /\ stat' \in [Classes -> [used : Int, free : Int]]
      /\ \A k \in Classes : /\ stat'[k].free = stat[k].free
                            /\ stat'[k].used = IF k = i THEN stat[k].used + 1 ELSE stat[k].used
  BY <1>1 DEF PoolTypes
<1>7. \A c \in Blocks : c # b => heap'[c] = heap[c]
  BY <1>1 DEF PoolTypes
<1>8. \A k \in Classes : Range(free'[k]) = Range(free[k]) \ {b} /\ IsInjective(free'[k])
  BY <1>2, <1>5 DEF ListsSound
<1>9. Obtained(t, b, size, i)
  BY <1>1, <1>2, <1>3, <1>4, <1>6, <1>7, <1>8
  DEF Obtained, PoolTypes, StatsExact, AssertionsHold
<1> QED BY <1>9

LEMMA ReuseObtains ==
  ASSUME PoolInv, NEW t \in Threads, NEW b \in Blocks, NEW size \in Sizes, Reuse(t, b, size)
  PROVE  \E i \in Classes : Obtained(t, b, size, i)
<1> USE DEF PoolInv
<1>1. PICK i \in Classes :
         /\ IsClassOf(i, size)
         /\ free[i] # <<>>
         /\ b = Head(free[i])
         /\ free' = [free EXCEPT ![i] = Tail(@)]
         /\ stat' = [stat EXCEPT ![i] = [used |-> @.used + 1, free |-> @.free - 1]]
         /\ heap' = [heap EXCEPT ![b].refcount = @ + 1]
         /\ failed' = (failed \/ heap[b].refcount + 1 # 1)
         /\ Given(t, b, i, size)
  BY DEF Reuse
<1>2. /\ Tail(free[i]) \in Seq(Blocks) /\ Len(Tail(free[i])) = Len(free[i]) - 1
      /\ Range(Tail(free[i])) = Range(free[i]) \ {b}
      /\ b \in Range(free[i])
      /\ IsInjective(Tail(free[i]))
  BY <1>1, TailOfList DEF PoolTypes, ListsSound
<1>3. ~heap[b].raw /\ heap[b].canary = i /\ b \notin used
  BY <1>2 DEF ListsSound, InClass
<1>4. /\ heap[b].obj_size \in Sizes /\ IsClassOf(i, heap[b].obj_size)
      /\ heap[b].refcount = 0
  BY <1>3 DEF HeadersSound, OwnersSound, IsHeld
<1>5. /\ heap'[b] = [heap[b] EXCEPT !.refcount = heap[b].refcount + 1]
      /\ \A c \in Blocks : c # b => heap'[c] = heap[c]
  BY <1>1 DEF PoolTypes
<1>6. /\ heap' \in [Blocks -> HeaderType]
      /\ ~heap'[b].raw /\ heap'[b].canary = i /\ heap'[b].refcount = 1
      /\ heap'[b].obj_size \in Sizes /\ IsClassOf(i, heap'[b].obj_size)
  <2>1. heap[b] \in HeaderType
    BY DEF PoolTypes
  <2>2. /\ heap'[b] \in HeaderType
        /\ ~heap'[b].raw /\ heap'[b].canary = i /\ heap'[b].refcount = 1
        /\ heap'[b].obj_size = heap[b].obj_size
    BY <2>1, <1>3, <1>4, <1>5 DEF HeaderType
  <2> QED BY <2>2, <1>1, <1>4 DEF PoolTypes
<1>7. free' \in [Classes -> Seq(Blocks)]
      /\ \A k \in Classes : free'[k] = IF k = i THEN Tail(free[i]) ELSE free[k]
  <2> DEFINE rest == Tail(free[i])
  <2>1. free' = [free EXCEPT ![i] = rest] /\ rest \in Seq(Blocks)
    BY <1>1, <1>2
  <2> HIDE DEF rest
  <2>2. free' \in [Classes -> Seq(Blocks)]
        /\ \A k \in Classes : free'[k] = IF k = i THEN rest ELSE free[k]
    BY <2>1 DEF PoolTypes
  <2> QED BY <2>2 DEF rest
<1>8. \A k \in Classes : k # i => b \notin Range(free[k])
  BY <1>3 DEF ListsSound, InClass
<1>9. \A k \in Classes : Range(free'[k]) = Range(free[k]) \ {b} /\ IsInjective(free'[k])
  BY <1>2, <1>7, <1>8 DEF ListsSound
<1>10. /\ stat' \in [Classes -> [used : Int, free : Int]]
       /\ \A k \in Classes : /\ stat'[k].free = IF k = i THEN stat[k].free - 1 ELSE stat[k].free
                             /\ stat'[k].used = IF k = i THEN stat[k].used + 1 ELSE stat[k].used
  BY <1>1 DEF PoolTypes
<1>11. \A k \in Classes : stat'[k].free = Len(free'[k])
  BY <1>2, <1>7, <1>10 DEF StatsExact
<1>12. failed' = FALSE
  <2>1. heap[b].refcount + 1 = 1
    BY <1>4
  <2>2. failed' = (failed \/ heap[b].refcount + 1 # 1)
    BY <1>1
  <2> QED BY <2>1, <2>2 DEF AssertionsHold
<1>13. Obtained(t, b, size, i)
  BY <1>1, <1>3, <1>5, <1>6, <1>7, <1>9, <1>10, <1>11, <1>12 DEF Obtained
<1> QED BY <1>13

\* A block that is obtained keeps the pool sound, in mem_alloc and in the first
\* half of mem_realloc alike.
LEMMA ObtainedInv ==
  ASSUME PoolInv, NEW t \in Threads, NEW b \in Blocks, NEW size \in Sizes, NEW i \in Classes,
         Obtained(t, b, size, i),
         \/ op' = op
         \/ \E c \in held[t] :
              op[t] = Idle /\ op' = [op EXCEPT ![t] = [at |-> "realloc", block |-> c]]
  PROVE  PoolInv'
<1> USE DEF PoolInv
<1>1. /\ b \notin used /\ IsClassOf(i, size)
      /\ used' = used \union {b}
      /\ held' = [held EXCEPT ![t] = @ \union {b}]
      /\ asked' = [asked EXCEPT ![b] = size]
      /\ peak' = [peak EXCEPT ![i] = IF stat[i].used + 1 > @ THEN stat[i].used + 1 ELSE @]
  BY DEF Obtained, Given
<1>2. /\ heap' \in [Blocks -> HeaderType]
      /\ \A c \in Blocks : c # b => heap'[c] = heap[c]
      /\ ~heap'[b].raw /\ heap'[b].canary = i /\ heap'[b].refcount = 1
      /\ heap'[b].obj_size \in Sizes /\ IsClassOf(i, heap'[b].obj_size)
  BY DEF Obtained
<1>3. /\ \A u \in Threads : held'[u] = IF u = t THEN held[t] \union {b} ELSE held[u]
      /\ \A u \in Threads : b \notin held[u]
      /\ held' \in [Threads -> SUBSET Blocks]
  BY <1>1 DEF PoolTypes, OwnersSound
<1>4. /\ \A u \in Threads : u # t => op'[u] = op[u]
      /\ \/ op'[t] = op[t]
         \/ /\ op[t].at = "idle"
            /\ op'[t].at = "realloc" /\ op'[t].block \in held[t]
      /\ op' \in [Threads -> [at : {"idle", "put", "realloc"}, block : Blocks \union {NULL}]]
  <2>1. CASE op' = op
    BY <2>1 DEF PoolTypes
  <2>2. ASSUME NEW c \in held[t],
               op[t] = Idle, op' = [op EXCEPT ![t] = [at |-> "realloc", block |-> c]]
        PROVE  /\ \A u \in Threads : u # t => op'[u] = op[u]
               /\ op[t].at = "idle" /\ op'[t].at = "realloc" /\ op'[t].block = c
               /\ op' \in [Threads -> [at : {"idle", "put", "realloc"}, block : Blocks \union {NULL}]]
    <3> DEFINE new == [at |-> "realloc", block |-> c]
    <3>1. new \in [at : {"idle", "put", "realloc"}, block : Blocks \union {NULL}]
      BY DEF PoolTypes
    <3>2. new.at = "realloc" /\ new.block = c /\ op' = [op EXCEPT ![t] = new]
      BY <2>2
    <3>3. op[t].at = "idle"
      BY <2>2 DEF Idle
    <3> HIDE DEF new
    <3> QED BY <3>1, <3>2, <3>3 DEF PoolTypes
  <2> QED BY <2>1, <2>2
<1>5. PoolTypes'
  <2>1. asked' \in [Blocks -> Sizes \union {0}]
    BY <1>1 DEF PoolTypes
  <2>2. peak' \in [Classes -> Int]
    <3>1. stat[i].used + 1 \in Int /\ peak[i] \in Int
      BY DEF PoolTypes
    <3> QED BY <1>1, <3>1 DEF PoolTypes
  <2>3. used' \in SUBSET Blocks
    BY <1>1 DEF PoolTypes
  <2> QED BY <1>2, <1>3, <1>4, <2>1, <2>2, <2>3 DEF PoolTypes, Obtained
<1>6. \A c \in Blocks : IsHeld(c)' <=> IsHeld(c) \/ c = b
  BY <1>3 DEF IsHeld
<1>7. HeadersSound'
  BY <1>1, <1>2, <1>6 DEF HeadersSound
<1>8. \A k : InClass(k)' = IF k = i THEN InClass(k) \union {b} ELSE InClass(k)
  BY <1>2 DEF InClass, Obtained
<1>9. \A k : k # i => b \notin InClass(k)
  BY DEF InClass, Obtained
<1>10. ListsSound'
  <2>1. \A k \in Classes : Range(free'[k]) = Range(free[k]) \ {b} /\ IsInjective(free'[k])
    BY DEF Obtained
  <2> QED BY <1>1, <1>8, <2>1 DEF ListsSound
<1>11. OwnersSound'
  <2>1. ASSUME NEW c \in used' PROVE IsHeld(c)' \/ \E u \in Threads : IsPutBy(u, c)'
    <3>1. CASE c = b
      BY <3>1, <1>6
    <3>2. CASE c # b
      <4>1. c \in used /\ c \in Blocks
        BY <3>2, <1>1 DEF PoolTypes
      <4>2. CASE IsHeld(c)
        BY <4>1, <4>2, <1>6
      <4>3. ASSUME NEW u \in Threads, IsPutBy(u, c) PROVE IsPutBy(u, c)'
        BY <4>3, <1>4 DEF IsPutBy
      <4> QED BY <4>1, <4>2, <4>3 DEF OwnersSound
    <3> QED BY <3>1, <3>2
  <2>2. \A u, v \in Threads : \A c \in held'[u] : c \in held'[v] => u = v
    BY <1>3 DEF OwnersSound
  <2>3. \A u \in Threads : \A c \in held'[u] : c \in used'
    BY <1>1, <1>3 DEF OwnersSound
  <2>4. \A u \in Threads : op'[u].at = "realloc" => op'[u].block \in held'[u]
    BY <1>3, <1>4 DEF OwnersSound
  <2>5. ASSUME NEW u \in Threads, op'[u].at = "put"
        PROVE  op'[u] = op[u] /\ op'[u].block \in used' /\ ~(IsHeld(op[u].block)')
    <3>1. op'[u] = op[u]
      BY <2>5, <1>4
    <3>2. op[u].block \in used /\ ~IsHeld(op[u].block) /\ op[u].block \in Blocks
      BY <2>5, <3>1 DEF OwnersSound, PoolTypes
    <3>3. op[u].block # b
      BY <3>2, <1>1
    <3>4. \A v \in Threads : op'[u].block \notin held'[v]
      BY <3>1, <3>2, <3>3, <1>3 DEF IsHeld
    <3>5. ~(IsHeld(op[u].block)')
      BY <3>4 DEF IsHeld
    <3> QED BY <3>1, <3>2, <3>5, <1>1
  <2>6. \A u, v \in Threads : op'[u].at = "put" /\ op'[v].at = "put" /\ op'[u].block = op'[v].block
          => u = v
    BY <2>5 DEF OwnersSound
  <2>7. \A c \in used' : asked'[c] <= BlockSize(heap'[c].canary)
    BY <1>1, <1>2 DEF OwnersSound, PoolTypes, IsClassOf
  <2>8. \A u \in Threads : op'[u].at = "put" => op'[u].block \in used' /\ ~(IsHeld(op[u].block)')
    BY <2>5
  <2> QED BY <2>1, <2>2, <2>3, <2>4, <2>6, <2>7, <2>8 DEF OwnersSound, IsHeld
<1> DEFINE U == used \intersect InClass(i)
<1>12. /\ IsFiniteSet(U) /\ IsFiniteSet(InClass(i))
       /\ Cardinality(U) \in Nat /\ Cardinality(InClass(i)) \in Nat
  BY ClassFinite, FS_CardinalityType
<1>13. (used \intersect InClass(i))' = U \union {b}
  BY <1>1, <1>8
<1>14. IsFiniteSet(U \union {b}) /\ Cardinality(U \union {b}) = Cardinality(U) + 1
  <2> b \notin U
    BY <1>1
  <2> HIDE DEF U
  <2> QED BY <1>12, FS_AddElement
<1>15. StatsExact'
  <2> SUFFICES ASSUME NEW k \in Classes
               PROVE  /\ stat'[k].used = Cardinality((used \intersect InClass(k))')
                      /\ stat'[k].free = Len(free'[k])
    BY DEF StatsExact
  <2>1. /\ stat'[k].free = Len(free'[k])
        /\ stat'[k].used = IF k = i THEN stat[k].used + 1 ELSE stat[k].used
    BY DEF Obtained
  <2>2. CASE k = i
    BY <2>1, <2>2, <1>13, <1>14 DEF StatsExact
  <2>3. CASE k # i
    <3>1. (used \intersect InClass(k))' = used \intersect InClass(k)
      BY <2>3, <1>1, <1>8, <1>9
    <3> QED BY <2>1, <2>3, <3>1 DEF StatsExact
  <2> QED BY <2>2, <2>3
<1>16. FootprintIsPeak'
  <2> SUFFICES ASSUME NEW k \in Classes
               PROVE  Cardinality(InClass(k)') = peak'[k]
    BY DEF FootprintIsPeak
  <2>1. stat[i].used = Cardinality(U) /\ peak[i] = Cardinality(InClass(i))
    BY DEF StatsExact, FootprintIsPeak
  <2>2. CASE k # i
    <3>1. peak'[k] = peak[k]
      BY <2>2, <1>1 DEF PoolTypes
    <3>2. InClass(k)' = InClass(k)
      BY <2>2, <1>8
    <3> QED BY <3>1, <3>2 DEF FootprintIsPeak
  <2>3. CASE k = i /\ heap[b].raw
    <3>1. free[i] = <<>> /\ b \notin InClass(i)
      BY <2>3 DEF Obtained, InClass
    <3>2. Cardinality(InClass(i)) = stat[i].used
      BY <3>1, ClassCount, <2>1, <1>12 DEF StatsExact
    <3>3. Cardinality(InClass(i) \union {b}) = Cardinality(InClass(i)) + 1
      BY <3>1, <1>12, FS_AddElement
    <3>4. peak'[i] = stat[i].used + 1
      BY <1>1, <1>12, <2>1, <3>2 DEF PoolTypes
    <3> QED BY <2>3, <3>2, <3>3, <3>4, <1>8
  <2>4. CASE k = i /\ ~heap[b].raw
    <3>1. b \in InClass(i)
      BY <2>4 DEF Obtained, InClass
    <3>2. InClass(i)' = InClass(i)
      BY <3>1, <1>8
    <3>3. Cardinality(U \union {b}) <= Cardinality(InClass(i))
      <4>1. (U \union {b}) \in SUBSET InClass(i)
        BY <3>1
      <4> HIDE DEF U
      <4> QED BY <4>1, <1>12, FS_Subset
    <3>4. peak'[i] = peak[i]
      BY <1>1, <1>12, <1>14, <2>1, <3>3 DEF PoolTypes
    <3> QED BY <2>1, <2>4, <3>2, <3>4
  <2> QED BY <2>2, <2>3, <2>4
<1>17. AssertionsHold'
  BY DEF AssertionsHold, Obtained
<1> QED BY <1>5, <1>7, <1>10, <1>11, <1>15, <1>16, <1>17

-----------------------------------------------------------------------------
(* mem_free. *)

\* The part of mem_free that runs outside the lock: both its assertions hold,
\* and the block is in the hands of this call alone.
LEMMA UnreferenceInv ==
  ASSUME PoolInv, NEW t \in Threads, NEW b \in held[t],
         op[t].at = "idle" \/ (op[t].at = "realloc" /\ op[t].block = b),
         Unreference(t, b)
  PROVE  PoolInv'
<1> USE DEF PoolInv
<1>1. /\ op' = [op EXCEPT ![t] = [at |-> "put", block |-> b]]
      /\ heap' = [heap EXCEPT ![b].refcount = @ - 1]
      /\ held' = [held EXCEPT ![t] = @ \ {b}]
      /\ failed' = \/ failed
                   \/ ~IsClassOf(heap[b].canary, heap[b].obj_size)
                   \/ heap[b].refcount - 1 # 0
      /\ UNCHANGED <<free, used, stat, asked, peak>>
  BY DEF Unreference
<1>2. b \in used /\ b \in Blocks /\ IsHeld(b)
  BY DEF OwnersSound, PoolTypes, IsHeld
<1>3. /\ ~heap[b].raw /\ heap[b].obj_size \in Sizes
      /\ IsClassOf(heap[b].canary, heap[b].obj_size) /\ heap[b].refcount = 1
  BY <1>2 DEF HeadersSound
<1>4. /\ heap'[b] = [heap[b] EXCEPT !.refcount = heap[b].refcount - 1]
      /\ \A c \in Blocks : c # b => heap'[c] = heap[c]
  BY <1>1, <1>2 DEF PoolTypes
<1>5. /\ heap' \in [Blocks -> HeaderType]
      /\ heap'[b].raw = heap[b].raw /\ heap'[b].canary = heap[b].canary
      /\ heap'[b].obj_size = heap[b].obj_size /\ heap'[b].refcount = 0
  <2>1. heap[b] \in HeaderType
    BY <1>2 DEF PoolTypes
  <2>2. /\ heap'[b] \in HeaderType
        /\ heap'[b].raw = heap[b].raw /\ heap'[b].canary = heap[b].canary
        /\ heap'[b].obj_size = heap[b].obj_size /\ heap'[b].refcount = 0
    BY <2>1, <1>3, <1>4 DEF HeaderType
  <2> QED BY <2>2, <1>1 DEF PoolTypes
<1>6. /\ \A u \in Threads : held'[u] = IF u = t THEN held[t] \ {b} ELSE held[u]
      /\ held' \in [Threads -> SUBSET Blocks]
  BY <1>1 DEF PoolTypes
<1>7. /\ \A u \in Threads : u # t => op'[u] = op[u]
      /\ op'[t].at = "put" /\ op'[t].block = b
      /\ op' \in [Threads -> [at : {"idle", "put", "realloc"}, block : Blocks \union {NULL}]]
  <2> DEFINE new == [at |-> "put", block |-> b]
  <2>1. new \in [at : {"idle", "put", "realloc"}, block : Blocks \union {NULL}]
    BY <1>2
  <2>2. new.at = "put" /\ new.block = b /\ op' = [op EXCEPT ![t] = new]
    BY <1>1
  <2> HIDE DEF new
  <2> QED BY <2>1, <2>2 DEF PoolTypes
<1>8. failed' = FALSE
  <2>1. heap[b].refcount - 1 = 0
    BY <1>3
  <2>2. failed' = (failed \/ ~IsClassOf(heap[b].canary, heap[b].obj_size)
                   \/ heap[b].refcount - 1 # 0)
    BY <1>1
  <2> QED BY <2>1, <2>2, <1>3 DEF AssertionsHold
<1>9. PoolTypes'
  BY <1>1, <1>5, <1>6, <1>7, <1>8 DEF PoolTypes
<1>10. ~(IsHeld(b)') /\ \A c \in Blocks : c # b => (IsHeld(c)' <=> IsHeld(c))
  <2>1. \A u \in Threads : b \notin held'[u]
    BY <1>6 DEF OwnersSound
  <2> QED BY <2>1, <1>6 DEF IsHeld
<1>11. HeadersSound'
  BY <1>1, <1>2, <1>3, <1>4, <1>5, <1>10 DEF HeadersSound
<1>12. \A k : InClass(k)' = InClass(k)
  BY <1>4, <1>5 DEF InClass
<1>13. OwnersSound'
  <2>1. ASSUME NEW c \in used PROVE IsHeld(c)' \/ \E u \in Threads : IsPutBy(u, c)'
    <3>1. CASE c = b
      BY <3>1, <1>7 DEF IsPutBy
    <3>2. CASE c # b
      <4>1. c \in Blocks
        BY DEF PoolTypes
      <4>2. CASE IsHeld(c)
        BY <3>2, <4>1, <4>2, <1>10
      <4>3. ASSUME NEW u \in Threads, IsPutBy(u, c) PROVE IsPutBy(u, c)'
        BY <4>3, <3>2, <1>7 DEF IsPutBy
      <4> QED BY <4>2, <4>3 DEF OwnersSound
    <3> QED BY <3>1, <3>2
  <2>2. \A u, v \in Threads : \A c \in held'[u] : c \in held'[v] => u = v
    BY <1>6 DEF OwnersSound
  <2>3. \A u \in Threads : \A c \in held'[u] : c \in used
    BY <1>6 DEF OwnersSound
  <2>4. ASSUME NEW u \in Threads, op'[u].at = "realloc" PROVE op'[u].block \in held'[u]
    <3>1. u # t /\ op'[u] = op[u]
      BY <2>4, <1>7
    <3> QED BY <2>4, <3>1, <1>6 DEF OwnersSound
  <2>5. ASSUME NEW u \in Threads, op'[u].at = "put", u # t
        PROVE  op'[u] = op[u] /\ op[u].block \in used /\ op[u].block # b /\ ~(IsHeld(op[u].block)')
    <3>1. op'[u] = op[u]
      BY <2>5, <1>7
    <3>2. op[u].block \in used /\ ~IsHeld(op[u].block) /\ op[u].block \in Blocks
      BY <2>5, <3>1 DEF OwnersSound, PoolTypes
    <3>3. op[u].block # b
      BY <3>2, <1>2
    <3>4. \A v \in Threads : op[u].block \notin held'[v]
      BY <3>2, <1>6 DEF IsHeld
    <3>5. ~(IsHeld(op[u].block)')
      BY <3>1, <3>4 DEF IsHeld
    <3> QED BY <3>1, <3>2, <3>3, <3>5
  <2>6. \A u, v \in Threads : op'[u].at = "put" /\ op'[v].at = "put" /\ op'[u].block = op'[v].block
          => u = v
    BY <2>5, <1>7 DEF OwnersSound
  <2>7. \A c \in used : asked[c] <= BlockSize(heap'[c].canary)
    BY <1>4, <1>5 DEF OwnersSound, PoolTypes
  <2>8. \A u \in Threads : op'[u].at = "put" =>
          op'[u].block \in used /\ \A v \in Threads : op'[u].block \notin held'[v]
    BY <2>5, <1>2, <1>7, <1>10 DEF IsHeld
  <2> QED BY <2>1, <2>2, <2>3, <2>4, <2>6, <2>7, <2>8, <1>1 DEF OwnersSound, IsHeld, IsPutBy
<1>14. ListsSound' /\ StatsExact' /\ FootprintIsPeak' /\ AssertionsHold'
  BY <1>1, <1>8, <1>12 DEF ListsSound, StatsExact, FootprintIsPeak, AssertionsHold
<1> QED BY <1>9, <1>11, <1>13, <1>14

\* The part under the lock: the block is listed in the class it came from.
LEMMA PutInv ==
  ASSUME PoolInv, NEW t \in Threads, Put(t)
  PROVE  PoolInv'
<1> USE DEF PoolInv
<1> DEFINE b == op[t].block
<1>1. op[t].at = "put" /\ b \in used /\ b \in Blocks /\ ~IsHeld(b)
  BY DEF Put, OwnersSound, PoolTypes
<1>2. PICK i \in Classes :
        /\ IsClassOf(i, heap[b].obj_size)
        /\ free' = [free EXCEPT ![i] = Append(@, b)]
        /\ stat' = [stat EXCEPT ![i] = [used |-> @.used - 1, free |-> @.free + 1]]
  BY DEF Put
<1>3. /\ used' = used \ {b} /\ op' = [op EXCEPT ![t] = Idle]
      /\ UNCHANGED <<heap, held, asked, failed, peak>>
  BY DEF Put
<1>4. ~heap[b].raw /\ heap[b].canary = i
  <2>1. /\ ~heap[b].raw /\ heap[b].obj_size \in Sizes
        /\ IsClassOf(heap[b].canary, heap[b].obj_size)
    BY <1>1 DEF HeadersSound
  <2>2. heap[b].canary \in Classes
    BY <1>1 DEF PoolTypes, HeaderType
  <2> QED BY <1>2, <2>1, <2>2, ClassUnique
<1>5. \A k \in Classes : b \notin Range(free[k])
  BY <1>1 DEF ListsSound
<1>6. /\ Append(free[i], b) \in Seq(Blocks) /\ Len(Append(free[i], b)) = Len(free[i]) + 1
      /\ Range(Append(free[i], b)) = Range(free[i]) \union {b}
      /\ IsInjective(Append(free[i], b))
  <2> HIDE DEF b
  <2> QED BY <1>1, <1>5, AppendToList DEF ListsSound, PoolTypes
<1>7. free' \in [Classes -> Seq(Blocks)]
      /\ \A k \in Classes : free'[k] = IF k = i THEN Append(free[i], b) ELSE free[k]
  <2> DEFINE longer == Append(free[i], b)
  <2>1. free' = [free EXCEPT ![i] = longer] /\ longer \in Seq(Blocks)
    BY <1>2, <1>6
  <2> HIDE DEF longer
  <2>2. free' \in [Classes -> Seq(Blocks)]
        /\ \A k \in Classes : free'[k] = IF k = i THEN longer ELSE free[k]
    BY <2>1 DEF PoolTypes
  <2> QED BY <2>2 DEF longer
<1>8. /\ stat' \in [Classes -> [used : Int, free : Int]]
      /\ \A k \in Classes : /\ stat'[k].free = IF k = i THEN stat[k].free + 1 ELSE stat[k].free
                            /\ stat'[k].used = IF k = i THEN stat[k].used - 1 ELSE stat[k].used
  BY <1>2 DEF PoolTypes
<1>9. /\ op' \in [Threads -> [at : {"idle", "put", "realloc"}, block : Blocks \union {NULL}]]
      /\ op'[t].at = "idle"
      /\ \A u \in Threads : u # t => op'[u] = op[u]
  <2>1. Idle \in [at : {"idle", "put", "realloc"}, block : Blocks \union {NULL}] /\ Idle.at = "idle"
    BY DEF Idle
  <2> QED BY <1>3, <2>1 DEF PoolTypes
<1>10. PoolTypes'
  BY <1>3, <1>7, <1>8, <1>9 DEF PoolTypes
<1>11. HeadersSound'
  BY <1>3 DEF HeadersSound, IsHeld
<1>12. \A k : InClass(k)' = InClass(k)
  BY <1>3 DEF InClass
<1>13. ListsSound'
  <2> SUFFICES ASSUME NEW k \in Classes
               PROVE  Range(free'[k]) = InClass(k) \ (used \ {b}) /\ IsInjective(free'[k])
    BY <1>3, <1>12 DEF ListsSound
  <2>1. CASE k = i
    <3>1. b \in InClass(i)
      BY <1>1, <1>4 DEF InClass
    <3> QED BY <2>1, <3>1, <1>6, <1>7 DEF ListsSound
  <2>2. CASE k # i
    <3>1. b \notin InClass(k)
      BY <2>2, <1>4 DEF InClass
    <3> QED BY <2>2, <3>1, <1>7 DEF ListsSound
  <2> QED BY <2>1, <2>2
<1>14. OwnersSound'
  <2>1. \A u \in Threads : \A c \in held[u] : c # b
    BY <1>1 DEF IsHeld
  <2>2. \A u \in Threads : u # t /\ op[u].at = "put" => op[u].block # b
    BY <1>1 DEF OwnersSound
  <2>3. ASSUME NEW c \in used \ {b}
        PROVE  IsHeld(c) \/ \E u \in Threads : op'[u].at = "put" /\ op'[u].block = c
    <3>1. ASSUME NEW u \in Threads, IsPutBy(u, c) PROVE op'[u].at = "put" /\ op'[u].block = c
      BY <3>1, <1>9 DEF IsPutBy
    <3> QED BY <3>1 DEF OwnersSound
  <2>4. \A u \in Threads : op'[u].at \in {"put", "realloc"} => u # t /\ op'[u] = op[u]
    BY <1>9
  <2>5. \A c \in used \ {b} : asked[c] <= BlockSize(heap[c].canary)
    BY DEF OwnersSound
  <2>6. \A u \in Threads : op'[u].at = "put" => op'[u].block \in used \ {b}
    BY <2>2, <2>4 DEF OwnersSound
  <2>7. \A u \in Threads : op'[u].at = "put" => \A v \in Threads : op'[u].block \notin held[v]
    BY <2>4 DEF OwnersSound, IsHeld
  <2> HIDE DEF b
  <2> QED BY <2>1, <2>3, <2>4, <2>5, <2>6, <2>7, <1>3 DEF OwnersSound, IsHeld, IsPutBy
<1>15. StatsExact'
  <2> SUFFICES ASSUME NEW k \in Classes
               PROVE  /\ stat'[k].used = Cardinality((used \ {b}) \intersect InClass(k))
                      /\ stat'[k].free = Len(free'[k])
    BY <1>3, <1>12 DEF StatsExact
  <2>1. stat'[k].free = Len(free'[k])
    BY <1>6, <1>7, <1>8 DEF StatsExact
  <2> DEFINE U == used \intersect InClass(k)
  <2>2. stat[k].used = Cardinality(U) /\ IsFiniteSet(U)
    BY ClassFinite DEF StatsExact
  <2>3. (used \ {b}) \intersect InClass(k) = U \ {b} /\ (b \in U <=> k = i)
    BY <1>1, <1>4 DEF InClass
  <2>4. Cardinality(U \ {b}) = IF b \in U THEN Cardinality(U) - 1 ELSE Cardinality(U)
    <3> HIDE DEF U, b
    <3> QED BY <2>2, FS_RemoveElement
  <2> HIDE DEF U, b
  <2> QED BY <2>1, <2>2, <2>3, <2>4, <1>8
<1>16. FootprintIsPeak' /\ AssertionsHold'
  BY <1>3, <1>12 DEF FootprintIsPeak, AssertionsHold
<1> QED BY <1>10, <1>11, <1>13, <1>14, <1>15, <1>16

-----------------------------------------------------------------------------
(* The theorems about the pool. *)

\* mem_alloc obtains a block, wherever it finds it.
LEMMA TakesObtains ==
  ASSUME PoolInv, NEW t \in Threads, NEW b \in Blocks, NEW size \in Sizes, Takes(t, b, size)
  PROVE  \E i \in Classes : Obtained(t, b, size, i)
BY MallocObtains, ReuseObtains DEF Takes

LEMMA PoolStart == Init => PoolInv
<1> SUFFICES ASSUME Init PROVE PoolInv
  OBVIOUS
<1> USE DEF Init
<1>1. PoolTypes
  <2>1. Raw \in HeaderType
    BY PoolAssumption DEF Raw, HeaderType
  <2>2. [used |-> 0, free |-> 0] \in [used : Int, free : Int]
    OBVIOUS
  <2>3. Idle \in [at : {"idle", "put", "realloc"}, block : Blocks \union {NULL}]
    BY DEF Idle
  <2>4. /\ heap \in [Blocks -> HeaderType]
        /\ op \in [Threads -> [at : {"idle", "put", "realloc"}, block : Blocks \union {NULL}]]
    BY <2>1, <2>3
  <2>5. stat \in [Classes -> [used : Int, free : Int]] /\ free \in [Classes -> Seq(Blocks)]
    BY <2>2, EmptySeq
  <2> QED BY <2>4, <2>5 DEF PoolTypes
<1>2. \A b \in Blocks : heap[b].raw
  BY DEF Raw
<1>3. \A t \in Threads : op[t].at = "idle"
  BY DEF Idle
<1>4. \A i \in Classes : InClass(i) = {} /\ Range(free[i]) = {} /\ IsInjective(free[i])
  BY <1>2 DEF InClass, Range, IsInjective
<1>5. Cardinality({}) = 0
  BY FS_EmptySet
<1>6. StatsExact /\ FootprintIsPeak
  BY <1>4, <1>5 DEF StatsExact, FootprintIsPeak
<1>7. HeadersSound /\ ListsSound /\ OwnersSound /\ AssertionsHold
  BY <1>2, <1>3, <1>4 DEF HeadersSound, ListsSound, OwnersSound, AssertionsHold, IsHeld
<1> QED BY <1>1, <1>6, <1>7 DEF PoolInv

LEMMA PoolKept ==
  ASSUME PoolInv, Next
  PROVE  PoolInv'
<1>1. ASSUME NEW t \in Threads, NEW b \in Blocks, NEW size \in Sizes, Alloc(t, b, size)
      PROVE  PoolInv'
  <2>1. Takes(t, b, size) /\ op' = op
    BY <1>1 DEF Alloc
  <2> QED BY <2>1, TakesObtains, ObtainedInv
<1>2. ASSUME NEW t \in Threads, NEW b \in Blocks, NEW n \in Blocks, NEW size \in Sizes,
             Realloc(t, b, n, size)
      PROVE  PoolInv'
  <2>1. /\ Takes(t, n, size) /\ b \in held[t] /\ op[t] = Idle
        /\ op' = [op EXCEPT ![t] = [at |-> "realloc", block |-> b]]
    BY <1>2 DEF Realloc
  <2> QED BY <2>1, TakesObtains, ObtainedInv
<1>3. ASSUME NEW t \in Threads, NEW b \in Blocks, Free(t, b) PROVE PoolInv'
  <2>1. Idle.at = "idle"
    BY DEF Idle
  <2>2. /\ b \in held[t] /\ Unreference(t, b)
        /\ op[t].at = "idle" \/ (op[t].at = "realloc" /\ op[t].block = b)
    BY <1>3, <2>1 DEF Free
  <2> QED BY <2>2, UnreferenceInv
<1>4. ASSUME NEW t \in Threads, FreeOld(t) PROVE PoolInv'
  BY <1>4, UnreferenceInv DEF FreeOld, PoolInv, OwnersSound
<1> QED BY <1>1, <1>2, <1>3, <1>4, PutInv DEF Next

LEMMA PoolStutter == PoolInv /\ UNCHANGED vars => PoolInv'
<1> SUFFICES ASSUME PoolInv, UNCHANGED vars PROVE PoolInv'
  OBVIOUS
<1> USE DEF vars, PoolInv
<1>1. PoolTypes' /\ AssertionsHold'
  BY DEF PoolTypes, AssertionsHold
<1>2. /\ \A i : InClass(i)' = InClass(i)
      /\ \A b : IsHeld(b)' <=> IsHeld(b)
      /\ \A t, b : IsPutBy(t, b)' <=> IsPutBy(t, b)
  BY DEF InClass, IsHeld, IsPutBy
<1>3. HeadersSound' /\ ListsSound'
  BY <1>2 DEF HeadersSound, ListsSound
<1>4. OwnersSound'
  BY DEF OwnersSound, IsHeld, IsPutBy
<1>5. StatsExact' /\ FootprintIsPeak'
  BY <1>2 DEF StatsExact, FootprintIsPeak
<1> QED BY <1>1, <1>3, <1>4, <1>5

\* The invariant of the pool, in every state that threads which use it as
\* mem.h asks them to can bring it to.
THEOREM PoolInvariant == Spec => []PoolInv
BY PoolStart, PoolKept, PoolStutter, PTL DEF Spec

\* No block is lost, and none is on two lists: each one malloc'ed is in use or
\* is free once, in the class it was malloc'ed for.
THEOREM PoolPartition == Spec => []Partition
BY PoolInvariant, PoolInvImplies, PTL

\* No block is in two hands, and every holder has the room he asked for.
THEOREM PoolExclusive == Spec => []Exclusive
BY PoolInvariant, PoolInvImplies, PTL

\* The assertions of mem.c on the canary and on the references never fail,
\* however calls of different threads overlap.
THEOREM PoolAssertions == Spec => []AssertionsHold
BY PoolInvariant, PoolInvImplies, PTL

\* The counters of mem_stat are the lengths of the lists.
THEOREM PoolStats == Spec => []StatsExact
<1>1. PoolInv => StatsExact
  BY DEF PoolInv
<1> QED BY <1>1, PoolInvariant, PTL

\* The pool has malloc'ed no more blocks of a class than were in use at once.
THEOREM PoolFootprint == Spec => []FootprintIsPeak
<1>1. PoolInv => FootprintIsPeak
  BY DEF PoolInv
<1> QED BY <1>1, PoolInvariant, PTL

-----------------------------------------------------------------------------
(* The contents of the blocks. *)

Bytes == {"zero", "own", "stale"}

\* The bytes are bytes, which NoResidue does not say.
DataInv == data \in [Blocks -> Seq(Bytes)] /\ NoResidue

\* A program that writes to its blocks uses the pool as before.
LEMMA DataUsesPool == DSpec => Spec
<1>1. DInit => Init
  BY DEF DInit
<1>2. [DNext]_dvars => [Next]_vars
  BY DEF DNext, dvars, Next, DPut, DFreeOld, Writes, DFree, DAlloc, DRealloc
<1> QED BY <1>1, <1>2, PTL DEF DSpec, Spec

\* A block that mem_alloc returns has the size of its class, all of it cleared:
\* the class of the size asked for is the class of the block.
LEMMA ObtainedCleared ==
  ASSUME PoolInv, DataInv, NEW t \in Threads, NEW b \in Blocks, NEW size \in Sizes,
         NEW i \in Classes, NEW k \in Classes,
         Obtained(t, b, size, i), IsClassOf(k, size)
  PROVE  /\ Cleared(b, k) \in Seq(Bytes)
         /\ Len(Cleared(b, k)) = BlockSize(heap'[b].canary)
         /\ Cleared(b, k) = Fill(Len(Cleared(b, k)), "zero")
         /\ size \in Nat /\ size <= Len(Cleared(b, k))
<1>1. k = i /\ heap'[b].canary = i /\ size \in Nat /\ size <= BlockSize(i)
  BY ClassUnique, PoolAssumption DEF Obtained, IsClassOf
<1>2. BlockSize(i) \in Nat
  <2>1. i \in Nat /\ MinBlock \in Int
    BY PoolAssumption
  <2>2. BlockSize(i) \in Int
    BY <2>1 DEF BlockSize
  <2> QED BY <2>2, <1>1
<1> DEFINE n == BlockSize(i)
           found == IF heap[b].raw THEN Fill(n, "stale") ELSE data[b]
           zeros == [j \in 1 .. n |-> "zero"]
<1>3. Len(found) = n
  <2>1. CASE heap[b].raw
    BY <1>2, <2>1 DEF Fill
  <2>2. CASE ~heap[b].raw
    BY <2>2 DEF Obtained, DataInv, NoResidue
  <2> QED BY <2>1, <2>2
<1>4. MemCpy(found, Fill(n, "zero"), n) = zeros
  <2> HIDE DEF found, n
  <2>1. ~(n > Len(found)) /\ n \in Nat
    BY <1>2, <1>3 DEF n
  <2>2. MemCpy(found, Fill(n, "zero"), n)
          = [j \in 1 .. n |-> IF j <= n THEN Fill(n, "zero")[j] ELSE found[j]]
    BY <1>3, <2>1 DEF MemCpy
  <2> QED BY <2>1, <2>2 DEF Fill
<1>5. Cleared(b, k) = zeros
  BY <1>1, <1>4 DEF Cleared, ClearedTo
<1>6. zeros \in Seq(Bytes) /\ Len(zeros) = n
  BY <1>2 DEF Bytes
<1> QED BY <1>1, <1>5, <1>6 DEF Fill

\* Whoever holds a block may use as much of it as he asked for.
LEMMA HolderHasRoom ==
  ASSUME PoolInv, DataInv, NEW t \in Threads, NEW b \in held[t]
  PROVE  /\ b \in Blocks /\ b \in used /\ ~heap[b].raw
         /\ asked[b] \in Nat /\ asked[b] <= Len(data[b])
         /\ data[b] \in Seq(Bytes) /\ Len(data[b]) = BlockSize(heap[b].canary)
         /\ \A k \in DOMAIN data[b] : data[b][k] # "stale"
<1>1. b \in used /\ b \in Blocks /\ ~heap[b].raw
  BY DEF PoolInv, OwnersSound, PoolTypes, HeadersSound
<1>2. Len(data[b]) = BlockSize(heap[b].canary) /\ \A k \in DOMAIN data[b] : data[b][k] # "stale"
  BY <1>1 DEF DataInv, NoResidue
<1>3. asked[b] \in Nat /\ asked[b] <= BlockSize(heap[b].canary)
  <2>1. asked[b] \in Sizes \union {0}
    BY <1>1 DEF PoolInv, PoolTypes
  <2>2. asked[b] <= BlockSize(heap[b].canary)
    BY <1>1 DEF PoolInv, OwnersSound
  <2> QED BY <2>1, <2>2, PoolAssumption
<1> QED BY <1>1, <1>2, <1>3 DEF DataInv

\* Copying no more than both sides hold.
LEMMA MemCpyFits ==
  ASSUME NEW to \in Seq(Bytes), NEW from \in Seq(Bytes), NEW n \in Nat,
         n <= Len(to), n <= Len(from)
  PROVE  /\ MemCpy(to, from, n) \in Seq(Bytes)
         /\ Len(MemCpy(to, from, n)) = Len(to)
         /\ DOMAIN MemCpy(to, from, n) = 1 .. Len(to)
         /\ \A k \in 1 .. n : MemCpy(to, from, n)[k] = from[k]
         /\ \A k \in 1 .. Len(to) : k > n => MemCpy(to, from, n)[k] = to[k]
<1>1. Len(to) \in Nat /\ Len(from) \in Nat
      /\ DOMAIN to = 1 .. Len(to) /\ DOMAIN from = 1 .. Len(from)
  BY LenProperties
<1>2. MemCpy(to, from, n) = [k \in 1 .. Len(to) |-> IF k <= n THEN from[k] ELSE to[k]]
  <2>1. ~(n > Len(to))
    BY <1>1
  <2> QED BY <2>1 DEF MemCpy
<1>3. ASSUME NEW k \in 1 .. Len(to) PROVE (IF k <= n THEN from[k] ELSE to[k]) \in Bytes
  <2>1. CASE k <= n
    <3>1. k \in 1 .. Len(from)
      BY <1>1, <2>1
    <3> QED BY <2>1, <3>1, ElementOfSeq
  <2>2. CASE ~(k <= n)
    BY <2>2, ElementOfSeq
  <2> QED BY <2>1, <2>2
<1>4. MemCpy(to, from, n) \in Seq(Bytes) /\ Len(MemCpy(to, from, n)) = Len(to)
  BY <1>1, <1>2, <1>3
<1> QED BY <1>1, <1>2, <1>4

\* A step that gives block b the bytes d, of the size of its class, and leaves
\* the other blocks to those who held them.
LEMMA OneBlockWritten ==
  ASSUME PoolInv, DataInv, NEW b \in Blocks, NEW d,
         data' = [data EXCEPT ![b] = d],
         d \in Seq(Bytes),
         Len(d) = IF heap'[b].raw THEN 0 ELSE BlockSize(heap'[b].canary),
         \A c \in Blocks : c # b =>
           heap'[c].raw = heap[c].raw /\ heap'[c].canary = heap[c].canary,
         held' \in [Threads -> SUBSET Blocks],
         \A t \in Threads : \A c \in held'[t] : c # b => c \in held[t],
         (\E t \in Threads : b \in held'[t]) => \A k \in DOMAIN d : d[k] # "stale"
  PROVE  DataInv'
<1>1. data' \in [Blocks -> Seq(Bytes)]
      /\ data'[b] = d /\ \A c \in Blocks : c # b => data'[c] = data[c]
  BY DEF DataInv
<1>2. ASSUME NEW c \in Blocks
      PROVE  Len(data'[c]) = IF heap'[c].raw THEN 0 ELSE BlockSize(heap'[c].canary)
  BY <1>1 DEF DataInv, NoResidue
<1>3. ASSUME NEW t \in Threads, NEW c \in held'[t], NEW k \in DOMAIN data'[c]
      PROVE  data'[c][k] # "stale"
  <2>1. CASE c = b
    BY <2>1, <1>1
  <2>2. CASE c # b
    <3>1. c \in held[t] /\ c \in Blocks /\ data'[c] = data[c]
      BY <2>2, <1>1
    <3> QED BY <3>1 DEF DataInv, NoResidue
  <2> QED BY <2>1, <2>2
<1> QED BY <1>1, <1>2, <1>3 DEF DataInv, NoResidue

\* What an allocation leaves alone.
LEMMA ObtainedFrame ==
  ASSUME PoolInv, NEW t \in Threads, NEW b \in Blocks, NEW size \in Sizes, NEW i \in Classes,
         Obtained(t, b, size, i)
  PROVE  /\ ~heap'[b].raw
         /\ \A c \in Blocks : c # b => heap'[c] = heap[c]
         /\ held' \in [Threads -> SUBSET Blocks]
         /\ held'[t] = held[t] \union {b} /\ b \notin held[t]
         /\ \A u \in Threads : \A c \in held'[u] : c # b => c \in held[u]
         /\ asked'[b] = size
BY DEF Obtained, Given, PoolInv, PoolTypes, OwnersSound

\* What mem_free does to the headers before it takes the lock.
LEMMA UnreferenceFrame ==
  ASSUME PoolInv, NEW t \in Threads, NEW b \in held[t], Unreference(t, b)
  PROVE  /\ b \in Blocks
         /\ \A c \in Blocks : heap'[c].raw = heap[c].raw /\ heap'[c].canary = heap[c].canary
         /\ held' \in [Threads -> SUBSET Blocks]
         /\ \A u \in Threads : \A c \in held'[u] : c \in held[u] /\ c # b
<1>1. b \in Blocks /\ heap[b] \in HeaderType
  BY DEF PoolInv, PoolTypes
<1>2. /\ heap'[b] = [heap[b] EXCEPT !.refcount = heap[b].refcount - 1]
      /\ \A c \in Blocks : c # b => heap'[c] = heap[c]
  BY <1>1 DEF Unreference, PoolInv, PoolTypes
<1>3. heap'[b].raw = heap[b].raw /\ heap'[b].canary = heap[b].canary
  BY <1>1, <1>2 DEF HeaderType
<1>4. held' = [held EXCEPT ![t] = @ \ {b}]
  BY DEF Unreference
<1>5. /\ held' \in [Threads -> SUBSET Blocks]
      /\ \A u \in Threads : \A c \in held'[u] : c \in held[u] /\ c # b
  BY <1>4 DEF PoolInv, PoolTypes, OwnersSound
<1> QED BY <1>1, <1>2, <1>3, <1>5

\* A block that is given up keeps its size.
LEMMA AbandonedSize ==
  ASSUME DataInv, NEW b \in Blocks
  PROVE  Abandoned(b) \in Seq(Bytes) /\ Len(Abandoned(b)) = Len(data[b])
<1>1. Len(data[b]) \in Nat /\ DOMAIN data[b] = 1 .. Len(data[b])
  BY LenProperties DEF DataInv
<1>2. Abandoned(b) = [k \in 1 .. Len(data[b]) |-> "stale"]
  BY <1>1 DEF Abandoned
<1> QED BY <1>1, <1>2 DEF Bytes

LEMMA DataKept ==
  ASSUME PoolInv, DataInv, DNext
  PROVE  DataInv'
<1>1. ASSUME NEW t \in Threads, NEW b \in Blocks, NEW size \in Sizes, DAlloc(t, b, size)
      PROVE  DataInv'
  <2>1. PICK i \in Classes : Obtained(t, b, size, i)
    BY <1>1, TakesObtains DEF DAlloc, Alloc
  <2>2. PICK m \in Classes : IsClassOf(m, size) /\ data' = [data EXCEPT ![b] = Cleared(b, m)]
    BY <1>1 DEF DAlloc
  <2>3. /\ Cleared(b, m) \in Seq(Bytes)
        /\ Len(Cleared(b, m)) = IF heap'[b].raw THEN 0 ELSE BlockSize(heap'[b].canary)
        /\ \A j \in DOMAIN Cleared(b, m) : Cleared(b, m)[j] # "stale"
    BY <2>1, <2>2, ObtainedCleared, ObtainedFrame DEF Fill
  <2>4. /\ ~heap'[b].raw
        /\ \A c \in Blocks : c # b => heap'[c] = heap[c]
        /\ held' \in [Threads -> SUBSET Blocks]
        /\ \A u \in Threads : \A c \in held'[u] : c # b => c \in held[u]
    BY <2>1, ObtainedFrame
  <2> QED BY <2>2, <2>3, <2>4, OneBlockWritten
<1>2. ASSUME NEW t \in Threads, NEW b \in Blocks, NEW n \in Blocks, NEW size \in Sizes,
             DRealloc(t, b, n, size)
      PROVE  DataInv'
  <2>1. PICK i \in Classes : Obtained(t, n, size, i)
    BY <1>2, TakesObtains DEF DRealloc, Realloc
  <2>7. PICK m \in Classes :
          /\ IsClassOf(m, size)
          /\ data' = [data EXCEPT ![n] =
               IF Copies(asked[b], heap[b].obj_size, size)
               THEN MemCpy(Cleared(n, m), data[b], asked[b]) ELSE Cleared(n, m)]
    BY <1>2 DEF DRealloc
  <2>2. b \in held[t]
    BY <1>2 DEF DRealloc, Realloc
  <2>3. /\ Cleared(n, m) \in Seq(Bytes)
        /\ Len(Cleared(n, m)) = BlockSize(heap'[n].canary)
        /\ \A j \in DOMAIN Cleared(n, m) : Cleared(n, m)[j] # "stale"
        /\ size <= Len(Cleared(n, m))
        /\ size \in Nat
    BY <2>1, <2>7, ObtainedCleared DEF Fill
  <2> DEFINE d == IF Copies(asked[b], heap[b].obj_size, size)
                  THEN MemCpy(Cleared(n, m), data[b], asked[b]) ELSE Cleared(n, m)
  <2>4. data' = [data EXCEPT ![n] = d]
    BY <2>7
  <2>5. /\ d \in Seq(Bytes) /\ Len(d) = Len(Cleared(n, m))
        /\ \A k \in DOMAIN d : d[k] # "stale"
    <3>1. CASE Copies(asked[b], heap[b].obj_size, size)
      <4>1. /\ asked[b] \in Nat /\ asked[b] <= Len(data[b]) /\ data[b] \in Seq(Bytes)
            /\ \A k \in DOMAIN data[b] : data[b][k] # "stale"
            /\ Len(data[b]) \in Nat /\ DOMAIN data[b] = 1 .. Len(data[b])
        BY <2>2, HolderHasRoom, LenProperties
      <4>2. /\ asked[b] <= Len(Cleared(n, m))
            /\ Len(Cleared(n, m)) \in Nat /\ DOMAIN Cleared(n, m) = 1 .. Len(Cleared(n, m))
        BY <2>3, <3>1, <4>1, LenProperties DEF Copies
      <4>3. d = MemCpy(Cleared(n, m), data[b], asked[b])
        BY <3>1
      <4> DEFINE g == Cleared(n, m)
                 o == data[b]
                 a == asked[b]
      <4>4. /\ d \in Seq(Bytes) /\ Len(d) = Len(g) /\ DOMAIN d = 1 .. Len(g)
            /\ \A k \in 1 .. a : d[k] = o[k]
            /\ \A k \in 1 .. Len(g) : k > a => d[k] = g[k]
        <5> HIDE DEF g, o, a, d
        <5>1. g \in Seq(Bytes) /\ o \in Seq(Bytes) /\ a \in Nat /\ a <= Len(g) /\ a <= Len(o)
              /\ d = MemCpy(g, o, a)
          BY <2>3, <4>1, <4>2, <4>3 DEF g, o, a
        <5> QED BY <5>1, MemCpyFits
      <4>5. ASSUME NEW k \in 1 .. Len(g) PROVE d[k] # "stale"
        <5> HIDE DEF d
        <5>1. CASE k <= a
          BY <5>1, <4>1, <4>2, <4>4
        <5>2. CASE k > a
          BY <5>2, <4>2, <4>4, <2>3
        <5> QED BY <5>1, <5>2, <4>1, <4>2
      <4> HIDE DEF d
      <4> QED BY <4>4, <4>5
    <3>2. CASE ~Copies(asked[b], heap[b].obj_size, size)
      BY <3>2, <2>3
    <3> QED BY <3>1, <3>2
  <2>6. /\ ~heap'[n].raw
        /\ \A c \in Blocks : c # n => heap'[c] = heap[c]
        /\ held' \in [Threads -> SUBSET Blocks]
        /\ \A u \in Threads : \A c \in held'[u] : c # n => c \in held[u]
    BY <2>1, ObtainedFrame
  <2> HIDE DEF d
  <2> QED BY <2>3, <2>4, <2>5, <2>6, OneBlockWritten
<1>3. ASSUME NEW t \in Threads, NEW b \in Blocks, Writes(t, b)
      PROVE  DataInv'
  <2>1. /\ b \in held[t] /\ UNCHANGED vars
        /\ data' = [data EXCEPT ![b] = MemCpy(data[b], Fill(asked[b], "own"), asked[b])]
    BY <1>3 DEF Writes
  <2> DEFINE o == data[b]
             a == asked[b]
             own == Fill(a, "own")
             d == MemCpy(o, own, a)
  <2>2. /\ a \in Nat /\ a <= Len(o) /\ o \in Seq(Bytes)
        /\ \A k \in DOMAIN o : o[k] # "stale"
        /\ Len(o) \in Nat /\ DOMAIN o = 1 .. Len(o)
        /\ ~heap[b].raw /\ Len(o) = BlockSize(heap[b].canary)
    BY <2>1, HolderHasRoom, LenProperties
  <2>3. own \in Seq(Bytes) /\ Len(own) = a /\ \A k \in 1 .. a : own[k] = "own"
    BY <2>2 DEF Fill, Bytes
  <2>4. /\ d \in Seq(Bytes) /\ Len(d) = Len(o) /\ DOMAIN d = 1 .. Len(o)
        /\ \A k \in 1 .. a : d[k] = own[k]
        /\ \A k \in 1 .. Len(o) : k > a => d[k] = o[k]
    <3> HIDE DEF o, a, own
    <3> QED BY <2>2, <2>3, MemCpyFits
  <2>5. ASSUME NEW k \in 1 .. Len(o) PROVE d[k] # "stale"
    <3> HIDE DEF d, own
    <3>1. CASE k <= a
      BY <3>1, <2>2, <2>3, <2>4
    <3>2. CASE k > a
      BY <3>2, <2>2, <2>4
    <3> QED BY <3>1, <3>2, <2>2
  <2>6. held' = held /\ heap' = heap /\ held \in [Threads -> SUBSET Blocks]
    BY <2>1 DEF vars, PoolInv, PoolTypes
  <2>7. data' = [data EXCEPT ![b] = d]
    BY <2>1
  <2> HIDE DEF d, o
  <2> QED BY <2>2, <2>4, <2>5, <2>6, <2>7, OneBlockWritten
<1>4. ASSUME NEW t \in Threads, NEW b \in held[t], Unreference(t, b),
             data' = [data EXCEPT ![b] = Abandoned(b)]
      PROVE  DataInv'
  <2>1. /\ b \in Blocks
        /\ \A c \in Blocks : heap'[c].raw = heap[c].raw /\ heap'[c].canary = heap[c].canary
        /\ held' \in [Threads -> SUBSET Blocks]
        /\ \A u \in Threads : \A c \in held'[u] : c \in held[u] /\ c # b
    BY <1>4, UnreferenceFrame
  <2>2. /\ Abandoned(b) \in Seq(Bytes)
        /\ Len(Abandoned(b)) = IF heap'[b].raw THEN 0 ELSE BlockSize(heap'[b].canary)
    BY <2>1, AbandonedSize DEF DataInv, NoResidue
  <2> QED BY <1>4, <2>1, <2>2, OneBlockWritten
<1>5. ASSUME NEW t \in Threads, NEW b \in Blocks, DFree(t, b) PROVE DataInv'
  BY <1>4, <1>5 DEF DFree, Free
<1>6. ASSUME NEW t \in Threads, DFreeOld(t) PROVE DataInv'
  BY <1>4, <1>6 DEF DFreeOld, FreeOld, PoolInv, OwnersSound
<1>7. ASSUME NEW t \in Threads, DPut(t) PROVE DataInv'
  BY <1>7 DEF DPut, Put, DataInv, NoResidue
<1> QED BY <1>1, <1>2, <1>3, <1>5, <1>6, <1>7 DEF DNext


\* The pool's invariant and that of the contents, carried through every step.
LEMMA DataSteps ==
  /\ PoolInv /\ [DNext]_dvars => PoolInv'
  /\ PoolInv /\ DataInv /\ [DNext]_dvars => DataInv'
<1>1. PoolInv /\ UNCHANGED vars => PoolInv'
  BY PoolStutter
<1>2. DNext => [Next]_vars
  BY DEF DNext, dvars, Next, DPut, DFreeOld, Writes, DFree, DAlloc, DRealloc
<1>3. PoolInv /\ DataInv /\ UNCHANGED dvars => DataInv'
  BY DEF dvars, vars, DataInv, NoResidue
<1> QED BY <1>1, <1>2, <1>3, PoolKept, DataKept DEF dvars

LEMMA DataStart == DInit => PoolInv /\ DataInv
<1> SUFFICES ASSUME DInit PROVE PoolInv /\ DataInv
  OBVIOUS
<1>1. PoolInv
  BY PoolStart DEF DInit
<1>2. data \in [Blocks -> Seq(Bytes)] /\ \A b \in Blocks : Len(data[b]) = 0
  BY EmptySeq DEF DInit
<1>3. (\A b \in Blocks : heap[b].raw) /\ \A t \in Threads : held[t] = {}
  BY DEF DInit, Init, Raw
<1> QED BY <1>1, <1>2, <1>3 DEF DataInv, NoResidue

LEMMA DataInvariant == DSpec => [](PoolInv /\ DataInv)
<1>1. (PoolInv /\ DataInv) /\ [DNext]_dvars => (PoolInv /\ DataInv)'
  BY DataSteps
<1> QED BY <1>1, DataStart, PTL DEF DSpec

\* Whoever holds a block finds in it nothing of another holder, and no memset or
\* memcpy of mem.c runs past the end of a block.
THEOREM BlocksHaveNoResidue == DSpec => []NoResidue
<1>1. PoolInv /\ DataInv => NoResidue
  BY DEF DataInv
<1> QED BY <1>1, DataInvariant, PTL

-----------------------------------------------------------------------------
(* Every thread sees memory of its own. *)

\* What a holder sees of his block is as much as he asked for.
LEMMA SeenByHolder ==
  ASSUME PoolInv, DataInv, NEW t \in Threads, NEW b \in held[t]
  PROVE  /\ Seen(b) = [k \in 1 .. asked[b] |-> data[b][k]]
         /\ asked[b] \in Nat /\ Len(Seen(b)) = asked[b]
<1>1. Seen(b) = [k \in 1 .. asked[b] |-> data[b][k]]
  BY DEF Seen
<1>2. asked[b] \in Nat
  BY HolderHasRoom
<1> QED BY <1>1, <1>2

\* What a holder will see, and what a step leaves as it was.
LEMMA SeenAfter ==
  ASSUME NEW b, NEW d, NEW n, \E t \in Threads : b \in held'[t], asked'[b] = n, data'[b] = d
  PROVE  Seen(b)' = [k \in 1 .. n |-> d[k]]
<1>1. Seen(b)' = [k \in 1 .. asked'[b] |-> data'[b][k]]
  BY DEF Seen
<1>2. \A x, y : x = n /\ y = d => [k \in 1 .. x |-> y[k]] = [k \in 1 .. n |-> d[k]]
  OBVIOUS
<1> QED BY <1>1, <1>2

LEMMA SeenKept ==
  ASSUME NEW b, asked'[b] = asked[b], data'[b] = data[b],
         (\E t \in Threads : b \in held'[t]) <=> (\E t \in Threads : b \in held[t])
  PROVE  Seen(b)' = Seen(b)
<1>1. CASE \E t \in Threads : b \in held[t]
  <2>1. Seen(b)' = [k \in 1 .. asked[b] |-> data[b][k]]
    BY <1>1, SeenAfter
  <2> QED BY <1>1, <2>1 DEF Seen
<1>2. CASE ~\E t \in Threads : b \in held[t]
  BY <1>2 DEF Seen
<1> QED BY <1>1, <1>2

\* obj_size is the size of the first use, and stays so.
LEMMA FirstUse ==
  ASSUME PoolInv, NEW t \in Threads, NEW b \in Blocks, NEW size \in Sizes, Takes(t, b, size)
  PROVE  heap'[b].obj_size = IF heap[b].raw THEN size ELSE heap[b].obj_size
<1>1. heap[b] \in HeaderType /\ heap \in [Blocks -> HeaderType]
  BY DEF PoolInv, PoolTypes
<1>2. CASE Malloc(t, b, size)
  BY <1>1, <1>2 DEF Malloc
<1>3. CASE Reuse(t, b, size)
  <2>1. PICK i \in Classes :
          /\ free[i] # <<>>
          /\ b = Head(free[i])
          /\ heap' = [heap EXCEPT ![b].refcount = @ + 1]
    BY <1>3 DEF Reuse
  <2>2. b \in Range(free[i])
    BY <2>1, TailOfList DEF PoolInv, PoolTypes, ListsSound
  <2>3. ~heap[b].raw
    BY <2>2 DEF PoolInv, ListsSound, InClass
  <2>4. heap'[b].obj_size = heap[b].obj_size
    BY <1>1, <2>1 DEF HeaderType
  <2> QED BY <2>3, <2>4
<1> QED BY <1>2, <1>3 DEF Takes

\* An allocation gives out a block that was nobody's.
LEMMA GivesOutBlock ==
  ASSUME PoolInv, DataInv, NEW t \in Threads, NEW b \in Blocks, NEW size \in Sizes,
         NEW i \in Classes, Obtained(t, b, size, i), Takes(t, b, size),
         NEW d, data' = [data EXCEPT ![b] = d],
         NEW contents, contents = [k \in 1 .. size |-> d[k]]
  PROVE  Promise!GivesOut(t, b, contents)
<1>1. \A u \in Threads : b \notin held[u]
  BY DEF Obtained, PoolInv, OwnersSound
<1>2. held' = [held EXCEPT ![t] = @ \union {b}] /\ asked' = [asked EXCEPT ![b] = size]
  BY DEF Obtained, Given
<1>3. /\ held \in [Threads -> SUBSET Blocks] /\ asked \in [Blocks -> Sizes \union {0}]
      /\ data \in [Blocks -> Seq(Bytes)]
  BY DEF PoolInv, PoolTypes, DataInv
<1>4. [c \in Blocks |-> Seen(c)]' = [[c \in Blocks |-> Seen(c)] EXCEPT ![b] = contents]
  <2>1. Seen(b)' = contents
    <3>1. b \in held'[t] /\ asked'[b] = size /\ data'[b] = d
      BY <1>2, <1>3
    <3> QED BY <3>1, SeenAfter
  <2>2. ASSUME NEW c \in Blocks, c # b PROVE Seen(c)' = Seen(c)
    <3>1. (\E u \in Threads : c \in held'[u]) <=> (\E u \in Threads : c \in held[u])
      BY <1>2, <1>3, <2>2
    <3>2. asked'[c] = asked[c] /\ data'[c] = data[c]
      BY <1>2, <1>3, <2>2
    <3> QED BY <3>1, <3>2, SeenKept
  <2> QED BY <2>1, <2>2
<1>5. Len(contents) = size
  BY PoolAssumption
<1>6. /\ ~heap'[b].raw
      /\ heap'[b].obj_size = IF heap[b].raw THEN size ELSE heap[b].obj_size
      /\ \A c \in Blocks : c # b => heap'[c] = heap[c]
  BY FirstUse DEF Obtained
<1> DEFINE known == {c \in Blocks : ~heap[c].raw}
<1>7. {c \in Blocks : ~heap'[c].raw} = known \union {b}
  BY <1>6
<1>8. [c \in {e \in Blocks : ~heap[e].raw} |-> heap[c].obj_size]'
        = [c \in known \union {b} |-> IF c \in known THEN heap[c].obj_size ELSE Len(contents)]
  BY <1>5, <1>6, <1>7
<1> QED BY <1>1, <1>2, <1>4, <1>8 DEF Promise!GivesOut

LEMMA AllocPromised ==
  ASSUME PoolInv, DataInv, NEW t \in Threads, NEW b \in Blocks, NEW size \in Sizes,
         DAlloc(t, b, size)
  PROVE  Promise!Alloc(t, b, size)
<1>1. PICK i \in Classes : Obtained(t, b, size, i)
  BY TakesObtains DEF DAlloc, Alloc
<1>2. PICK m \in Classes : IsClassOf(m, size) /\ data' = [data EXCEPT ![b] = Cleared(b, m)]
  BY DEF DAlloc
<1> DEFINE d == Cleared(b, m)
<1>3. d = Fill(Len(d), "zero") /\ d \in Seq(Bytes) /\ size \in Nat /\ size <= Len(d)
  BY <1>1, <1>2, ObtainedCleared
<1>4. [k \in 1 .. size |-> "zero"] = [k \in 1 .. size |-> d[k]]
  <2> HIDE DEF d
  <2>1. Len(d) \in Nat
    BY <1>3, LenProperties
  <2>2. \A k \in 1 .. size : d[k] = "zero"
    BY <1>3, <2>1 DEF Fill
  <2> QED BY <2>2
<1>5. Takes(t, b, size)
  BY DEF DAlloc, Alloc
<1>6. Promise!GivesOut(t, b, [k \in 1 .. size |-> "zero"])
  BY <1>1, <1>2, <1>4, <1>5, GivesOutBlock
<1> QED BY <1>6 DEF Promise!Alloc

\* The contents go along exactly if they fit and the first use was as large.
LEMMA ReallocPromised ==
  ASSUME PoolInv, DataInv, NEW t \in Threads, NEW b \in Blocks, NEW n \in Blocks,
         NEW size \in Sizes, DRealloc(t, b, n, size)
  PROVE  Promise!Realloc(t, b, n, size)
<1>1. PICK i \in Classes : Obtained(t, n, size, i)
  BY TakesObtains DEF DRealloc, Realloc
<1>2. PICK m \in Classes :
        /\ IsClassOf(m, size)
        /\ data' = [data EXCEPT ![n] =
             IF Copies(asked[b], heap[b].obj_size, size)
             THEN MemCpy(Cleared(n, m), data[b], asked[b]) ELSE Cleared(n, m)]
  BY DEF DRealloc
<1>3. b \in held[t] /\ Takes(t, n, size)
  BY DEF DRealloc, Realloc
<1> DEFINE g == Cleared(n, m)
           o == data[b]
           a == asked[b]
           copies == Copies(a, heap[b].obj_size, size)
           d == IF copies THEN MemCpy(g, o, a) ELSE g
           known == {c \in Blocks : ~heap[c].raw}
<1>4. /\ g = Fill(Len(g), "zero") /\ g \in Seq(Bytes) /\ size \in Nat /\ size <= Len(g)
      /\ Len(g) \in Nat
  BY <1>1, <1>2, ObtainedCleared, LenProperties
<1>5. a \in Nat /\ a <= Len(o) /\ o \in Seq(Bytes) /\ b \in known
  BY <1>3, HolderHasRoom
<1>6. Seen(b) = [k \in 1 .. a |-> o[k]] /\ Len(Seen(b)) = a
  BY <1>3, SeenByHolder
<1>7. [k \in 1 .. size |-> IF copies /\ k <= a THEN Seen(b)[k] ELSE "zero"]
        = [k \in 1 .. size |-> d[k]]
  <2>1. \A k \in 1 .. size : g[k] = "zero"
    <3> HIDE DEF g
    <3> QED BY <1>4 DEF Fill
  <2>2. CASE copies
    <3>1. a <= size /\ a <= Len(g)
      <4> HIDE DEF g
      <4> QED BY <1>4, <1>5, <2>2 DEF Copies
    <3> DEFINE e == MemCpy(g, o, a)
    <3>2. /\ \A k \in 1 .. a : e[k] = o[k]
          /\ \A k \in 1 .. Len(g) : k > a => e[k] = g[k]
      <4> HIDE DEF g, o, a
      <4> QED BY <1>4, <1>5, <3>1, MemCpyFits
    <3>3. ASSUME NEW k \in 1 .. size
          PROVE  d[k] = IF copies /\ k <= a THEN Seen(b)[k] ELSE "zero"
      <4>0. d = e
        BY <2>2
      <4>1. CASE k <= a
        <5>1. k \in 1 .. a
          BY <1>4, <1>5, <4>1
        <5>2. e[k] = o[k] /\ Seen(b)[k] = o[k]
          BY <1>6, <3>2, <5>1
        <5> QED BY <2>2, <4>0, <4>1, <5>2
      <4>2. CASE ~(k <= a)
        <5> HIDE DEF g, e, d, a
        <5>1. k \in 1 .. Len(g) /\ k > a
          BY <1>4, <1>5, <4>2
        <5> QED BY <2>1, <3>2, <4>0, <4>2, <5>1
      <4> QED BY <4>1, <4>2
    <3> HIDE DEF d
    <3> QED BY <3>3
  <2>3. CASE ~copies
    BY <2>1, <2>3
  <2> QED BY <2>2, <2>3
<1>8. data' = [data EXCEPT ![n] = d]
  BY <1>2
<1> DEFINE bytes == [c \in Blocks |-> Seen(c)]
<1>9. bytes[b] = Seen(b) /\ [c \in known |-> heap[c].obj_size][b] = heap[b].obj_size
  BY <1>5
<1>10. copies <=> Promise!Survives(b, size)
  BY <1>6, <1>9 DEF Copies, Promise!Survives
<1>11. Promise!Moved(b, size) = [k \in 1 .. size |-> d[k]]
  <2>1. Promise!Moved(b, size)
          = [k \in 1 .. size |-> IF copies /\ k <= Len(bytes[b]) THEN bytes[b][k] ELSE "zero"]
    <3> HIDE DEF copies
    <3> QED BY <1>10 DEF Promise!Moved
  <2>2. bytes[b] = Seen(b) /\ Len(bytes[b]) = a
    BY <1>6, <1>9
  <2> HIDE DEF copies, bytes, d, a
  <2> QED BY <1>7, <2>1, <2>2
<1>12. Promise!GivesOut(t, n, Promise!Moved(b, size))
  <2> HIDE DEF d
  <2>1. ASSUME NEW contents, contents = [k \in 1 .. size |-> d[k]]
        PROVE  Promise!GivesOut(t, n, contents)
    BY <1>1, <1>3, <1>8, <2>1, GivesOutBlock
  <2> QED BY <1>11, <2>1 DEF Promise!GivesOut
<1> QED BY <1>3, <1>12 DEF Promise!Realloc

LEMMA WritePromised ==
  ASSUME PoolInv, DataInv, NEW t \in Threads, NEW b \in Blocks, Writes(t, b)
  PROVE  Promise!Write(t, b)
<1> DEFINE o == data[b]
           a == asked[b]
           own == Fill(a, "own")
           d == MemCpy(o, own, a)
<1>1. /\ b \in held[t] /\ UNCHANGED vars
      /\ data' = [data EXCEPT ![b] = d]
  BY DEF Writes
<1>2. a \in Nat /\ a <= Len(o) /\ o \in Seq(Bytes)
  BY <1>1, HolderHasRoom
<1>3. \A k \in 1 .. a : d[k] = "own"
  <2>1. own \in Seq(Bytes) /\ Len(own) = a /\ \A k \in 1 .. a : own[k] = "own"
    BY <1>2 DEF Fill, Bytes
  <2>2. \A k \in 1 .. a : d[k] = own[k]
    <3> HIDE DEF o, a, own
    <3>1. own \in Seq(Bytes) /\ a <= Len(own)
      BY <1>2, <2>1
    <3> QED BY <1>2, <3>1, MemCpyFits
  <2> QED BY <2>1, <2>2
<1>4. Seen(b) = [k \in 1 .. a |-> o[k]] /\ Len(Seen(b)) = a
  BY <1>1, SeenByHolder
<1>5. held' = held /\ asked' = asked /\ heap' = heap
  BY <1>1 DEF vars
<1>6. data'[b] = d /\ \A c \in Blocks : c # b => data'[c] = data[c]
  BY <1>1 DEF DataInv
<1>7. Seen(b)' = [k \in 1 .. Len(Seen(b)) |-> "own"]
  <2> HIDE DEF d, o
  <2>1. Seen(b)' = [k \in 1 .. a |-> d[k]]
    BY <1>1, <1>5, <1>6, SeenAfter
  <2> QED BY <1>3, <1>4, <2>1
<1>8. ASSUME NEW c \in Blocks, c # b PROVE Seen(c)' = Seen(c)
  BY <1>5, <1>6, <1>8, SeenKept
<1>9. [c \in Blocks |-> Seen(c)]'
        = [[c \in Blocks |-> Seen(c)] EXCEPT ![b] = [k \in 1 .. Len(@) |-> "own"]]
  BY <1>7, <1>8
<1> QED BY <1>1, <1>5, <1>9 DEF Promise!Write

LEMMA GiveUpPromised ==
  ASSUME PoolInv, DataInv, NEW t \in Threads, NEW b \in held[t], Unreference(t, b),
         data' = [data EXCEPT ![b] = Abandoned(b)]
  PROVE  b \in Blocks /\ Promise!GiveUp(t, b)
<1>1. /\ b \in Blocks
      /\ \A c \in Blocks : heap'[c].raw = heap[c].raw
      /\ \A u \in Threads : \A c \in held'[u] : c \in held[u] /\ c # b
  BY UnreferenceFrame
<1>2. held' = [held EXCEPT ![t] = @ \ {b}] /\ asked' = asked
      /\ heap' = [heap EXCEPT ![b].refcount = @ - 1]
  BY DEF Unreference
<1>3. held \in [Threads -> SUBSET Blocks] /\ heap \in [Blocks -> HeaderType]
  BY DEF PoolInv, PoolTypes
<1>4. \A c \in Blocks : heap'[c].obj_size = heap[c].obj_size
  BY <1>2, <1>3 DEF HeaderType
<1>5. Seen(b)' = <<>>
  BY <1>1 DEF Seen
<1>6. ASSUME NEW c \in Blocks, c # b PROVE Seen(c)' = Seen(c)
  <2>1. (\E u \in Threads : c \in held'[u]) <=> (\E u \in Threads : c \in held[u])
    BY <1>2, <1>3, <1>6
  <2>2. asked'[c] = asked[c] /\ data'[c] = data[c]
    BY <1>2, <1>6 DEF DataInv
  <2> QED BY <2>1, <2>2, SeenKept
<1>7. [c \in Blocks |-> Seen(c)]' = [[c \in Blocks |-> Seen(c)] EXCEPT ![b] = <<>>]
  BY <1>5, <1>6
<1>8. [c \in {e \in Blocks : ~heap[e].raw} |-> heap[c].obj_size]'
        = [c \in {e \in Blocks : ~heap[e].raw} |-> heap[c].obj_size]
  BY <1>1, <1>4
<1> QED BY <1>1, <1>2, <1>7, <1>8 DEF Promise!GiveUp

\* Whatever other threads do, each sees memory of its own, as PrivateMemory
\* promises it.
THEOREM PoolIsPrivateMemory == DSpec => IsPrivateMemory
<1>1. DInit => Promise!Init
  <2> SUFFICES ASSUME DInit PROVE Promise!Init
    OBVIOUS
  <2>1. held = [t \in Threads |-> {}] /\ \A b \in Blocks : heap[b].raw
    BY DEF DInit, Init, Raw
  <2>2. [b \in Blocks |-> Seen(b)] = [b \in Blocks |-> <<>>]
    BY <2>1 DEF Seen
  <2>3. [b \in {c \in Blocks : ~heap[c].raw} |-> heap[b].obj_size] = <<>>
    BY <2>1
  <2> QED BY <2>1, <2>2, <2>3 DEF Promise!Init
<1>2. ASSUME PoolInv, DataInv, [DNext]_dvars PROVE [Promise!Next]_(Promise!vars)
  <2>1. ASSUME UNCHANGED <<heap, held, asked, data>> PROVE UNCHANGED Promise!vars
    <3>1. \A c \in Blocks : Seen(c)' = Seen(c)
      BY <2>1 DEF Seen
    <3> QED BY <2>1, <3>1 DEF Promise!vars
  <2>2. CASE UNCHANGED dvars
    BY <2>1, <2>2 DEF dvars, vars
  <2>3. ASSUME NEW t \in Threads, DPut(t) PROVE UNCHANGED Promise!vars
    BY <2>1, <2>3 DEF DPut, Put
  <2>4. ASSUME NEW t \in Threads, DFreeOld(t) PROVE \E b \in Blocks : Promise!GiveUp(t, b)
    BY <2>4, <1>2, GiveUpPromised DEF DFreeOld, FreeOld, PoolInv, OwnersSound
  <2>5. ASSUME NEW t \in Threads, NEW b \in Blocks, DFree(t, b) PROVE Promise!GiveUp(t, b)
    BY <2>5, <1>2, GiveUpPromised DEF DFree, Free
  <2>6. ASSUME DNext, ~UNCHANGED Promise!vars PROVE Promise!Next
    <3>1. PICK t \in Threads :
            \/ DPut(t) \/ DFreeOld(t)
            \/ \E b \in Blocks :
                 \/ Writes(t, b) \/ DFree(t, b)
                 \/ \E size \in Sizes :
                      DAlloc(t, b, size) \/ (\E n \in Blocks : DRealloc(t, b, n, size))
      BY <2>6 DEF DNext
    <3>2. \E b \in Blocks :
            \/ Promise!Write(t, b) \/ Promise!GiveUp(t, b)
            \/ \E size \in Sizes :
                 \/ Promise!Alloc(t, b, size)
                 \/ \E n \in Blocks : Promise!Realloc(t, b, n, size)
      BY <3>1, <2>3, <2>4, <2>5, <2>6, <1>2, WritePromised, AllocPromised, ReallocPromised
    <3> QED BY <3>2 DEF Promise!Next
  <2> QED BY <1>2, <2>2, <2>6
<1> QED BY <1>1, <1>2, DataInvariant, PTL DEF DSpec, IsPrivateMemory, Promise!Spec

-----------------------------------------------------------------------------
(* statistics_mem_info beside the pool. *)

\* A step takes or puts back at most one block.
LEMMA CountMovesByOne ==
  ASSUME PoolInv, DNext, NEW i \in Classes
  PROVE  /\ stat[i].used \in Int /\ stat'[i].used \in Int
         /\ stat'[i].used - stat[i].used \in {-1, 0, 1}
<1>1. stat \in [Classes -> [used : Int, free : Int]] /\ stat[i].used \in Int
  BY DEF PoolInv, PoolTypes
<1>2. ASSUME NEW t \in Threads, NEW b \in Blocks, NEW size \in Sizes, Takes(t, b, size)
      PROVE  stat'[i].used = stat[i].used \/ stat'[i].used = stat[i].used + 1
  BY <1>2, TakesObtains DEF Obtained
<1>3. ASSUME NEW t \in Threads, Put(t)
      PROVE  stat'[i].used = stat[i].used \/ stat'[i].used = stat[i].used - 1
  BY <1>1, <1>3 DEF Put
<1>4. ASSUME NEW t \in Threads, NEW b, Unreference(t, b) PROVE stat' = stat
  BY <1>4 DEF Unreference
<1>5. ASSUME NEW t \in Threads, NEW b \in Blocks, Writes(t, b) PROVE stat' = stat
  BY <1>5 DEF Writes, vars
<1>6. \/ stat'[i].used = stat[i].used
      \/ stat'[i].used = stat[i].used + 1
      \/ stat'[i].used = stat[i].used - 1
  BY <1>2, <1>3, <1>4, <1>5
     DEF DNext, DPut, DFreeOld, FreeOld, DFree, Free, DAlloc, Alloc, DRealloc, Realloc
<1> QED BY <1>1, <1>6

\* Between its two reads the counter of blocks in use is off by no more than
\* what has moved since; after them the sum is off by no more than that from
\* the number of blocks there are, which does not change with a block in use.
ReportInv ==
  /\ report \in ReportType
  /\ report.at = "half" =>
       /\ report.n - report.moved <= stat[report.class].used
       /\ stat[report.class].used <= report.n + report.moved
       /\ report.n \in 0 .. Cardinality(Blocks)
  /\ ReportWithin

LEMMA ReportUsesPool == RSpec => DSpec
<1>1. RInit => DInit
  BY DEF RInit
<1>2. [RNext]_rvars => [DNext]_dvars
  BY DEF RNext, rvars, ReadsUsed, ReadsFree, Printed, PoolStep
<1> QED BY <1>1, <1>2, PTL DEF RSpec, DSpec

\* What the counters of a class are within.
LEMMA CountWithin ==
  ASSUME PoolInv, NEW i \in Classes
  PROVE  /\ stat[i].used \in 0 .. Cardinality(Blocks) /\ stat[i].free \in Int
         /\ Cardinality(InClass(i)) = stat[i].used + stat[i].free
         /\ Cardinality(Blocks) \in Nat
<1>1. TypeOK
  BY PoolInvImplies DEF Partition
<1>2. Cardinality(Blocks) \in Nat
  BY ClassFinite
<1> QED BY <1>1, <1>2, ClassCount DEF TypeOK

LEMMA ReportKept ==
  ASSUME PoolInv, TypeOK', ReportInv, RNext
  PROVE  ReportInv'
<1> DEFINE c == report.class
           all == Cardinality(Blocks)
<1>1. /\ report \in ReportType /\ c \in Classes
      /\ report.n \in Int /\ report.moved \in 0 .. all
  BY DEF ReportInv, ReportType
<1>2. all \in Nat
  BY <1>1, CountWithin
<1>3. ASSUME NEW i \in Classes, ReadsUsed(i) PROVE ReportInv'
  <2>1. /\ report' = [at |-> "half", class |-> i, n |-> stat[i].used, moved |-> 0]
        /\ stat' = stat
    BY <1>3 DEF ReadsUsed, dvars, vars
  <2>2. stat[i].used \in 0 .. all /\ stat[i].used \in Int /\ 0 \in 0 .. all
    BY <1>2, CountWithin
  <2>3. report' \in ReportType
    BY <2>1, <2>2 DEF ReportType
  <2> QED BY <2>1, <2>2, <2>3 DEF ReportInv, ReportWithin
<1>4. CASE ReadsFree
  <2> DEFINE f == stat[c].free
  <2>1. /\ report.at = "half" /\ UNCHANGED dvars
        /\ report' = [report EXCEPT !.at = "done", !.n = report.n + f]
    BY <1>4 DEF ReadsFree
  <2>2. /\ Cardinality(InClass(c)) = stat[c].used + f /\ f \in Int /\ stat[c].used \in Int
    BY <1>1, <1>2, CountWithin
  <2>3. report' \in ReportType /\ report'.at = "done" /\ report'.class = c
        /\ report'.n = report.n + f /\ report'.moved = report.moved
    <3>1. report' = [at |-> "done", class |-> c, n |-> report.n + f, moved |-> report.moved]
      BY <1>1, <2>1 DEF ReportType
    <3>2. report.n + f \in Int
      BY <1>1, <2>2
    <3> QED BY <1>1, <3>1, <3>2 DEF ReportType
  <2>4. InClass(c)' = InClass(c)
    BY <2>1 DEF InClass, dvars, vars
  <2>5. report.n - report.moved <= stat[c].used /\ stat[c].used <= report.n + report.moved
    BY <2>1 DEF ReportInv
  <2>6. /\ Cardinality(InClass(c)) - report.moved <= report.n + f
        /\ report.n + f <= Cardinality(InClass(c)) + report.moved
    BY <1>1, <2>2, <2>5
  <2>7. ReportWithin'
    BY <2>3, <2>4, <2>6 DEF ReportWithin, InClass
  <2> QED BY <2>3, <2>7 DEF ReportInv
<1>5. CASE Printed
  <2>1. report' = [report EXCEPT !.at = "no", !.n = 0, !.moved = 0]
    BY <1>5 DEF Printed
  <2>2. report' \in ReportType /\ report'.at = "no"
    <3>1. report' = [at |-> "no", class |-> c, n |-> 0, moved |-> 0]
      BY <1>1, <2>1 DEF ReportType
    <3>2. 0 \in 0 .. all
      BY <1>2
    <3> QED BY <1>1, <3>1, <3>2 DEF ReportType
  <2> QED BY <2>2 DEF ReportInv, ReportWithin
<1>6. CASE PoolStep
  <2> DEFINE moves == report.at = "half" /\ stat'[c] # stat[c] /\ report.moved < all
  <2>1. /\ report.at # "done" /\ DNext
        /\ report' = [report EXCEPT !.moved = IF moves THEN report.moved + 1 ELSE report.moved]
    BY <1>6 DEF PoolStep
  <2>2. /\ report' \in ReportType /\ report'.at = report.at /\ report'.class = c
        /\ report'.n = report.n
        /\ report'.moved = IF moves THEN report.moved + 1 ELSE report.moved
    BY <1>1, <1>2, <2>1 DEF ReportType
  <2>3. stat[c].used \in Int /\ stat'[c].used \in 0 .. all
        /\ stat'[c].used - stat[c].used \in {-1, 0, 1}
    <3>1. stat'[c].used \in 0 .. all
      BY <1>1 DEF TypeOK
    <3> QED BY <1>1, <2>1, <3>1, CountMovesByOne
  <2>4. ASSUME report.at = "half"
        PROVE  /\ report.n - report'.moved <= stat'[c].used
               /\ stat'[c].used <= report.n + report'.moved
               /\ report.n \in 0 .. all
    <3>1. /\ report.n - report.moved <= stat[c].used
          /\ stat[c].used <= report.n + report.moved
          /\ report.n \in 0 .. all
      BY <2>4 DEF ReportInv
    <3>2. CASE moves
      BY <1>1, <1>2, <2>2, <2>3, <3>1, <3>2
    <3>3. CASE report.moved = all
      BY <1>1, <1>2, <2>2, <2>3, <3>1, <3>3
    <3>4. CASE stat'[c] = stat[c]
      BY <1>1, <2>2, <3>1, <3>4
    <3> QED BY <1>1, <1>2, <2>4, <3>2, <3>3, <3>4
  <2> QED BY <2>1, <2>2, <2>4 DEF ReportInv, ReportWithin
<1> QED BY <1>3, <1>4, <1>5, <1>6 DEF RNext

\* A report made while other threads use the pool is wrong by no more than the
\* blocks that moved meanwhile.
THEOREM ReportIsWithin == RSpec => []ReportWithin
<1>1. RInit => ReportInv
  <2> SUFFICES ASSUME RInit PROVE ReportInv
    OBVIOUS
  <2>1. \A i \in Classes : Cardinality(Blocks) \in Nat
    BY ClassFinite
  <2>2. report \in ReportType /\ report.at = "no"
    BY <2>1 DEF RInit, ReportType
  <2> QED BY <2>2 DEF ReportInv, ReportWithin
<1>2. PoolInv /\ TypeOK' /\ ReportInv /\ [RNext]_rvars => ReportInv'
  <2>1. PoolInv /\ ReportInv /\ UNCHANGED rvars => ReportInv'
    BY DEF rvars, dvars, vars, ReportInv, ReportWithin, InClass
  <2> QED BY <2>1, ReportKept
<1>3. ReportInv => ReportWithin
  BY DEF ReportInv
<1>4. PoolInv => TypeOK
  BY PoolInvImplies DEF Partition
<1>5. RSpec => [](PoolInv /\ TypeOK)
  BY <1>4, ReportUsesPool, DataInvariant, PTL
<1> QED BY <1>1, <1>2, <1>3, <1>5, PTL DEF RSpec

=============================================================================
