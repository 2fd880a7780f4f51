----------------------------- MODULE PoolProofs -----------------------------
(***************************************************************************)
(* The connection pool on its links is a queue, for any number of          *)
(* connections, any order of calls and any interleaving of the event loop  *)
(* with get_connection_statiscs.                                           *)
(*                                                                         *)
(* The argument.  A Ring is what a list of list.h is: a sequence without   *)
(* repetitions of which, closed by the head, every two neighbours point to *)
(* each other.  Each operation of list.h turns a ring for one sequence     *)
(* into a ring for another and leaves the links outside it alone.  That a  *)
(* walk passes the entries of the ring (PathPassed) needs no induction:    *)
(* the walk is written down, satisfies the recursive equation of Cursor,   *)
(* and two functions that do so have no least place where they differ.     *)
(*                                                                         *)
(* PoolInv is inductive.  LinksInv: the pool and the local list of         *)
(* get_connection are rings, in the middle of __list_del but for the one   *)
(* pointer already written.  PlacesInv: where each connection is.  WalkInv *)
(* follows the cursor of the statistics: on the list or at an entry just   *)
(* unlinked, its count plus the entries ahead of it lies between what the  *)
(* list had and that less what was withdrawn.                              *)
(***************************************************************************)
EXTENDS PoolList, SequenceTheorems, FiniteSetTheorems, WellFoundedInduction, TLAPS

-----------------------------------------------------------------------------
(* Numbers and sequences. *)

\* A set of numbers has a least one.
LEMMA LeastNumber ==
  ASSUME NEW T, T \subseteq Nat, T # {}
  PROVE  \E x \in T : \A y \in T : x <= y
<1> DEFINE R == OpToRel(<, Nat)
<1>1. \A x, y \in Nat : x < y => <<x, y>> \in R
  BY DEF OpToRel
<1> HIDE DEF R
<1>2. IsWellFoundedOn(R, Nat)
  BY NatLessThanWellFounded, Zenon DEF R
<1>3. PICK x \in T : \A y \in T : ~ (<<y, x>> \in R)
  BY <1>2, WFMin
<1>4. \A y \in T : ~ (y < x)
  BY <1>1, <1>3
<1> QED BY <1>3, <1>4

\* A sequence without repetitions is no longer than there are elements.
LEMMA ShortSeq ==
  ASSUME NEW S, IsFiniteSet(S), NEW q \in Seq(S), IsInjective(q)
  PROVE  Len(q) <= Cardinality(S)
<1>1. Len(q) \in Nat /\ DOMAIN q = 1 .. Len(q) /\ q \in [1 .. Len(q) -> S]
  BY LenProperties
<1>2. q \in Injection(1 .. Len(q), S)
  BY <1>1 DEF Injection, IsInjective
<1>3. IsFiniteSet(1 .. Len(q)) /\ Cardinality(1 .. Len(q)) = Len(q)
  BY <1>1, FS_Interval
<1> QED BY <1>2, <1>3, FS_Injection DEF ExistsInjection

\* Reverse and RemoveAt, element by element.
LEMMA ReverseElements ==
  ASSUME NEW S, NEW q \in Seq(S)
  PROVE  /\ Reverse(q) \in Seq(S) /\ Len(Reverse(q)) = Len(q)
         /\ DOMAIN Reverse(q) = 1 .. Len(q)
         /\ \A i \in 1 .. Len(q) : Reverse(q)[i] = q[Len(q) + 1 - i]
<1>1. Len(q) \in Nat /\ \A i \in 1 .. Len(q) : q[i] \in S
  BY LenProperties
<1>2. \A i \in 1 .. Len(q) : (Len(q) - i) + 1 \in 1 .. Len(q) /\ (Len(q) - i) + 1 = Len(q) + 1 - i
  BY <1>1
<1> QED BY <1>1, <1>2 DEF Reverse

LEMMA RemoveElements ==
  ASSUME NEW S, NEW q \in Seq(S), NEW k \in 1 .. Len(q)
  PROVE  /\ RemoveAt(q, k) \in Seq(S) /\ Len(RemoveAt(q, k)) = Len(q) - 1
         /\ DOMAIN RemoveAt(q, k) = 1 .. Len(q) - 1
         /\ \A i \in 1 .. Len(q) - 1 : RemoveAt(q, k)[i] = IF i < k THEN q[i] ELSE q[i + 1]
<1>1. Len(q) \in Nat /\ \A i \in 1 .. Len(q) : q[i] \in S
  BY LenProperties
<1> DEFINE a == SubSeq(q, 1, k - 1)
           b == SubSeq(q, k + 1, Len(q))
<1>2. a \in Seq(S) /\ Len(a) = k - 1 /\ \A i \in 1 .. k - 1 : a[i] = q[i]
  <2>1. \A i \in 1 .. k - 1 : q[i] \in S
    BY <1>1
  <2>2. 1 \in Int /\ k - 1 \in Int /\ (k - 1) - 1 + 1 = k - 1 /\ (~(1 <= k - 1) => k - 1 = 0)
    BY <1>1
  <2>3. \A i \in 1 .. k - 1 : 1 + i - 1 = i
    BY <1>1
  <2> QED BY <2>1, <2>2, <2>3, SubSeqProperties
<1>3. /\ b \in Seq(S) /\ Len(b) = Len(q) - k
      /\ \A i \in 1 .. Len(q) - k : b[i] = q[k + i]
  <2>1. \A i \in k + 1 .. Len(q) : q[i] \in S
    BY <1>1
  <2>2. /\ k + 1 \in Int /\ Len(q) \in Int /\ Len(q) - (k + 1) + 1 = Len(q) - k
        /\ (~(k + 1 <= Len(q)) => Len(q) - k = 0)
    BY <1>1
  <2>3. \A i \in 1 .. Len(q) - k : (k + 1) + i - 1 = k + i
    BY <1>1
  <2>4. \A m, n \in Int : (\A i \in m .. n : q[i] \in S) =>
          /\ SubSeq(q, m, n) \in Seq(S)
          /\ Len(SubSeq(q, m, n)) = (IF m <= n THEN n - m + 1 ELSE 0)
          /\ \A i \in 1 .. n - m + 1 : SubSeq(q, m, n)[i] = q[m + i - 1]
    BY SubSeqProperties
  <2> DEFINE m == k + 1
  <2>5. /\ SubSeq(q, m, Len(q)) \in Seq(S)
        /\ Len(SubSeq(q, m, Len(q))) = (IF m <= Len(q) THEN Len(q) - m + 1 ELSE 0)
        /\ \A i \in 1 .. Len(q) - m + 1 : SubSeq(q, m, Len(q))[i] = q[m + i - 1]
    <3> HIDE DEF m
    <3>1. m \in Int /\ \A i \in m .. Len(q) : q[i] \in S
      BY <2>1, <2>2 DEF m
    <3> QED BY <2>2, <2>4, <3>1
  <2> QED BY <2>2, <2>3, <2>5
<1> HIDE DEF a, b
<1>4. /\ a \o b \in Seq(S) /\ Len(a \o b) = Len(a) + Len(b)
      /\ \A i \in 1 .. Len(a) + Len(b) :
           (a \o b)[i] = IF i <= Len(a) THEN a[i] ELSE b[i - Len(a)]
  BY <1>2, <1>3, ConcatProperties
<1>5. Len(a) + Len(b) = Len(q) - 1
  BY <1>1, <1>2, <1>3
<1>6. ASSUME NEW i \in 1 .. Len(q) - 1
      PROVE  (a \o b)[i] = IF i < k THEN q[i] ELSE q[i + 1]
  <2>1. i <= Len(a) <=> i < k
    BY <1>1, <1>2
  <2>2. i < k => i \in 1 .. k - 1
    BY <1>1
  <2>3. ~(i < k) => i - Len(a) \in 1 .. Len(q) - k /\ k + (i - Len(a)) = i + 1
    BY <1>1, <1>2
  <2> QED BY <1>2, <1>3, <1>4, <1>5, <2>1, <2>2, <2>3
<1>7. RemoveAt(q, k) = a \o b
  BY DEF RemoveAt, a, b
<1>8. DOMAIN (a \o b) = 1 .. Len(q) - 1
  BY <1>4, <1>5, LenProperties
<1> QED BY <1>4, <1>5, <1>6, <1>7, <1>8

-----------------------------------------------------------------------------
(* Walks along links. *)

\* The entry at position i of the list, which its head closes at both ends.
At(q, h, i) == IF i \in DOMAIN q THEN q[i] ELSE h

\* Along `link' and from `from' on, the entries before the head are those of q.
Path(link, from, h, q) ==
  /\ q \in Seq(Nodes \ {h}) /\ IsInjective(q)
  /\ from = At(q, h, 1)
  /\ \A i \in 1 .. Len(q) : link[q[i]] = At(q, h, i + 1)

CursorDef(f, link, from, head) ==
  f = [k \in 0 .. Cardinality(Nodes) |->
         IF k = 0 THEN from
         ELSE IF f[k - 1] \in {head, NULL} THEN f[k - 1] ELSE link[f[k - 1]]]

\* A function that satisfies the recursive definition of Cursor is Cursor.
LEMMA CursorIs ==
  ASSUME NEW link, NEW from, NEW head, NEW g, CursorDef(g, link, from, head)
  PROVE  Cursor(link, from, head) = g
<1> DEFINE N == Cardinality(Nodes)
           f == Cursor(link, from, head)
           Bad == {k \in 0 .. N : f[k] # g[k]}
<1>1. N \in Nat
  BY ListAssumption, FS_CardinalityType
<1>2. CursorDef(f, link, from, head)
  BY Zenon DEF CursorDef, Cursor
<1>3. Bad = {}
  <2> SUFFICES ASSUME Bad # {} PROVE FALSE
    OBVIOUS
  <2>1. PICK k \in Bad : \A m \in Bad : k <= m
    <3>1. Bad \subseteq Nat
      BY <1>1
    <3> HIDE DEF Bad
    <3> QED BY <3>1, LeastNumber
  <2>2. k # 0
    BY <1>1, <1>2 DEF CursorDef
  <2>3. k \in 0 .. N /\ k - 1 \in 0 .. N /\ f[k - 1] = g[k - 1]
    BY <1>1, <2>1, <2>2
  <2> QED BY <1>2, <2>1, <2>2, <2>3 DEF CursorDef
<1>4. f = [k \in 0 .. N |-> f[k]] /\ g = [k \in 0 .. N |-> g[k]]
  BY <1>2 DEF CursorDef
<1> QED BY <1>3, <1>4

\* What list_for_each passes is the list.
LEMMA PathPassed ==
  ASSUME NEW link, NEW from, NEW h \in Nodes, NEW q, Path(link, from, h, q)
  PROVE  Passed(link, from, h) = q
<1> DEFINE N == Cardinality(Nodes)
           g == [k \in 0 .. N |-> At(q, h, k + 1)]
           Ends == {k \in DOMAIN g : g[k] = h}
<1>1. /\ q \in Seq(Nodes \ {h}) /\ IsInjective(q)
      /\ Len(q) \in Nat /\ DOMAIN q = 1 .. Len(q)
      /\ \A i \in 1 .. Len(q) : q[i] \in Nodes /\ q[i] # h /\ q[i] # NULL
  BY ListAssumption, LenProperties DEF Path
<1>2. N \in Nat /\ Len(q) <= N
  <2>1. IsFiniteSet(Nodes) /\ Nodes \ {h} \subseteq Nodes
    BY ListAssumption
  <2>2. q \in Seq(Nodes)
    BY <1>1, SeqMonotonic, Nodes \ {h} \subseteq Nodes
  <2> QED BY <1>1, <2>1, <2>2, ShortSeq, FS_CardinalityType
<1>3. \A k \in 0 .. N : k + 1 \in 1 .. Len(q) <=> k < Len(q)
  BY <1>1, <1>2
<1>4. CursorDef(g, link, from, h)
  <2>1. g[0] = from
    BY <1>2 DEF Path
  <2>2. ASSUME NEW k \in 0 .. N, k # 0
        PROVE  g[k] = IF g[k - 1] \in {h, NULL} THEN g[k - 1] ELSE link[g[k - 1]]
    <3>1. k - 1 \in 0 .. N /\ (k - 1) + 1 = k /\ g[k - 1] = At(q, h, k) /\ g[k] = At(q, h, k + 1)
      BY <1>2, <2>2
    <3>2. CASE k \in 1 .. Len(q)
      <4>1. g[k - 1] = q[k] /\ link[q[k]] = At(q, h, k + 1)
        BY <1>1, <3>1, <3>2 DEF At, Path
      <4> QED BY <1>1, <3>1, <3>2, <4>1
    <3>3. CASE k \notin 1 .. Len(q)
      <4>1. k + 1 \notin 1 .. Len(q)
        BY <1>1, <1>2, <2>2, <3>3
      <4> QED BY <1>1, <3>1, <3>3, <4>1 DEF At
    <3> QED BY <3>2, <3>3
  <2> HIDE DEF g
  <2>3. g = [k \in 0 .. N |-> g[k]]
    BY DEF g
  <2> QED BY <2>1, <2>2, <2>3 DEF CursorDef
<1>5. Cursor(link, from, h) = g
  <2> HIDE DEF g
  <2> QED BY <1>4, CursorIs
<1>6. Ends = Len(q) .. N
  BY <1>1, <1>2, <1>3 DEF At
<1>7. Min(Ends \union {N + 1}) = Len(q)
  <2> HIDE DEF Ends
  <2>1. Len(q) \in Ends \union {N + 1} /\ \A y \in Ends \union {N + 1} : y \in Int /\ Len(q) <= y
    BY <1>1, <1>2, <1>6
  <2> QED BY <2>1 DEF Min
<1>8. Passed(link, from, h) = [k \in 1 .. Len(q) |-> g[k - 1]]
  <2> HIDE DEF g
  <2> QED BY <1>5, <1>7 DEF Passed
<1>9. \A k \in 1 .. Len(q) : g[k - 1] = q[k]
  BY <1>1, <1>2 DEF At
<1>10. q = [k \in 1 .. Len(q) |-> q[k]]
  BY <1>1
<1> QED BY <1>8, <1>9, <1>10

-----------------------------------------------------------------------------
(* Rings.  In a list of list.h every two neighbours point to each other. *)

Ring(m, h, q) ==
  /\ q \in Seq(Nodes \ {h}) /\ IsInjective(q)
  /\ \A i \in 0 .. Len(q) :
       /\ m[At(q, h, i)].next = At(q, h, i + 1)
       /\ m[At(q, h, i + 1)].prev = At(q, h, i)

\* What is used of a sequence of entries all the time.
LEMMA Entries ==
  ASSUME NEW h \in Nodes, NEW q \in Seq(Nodes \ {h}), IsInjective(q)
  PROVE  /\ Len(q) \in Nat /\ DOMAIN q = 1 .. Len(q)
         /\ \A i \in 1 .. Len(q) : q[i] \in Nodes /\ q[i] # h /\ q[i] \in Range(q)
         /\ \A i \in 1 .. Len(q) : At(q, h, i) = q[i]
         /\ \A i \in Int : i \notin 1 .. Len(q) => At(q, h, i) = h
         /\ \A i \in Int : At(q, h, i) \in Nodes
         /\ \A i, j \in 0 .. Len(q) : At(q, h, i) = At(q, h, j) => i = j
         /\ \A i, j \in 1 .. Len(q) + 1 : At(q, h, i) = At(q, h, j) => i = j
<1>1. /\ Len(q) \in Nat /\ DOMAIN q = 1 .. Len(q)
      /\ \A i \in 1 .. Len(q) : q[i] \in Nodes /\ q[i] # h
  BY LenProperties
<1>2. \A i \in 1 .. Len(q) : q[i] \in Range(q)
  BY <1>1 DEF Range
<1>3. \A i, j \in 1 .. Len(q) : q[i] = q[j] => i = j
  BY <1>1 DEF IsInjective
<1>4. \A i \in 1 .. Len(q) : At(q, h, i) = q[i]
  BY <1>1 DEF At
<1>5. \A i \in Int : i \notin 1 .. Len(q) => At(q, h, i) = h
  BY <1>1 DEF At
<1>6. \A i \in Int : At(q, h, i) \in Nodes
  BY <1>1, <1>4, <1>5
<1>7. ASSUME NEW i \in 0 .. Len(q), NEW j \in 0 .. Len(q), At(q, h, i) = At(q, h, j)
      PROVE  i = j
  <2>1. i \in Int /\ j \in Int /\ (i = 0 \/ i \in 1 .. Len(q)) /\ (j = 0 \/ j \in 1 .. Len(q))
    BY <1>1
  <2> QED BY <1>1, <1>3, <1>4, <1>5, <1>7, <2>1
<1>8. ASSUME NEW i \in 1 .. Len(q) + 1, NEW j \in 1 .. Len(q) + 1, At(q, h, i) = At(q, h, j)
      PROVE  i = j
  <2>1. /\ i \in Int /\ j \in Int
        /\ (i = Len(q) + 1 \/ i \in 1 .. Len(q)) /\ (j = Len(q) + 1 \/ j \in 1 .. Len(q))
        /\ Len(q) + 1 \notin 1 .. Len(q)
    BY <1>1
  <2> QED BY <1>1, <1>3, <1>4, <1>5, <1>8, <2>1
<1> QED BY <1>1, <1>2, <1>4, <1>5, <1>6, <1>7, <1>8

\* A walk along next passes the ring's entries in order.
LEMMA RingForward ==
  ASSUME NEW m \in Links, NEW h \in Nodes, NEW q, Ring(m, h, q)
  PROVE  /\ Path(Nexts(m), m[h].next, h, q)
         /\ Forward(m, h) = q
<1>1. /\ q \in Seq(Nodes \ {h}) /\ IsInjective(q)
      /\ Len(q) \in Nat /\ \A i \in 1 .. Len(q) : q[i] \in Nodes /\ At(q, h, i) = q[i]
      /\ At(q, h, 0) = h
  BY Entries DEF Ring
<1>2. m[h].next = At(q, h, 1)
  BY <1>1 DEF Ring
<1>3. \A i \in 1 .. Len(q) : Nexts(m)[q[i]] = At(q, h, i + 1)
  BY <1>1 DEF Ring, Nexts
<1>4. Path(Nexts(m), m[h].next, h, q)
  BY <1>1, <1>2, <1>3 DEF Path
<1> QED BY <1>4, PathPassed DEF Forward

\* Positions counted from the other end.
LEMMA Mirrored ==
  \A n \in Nat : \A i \in 1 .. n :
    /\ n + 1 - i \in 1 .. n /\ n - i \in 0 .. n /\ (n - i) + 1 = n + 1 - i
    /\ i + 1 \in 1 .. n + 1 /\ n + 1 - (i + 1) = n - i
OBVIOUS

\* And a walk along prev passes them in reverse.
LEMMA RingBackward ==
  ASSUME NEW m \in Links, NEW h \in Nodes, NEW q, Ring(m, h, q)
  PROVE  Backward(m, h) = Reverse(q)
<1> DEFINE r == Reverse(q)
           n == Len(q)
<1>1. /\ q \in Seq(Nodes \ {h}) /\ IsInjective(q)
      /\ n \in Nat /\ DOMAIN q = 1 .. n
      /\ \A i \in 1 .. n : q[i] \in Nodes /\ At(q, h, i) = q[i]
      /\ \A i \in Int : i \notin 1 .. n => At(q, h, i) = h
      /\ \A i \in 0 .. n : m[At(q, h, i + 1)].prev = At(q, h, i)
  BY Entries DEF Ring
<1>2. /\ r \in Seq(Nodes \ {h}) /\ Len(r) = n /\ DOMAIN r = 1 .. n
      /\ \A i \in 1 .. n : r[i] = q[n + 1 - i]
  BY <1>1, ReverseElements
<1> HIDE DEF r
<1>3. IsInjective(r)
  <2> SUFFICES ASSUME NEW i \in 1 .. n, NEW j \in 1 .. n, r[i] = r[j]
               PROVE  i = j
    BY <1>2 DEF IsInjective
  <2>1. n + 1 - i \in 1 .. n /\ n + 1 - j \in 1 .. n /\ (n + 1 - i = n + 1 - j => i = j)
    BY <1>1
  <2>2. q[n + 1 - i] = q[n + 1 - j]
    BY <1>2
  <2> QED BY <1>1, <2>1, <2>2 DEF IsInjective
<1>4. \A i \in 1 .. n + 1 : At(r, h, i) = At(q, h, n + 1 - i)
  <2> TAKE i \in 1 .. n + 1
  <2>1. i \in 1 .. n <=> n + 1 - i \in 1 .. n
    BY <1>1
  <2>2. n + 1 - i \in Int
    BY <1>1
  <2> QED BY <1>1, <1>2, <2>1, <2>2 DEF At
<1>5. m[h].prev = At(r, h, 1)
  <2>1. n \in 0 .. n /\ n + 1 \notin 1 .. n /\ n + 1 \in Int /\ 1 \in 1 .. n + 1 /\ n + 1 - 1 = n
    BY <1>1
  <2> QED BY <1>1, <1>4, <2>1
<1>6. \A i \in 1 .. n : Prevs(m)[r[i]] = At(r, h, i + 1)
  <2> TAKE i \in 1 .. n
  <2>1. /\ n + 1 - i \in 1 .. n /\ n - i \in 0 .. n /\ (n - i) + 1 = n + 1 - i
        /\ i + 1 \in 1 .. n + 1 /\ n + 1 - (i + 1) = n - i
    BY <1>1, Mirrored
  <2>2. r[i] = At(q, h, (n - i) + 1) /\ r[i] \in Nodes
    BY <1>1, <1>2, <2>1
  <2> QED BY <1>1, <1>4, <2>1, <2>2 DEF Prevs
<1>7. Path(Prevs(m), m[h].prev, h, r)
  BY <1>2, <1>3, <1>5, <1>6 DEF Path
<1> QED BY <1>7, PathPassed DEF Backward, r

-----------------------------------------------------------------------------
(* The operations of list.h on a ring. *)

LEMMA RingApart ==
  ASSUME NEW m, NEW n, NEW h \in Nodes, NEW q, Ring(m, h, q),
         \A x \in Range(q) \union {h} : n[x] = m[x]
  PROVE  Ring(n, h, q)
<1>1. /\ q \in Seq(Nodes \ {h}) /\ IsInjective(q) /\ Len(q) \in Nat
      /\ \A i \in 1 .. Len(q) : At(q, h, i) = q[i] /\ q[i] \in Range(q)
      /\ \A i \in Int : i \notin 1 .. Len(q) => At(q, h, i) = h
  BY Entries DEF Ring
<1>2. \A i \in Int : At(q, h, i) \in Range(q) \union {h}
  BY <1>1
<1>3. \A i \in 0 .. Len(q) : i \in Int /\ i + 1 \in Int
  BY <1>1
<1> QED BY <1>1, <1>2, <1>3 DEF Ring

LEMMA RingInit ==
  ASSUME NEW m \in Links, NEW h \in Nodes
  PROVE  /\ InitListHead(m, h) \in Links
         /\ Ring(InitListHead(m, h), h, <<>>)
         /\ \A x \in Nodes \ {h} : InitListHead(m, h)[x] = m[x]
<1> DEFINE e == <<>>
<1>1. e \in Seq(Nodes \ {h}) /\ Len(e) = 0 /\ IsInjective(e)
  BY EmptySeq DEF IsInjective
<1>2. At(e, h, 0) = h /\ At(e, h, 1) = h
  BY DEF At
<1>3. InitListHead(m, h)[h].next = h /\ InitListHead(m, h)[h].prev = h
  BY DEF InitListHead, Links
<1>4. Ring(InitListHead(m, h), h, e)
  <2> HIDE DEF e
  <2>1. \A i \in 0 .. Len(e) : i = 0
    BY <1>1
  <2> QED BY <1>1, <1>2, <1>3, <2>1 DEF Ring
<1> QED BY <1>4 DEF InitListHead, Links

LEMMA AddBetweenFields ==
  ASSUME NEW m \in Links, NEW new \in Nodes, NEW p \in Nodes, NEW n \in Nodes,
         new # p, new # n
  PROVE  /\ AddBetween(m, new, p, n) \in Links
         /\ \A x \in Nodes :
              /\ AddBetween(m, new, p, n)[x].next =
                   IF x = p THEN new ELSE IF x = new THEN n ELSE m[x].next
              /\ AddBetween(m, new, p, n)[x].prev =
                   IF x = n THEN new ELSE IF x = new THEN p ELSE m[x].prev
              /\ x \notin {new, p, n} => AddBetween(m, new, p, n)[x] = m[x]
BY DEF AddBetween, Links

LEMMA UnlinkFields ==
  ASSUME NEW m \in Links, NEW e \in Nodes, m[e].next \in Nodes, m[e].prev \in Nodes
  PROVE  /\ UnlinkBackward(m, e) \in Links /\ UnlinkForward(m, e) \in Links
         /\ \A x \in Nodes :
              /\ UnlinkBackward(m, e)[x].next = m[x].next
              /\ UnlinkBackward(m, e)[x].prev =
                   IF x = m[e].next THEN m[e].prev ELSE m[x].prev
              /\ UnlinkForward(m, e)[x].next =
                   IF x = m[e].prev THEN m[e].next ELSE m[x].next
              /\ UnlinkForward(m, e)[x].prev = m[x].prev
BY DEF UnlinkBackward, UnlinkForward, Links

LEMMA ClearedFields ==
  ASSUME NEW m \in Links, NEW e \in Nodes
  PROVE  /\ Cleared(m, e) \in Links
         /\ \A x \in Nodes : Cleared(m, e)[x] = IF x = e THEN Unlinked ELSE m[x]
BY DEF Cleared, Links, Unlinked

\* What an entry added at the end, added at the front, or removed does to the
\* positions in a list.
LEMMA AppendEntries ==
  ASSUME NEW h \in Nodes, NEW q \in Seq(Nodes \ {h}), IsInjective(q),
         NEW new \in Nodes \ {h}, new \notin Range(q)
  PROVE  /\ Append(q, new) \in Seq(Nodes \ {h}) /\ IsInjective(Append(q, new))
         /\ Len(Append(q, new)) = Len(q) + 1
         /\ Range(Append(q, new)) = Range(q) \union {new}
         /\ \A i \in 0 .. Len(q) : At(Append(q, new), h, i) = At(q, h, i)
         /\ At(Append(q, new), h, Len(q) + 1) = new
         /\ At(Append(q, new), h, Len(q) + 2) = h
<1> DEFINE r == Append(q, new)
           n == Len(q)
<1>1. /\ n \in Nat /\ DOMAIN q = 1 .. n
      /\ \A i \in 1 .. n : q[i] \in Range(q) /\ q[i] # new
  BY Entries
<1>2. /\ r \in Seq(Nodes \ {h}) /\ Len(r) = n + 1 /\ DOMAIN r = 1 .. n + 1
      /\ \A i \in 1 .. n : r[i] = q[i]
      /\ r[n + 1] = new
  BY AppendProperties, LenProperties
<1>3. \A i \in 1 .. n + 1 : i \in 1 .. n \/ i = n + 1
  BY <1>1
<1> HIDE DEF r
<1>4. IsInjective(r)
  BY <1>1, <1>2, <1>3 DEF IsInjective
<1>5. Range(r) = Range(q) \union {new}
  <2>1. \A i \in 1 .. n : i \in 1 .. n + 1
    BY <1>1
  <2>2. n + 1 \in 1 .. n + 1
    BY <1>1
  <2> QED BY <1>1, <1>2, <1>3, <2>1, <2>2 DEF Range
<1>6. /\ \A i \in 0 .. n : At(r, h, i) = At(q, h, i)
      /\ At(r, h, n + 1) = new /\ At(r, h, n + 2) = h
  BY <1>1, <1>2 DEF At
<1> QED BY <1>2, <1>4, <1>5, <1>6 DEF r

LEMMA PrependEntries ==
  ASSUME NEW h \in Nodes, NEW q \in Seq(Nodes \ {h}), IsInjective(q),
         NEW new \in Nodes \ {h}, new \notin Range(q)
  PROVE  /\ <<new>> \o q \in Seq(Nodes \ {h}) /\ IsInjective(<<new>> \o q)
         /\ Len(<<new>> \o q) = Len(q) + 1
         /\ Range(<<new>> \o q) = Range(q) \union {new}
         /\ At(<<new>> \o q, h, 0) = h /\ At(<<new>> \o q, h, 1) = new
         /\ \A i \in 1 .. Len(q) + 1 : At(<<new>> \o q, h, i + 1) = At(q, h, i)
<1> DEFINE r == <<new>> \o q
           n == Len(q)
<1>1. /\ n \in Nat /\ DOMAIN q = 1 .. n
      /\ \A i \in 1 .. n : q[i] \in Range(q) /\ q[i] # new
  BY Entries
<1>2. /\ r \in Seq(Nodes \ {h}) /\ Len(r) = n + 1 /\ DOMAIN r = 1 .. n + 1
      /\ \A i \in 1 .. n + 1 : r[i] = IF i = 1 THEN new ELSE q[i - 1]
  <2> DEFINE s == <<new>>
  <2>1. s \in Seq(Nodes \ {h}) /\ Len(s) = 1 /\ s[1] = new
    OBVIOUS
  <2> HIDE DEF s
  <2>2. /\ s \o q \in Seq(Nodes \ {h}) /\ Len(s \o q) = 1 + n
        /\ \A i \in 1 .. 1 + n : (s \o q)[i] = IF i <= 1 THEN s[i] ELSE q[i - 1]
    <3>1. /\ s \o q \in Seq(Nodes \ {h}) /\ Len(s \o q) = Len(s) + Len(q)
          /\ \A i \in 1 .. Len(s) + Len(q) :
               (s \o q)[i] = IF i <= Len(s) THEN s[i] ELSE q[i - Len(s)]
      BY <2>1, ConcatProperties
    <3> QED BY <2>1, <3>1
  <2>3. 1 + n = n + 1 /\ \A i \in 1 .. n + 1 : (i <= 1 <=> i = 1)
    BY <1>1
  <2>4. DOMAIN (s \o q) = 1 .. n + 1
    BY <2>2, <2>3, LenProperties
  <2> QED BY <2>1, <2>2, <2>3, <2>4 DEF s
<1> HIDE DEF r
<1>3. \A i \in 1 .. n + 1 : i = 1 \/ (i - 1 \in 1 .. n /\ i # 1)
  BY <1>1
<1>4. \A i \in 1 .. n : i + 1 \in 1 .. n + 1 /\ i + 1 # 1 /\ (i + 1) - 1 = i
  BY <1>1
<1>5. IsInjective(r)
  <2> SUFFICES ASSUME NEW i \in 1 .. n + 1, NEW j \in 1 .. n + 1, r[i] = r[j]
               PROVE  i = j
    BY <1>2 DEF IsInjective
  <2>1. i - 1 = j - 1 => i = j
    BY <1>1
  <2>2. i # 1 => i - 1 \in 1 .. n /\ r[i] = q[i - 1] /\ r[i] # new
    BY <1>1, <1>2, <1>3
  <2>3. j # 1 => j - 1 \in 1 .. n /\ r[j] = q[j - 1] /\ r[j] # new
    BY <1>1, <1>2, <1>3
  <2>4. (i = 1 => r[i] = new) /\ (j = 1 => r[j] = new)
    BY <1>2
  <2> QED BY <1>1, <2>1, <2>2, <2>3, <2>4 DEF IsInjective
<1>6. Range(r) = Range(q) \union {new}
  <2>1. 1 \in 1 .. n + 1
    BY <1>1
  <2>2. \A i \in 1 .. n + 1 : r[i] \in Range(q) \union {new}
    BY <1>1, <1>2, <1>3
  <2>3. \A i \in 1 .. n : r[i + 1] = q[i]
    BY <1>2, <1>4
  <2>4. new \in Range(r)
    BY <1>2, <2>1 DEF Range
  <2>5. \A i \in 1 .. n : q[i] \in Range(r)
    BY <1>2, <1>4, <2>3 DEF Range
  <2> QED BY <1>1, <1>2, <2>2, <2>4, <2>5 DEF Range
<1>7. /\ At(r, h, 0) = h /\ At(r, h, 1) = new
      /\ \A i \in 1 .. n + 1 : At(r, h, i + 1) = At(q, h, i)
  BY <1>1, <1>2, <1>4 DEF At
<1> QED BY <1>2, <1>5, <1>6, <1>7 DEF r

LEMMA RemoveEntriesAt ==
  ASSUME NEW h \in Nodes, NEW q \in Seq(Nodes \ {h}), IsInjective(q),
         NEW k \in 1 .. Len(q)
  PROVE  /\ RemoveAt(q, k) \in Seq(Nodes \ {h}) /\ IsInjective(RemoveAt(q, k))
         /\ Len(RemoveAt(q, k)) = Len(q) - 1
         /\ Range(RemoveAt(q, k)) = Range(q) \ {q[k]}
         /\ \A i \in 0 .. Len(q) :
              At(RemoveAt(q, k), h, i) = IF i < k THEN At(q, h, i) ELSE At(q, h, i + 1)
<1> DEFINE r == RemoveAt(q, k)
           n == Len(q)
<1>1. /\ n \in Nat /\ DOMAIN q = 1 .. n
      /\ \A i, j \in 1 .. n : q[i] = q[j] => i = j
  BY Entries DEF IsInjective
<1>2. /\ r \in Seq(Nodes \ {h}) /\ Len(r) = n - 1 /\ DOMAIN r = 1 .. n - 1
      /\ \A i \in 1 .. n - 1 : r[i] = IF i < k THEN q[i] ELSE q[i + 1]
  BY RemoveElements
<1> HIDE DEF r
<1>3. \A i \in 1 .. n - 1 : i \in 1 .. n /\ i + 1 \in 1 .. n /\ i + 1 # 1
  BY <1>1
<1>4. IsInjective(r)
  <2> SUFFICES ASSUME NEW i \in 1 .. n - 1, NEW j \in 1 .. n - 1, r[i] = r[j]
               PROVE  i = j
    BY <1>2 DEF IsInjective
  <2> DEFINE a == IF i < k THEN i ELSE i + 1
             b == IF j < k THEN j ELSE j + 1
  <2>1. q[a] = q[b] /\ a \in 1 .. n /\ b \in 1 .. n
    BY <1>2, <1>3
  <2>2. a = b
    <3> HIDE DEF a, b
    <3> QED BY <1>1, <2>1
  <2> QED BY <1>1, <2>2
<1>5. Range(r) = Range(q) \ {q[k]}
  <2>1. ASSUME NEW i \in 1 .. n - 1 PROVE r[i] \in Range(q) \ {q[k]}
    <3>1. PICK j \in 1 .. n : r[i] = q[j] /\ j # k
      <4>1. CASE i < k
        <5>1. i \in 1 .. n /\ i # k /\ r[i] = q[i]
          BY <1>1, <1>2, <1>3, <4>1
        <5> QED BY <5>1
      <4>2. CASE ~(i < k)
        <5>1. i + 1 \in 1 .. n /\ i + 1 # k /\ r[i] = q[i + 1]
          BY <1>1, <1>2, <1>3, <4>2
        <5> QED BY <5>1
      <4> QED BY <4>1, <4>2
    <3> QED BY <1>1, <3>1 DEF Range
  <2>2. ASSUME NEW j \in 1 .. n, j # k PROVE \E i \in 1 .. n - 1 : r[i] = q[j]
    <3>1. CASE j < k
      <4>1. j \in 1 .. n - 1
        BY <1>1, <3>1
      <4> QED BY <1>2, <3>1, <4>1
    <3>2. CASE ~(j < k)
      <4>1. j - 1 \in 1 .. n - 1 /\ ~(j - 1 < k) /\ (j - 1) + 1 = j
        BY <1>1, <2>2, <3>2
      <4> QED BY <1>2, <4>1
    <3> QED BY <3>1, <3>2
  <2>3. \A x \in Range(r) : x \in Range(q) \ {q[k]}
    BY <1>2, <2>1 DEF Range
  <2>4. ASSUME NEW x \in Range(q) \ {q[k]} PROVE x \in Range(r)
    <3>1. PICK j \in 1 .. n : x = q[j] /\ j # k
      BY <1>1 DEF Range
    <3> QED BY <1>2, <2>2, <3>1 DEF Range
  <2> QED BY <2>3, <2>4
<1>6. ASSUME NEW i \in 0 .. n
      PROVE  At(r, h, i) = IF i < k THEN At(q, h, i) ELSE At(q, h, i + 1)
  <2>1. CASE i \in 1 .. n - 1
    BY <1>1, <1>2, <1>3, <2>1 DEF At
  <2>2. CASE i = 0
    BY <1>1, <1>2, <2>2 DEF At
  <2>3. CASE i = n
    <3>1. ~(n < k) /\ n + 1 \notin 1 .. n /\ n \notin 1 .. n - 1
      BY <1>1
    <3> QED BY <1>1, <1>2, <2>3, <3>1 DEF At
  <2>4. i \in 1 .. n - 1 \/ i = 0 \/ i = n
    <3>1. n \in Nat
      BY <1>1
    <3> HIDE DEF n
    <3> QED BY <3>1
  <2> QED BY <2>1, <2>2, <2>3, <2>4
<1> QED BY <1>2, <1>4, <1>5, <1>6 DEF r

\* list_add_tail appends.
LEMMA RingAddTail ==
  ASSUME NEW m \in Links, NEW h \in Nodes, NEW q, Ring(m, h, q),
         NEW new \in Nodes \ {h}, new \notin Range(q)
  PROVE  /\ ListAddTail(m, new, h) \in Links
         /\ Ring(ListAddTail(m, new, h), h, Append(q, new))
         /\ \A x \in Nodes \ (Range(q) \union {h, new}) : ListAddTail(m, new, h)[x] = m[x]
<1> DEFINE r == Append(q, new)
           n == Len(q)
           p == At(q, h, n)
           m1 == ListAddTail(m, new, h)
<1>1. q \in Seq(Nodes \ {h}) /\ IsInjective(q) /\ n \in Nat
  BY Entries DEF Ring
<1>2. /\ \A i \in 0 .. n : At(q, h, i) \in Range(q) \union {h}
      /\ \A i \in 0 .. n : At(q, h, i) \in Nodes /\ At(q, h, i) # new
      /\ \A i \in 1 .. n : At(q, h, i) # h
      /\ \A i, j \in 0 .. n : At(q, h, i) = At(q, h, j) => i = j
      /\ At(q, h, 0) = h
  <2>1. \A i \in 0 .. n : i \in Int
    BY <1>1
  <2> QED BY <1>1, <2>1, Entries
<1>3. /\ \A i \in 0 .. n : m[At(q, h, i)].next = At(q, h, i + 1)
      /\ \A i \in 0 .. n : m[At(q, h, i + 1)].prev = At(q, h, i)
      /\ At(q, h, n + 1) = h
  BY <1>1, Entries DEF Ring
<1>4. p \in Nodes /\ p # new /\ p \in Range(q) \union {h} /\ m[h].prev = p
  <2>1. n \in 0 .. n /\ n \in Int
    BY <1>1
  <2> QED BY <1>1, <1>2, <1>3, <2>1, Entries
<1>5. /\ m1 \in Links
      /\ \A x \in Nodes :
           /\ m1[x].next = IF x = p THEN new ELSE IF x = new THEN h ELSE m[x].next
           /\ m1[x].prev = IF x = h THEN new ELSE IF x = new THEN p ELSE m[x].prev
           /\ x \notin {new, p, h} => m1[x] = m[x]
  <2>1. m1 = AddBetween(m, new, p, h)
    BY <1>4 DEF ListAddTail
  <2>2. new \in Nodes /\ new # h
    OBVIOUS
  <2>3. p \in Nodes /\ new # p
    BY <1>4
  <2> HIDE DEF p, m1
  <2>4. /\ AddBetween(m, new, p, h) \in Links
        /\ \A x \in Nodes :
             /\ AddBetween(m, new, p, h)[x].next =
                  IF x = p THEN new ELSE IF x = new THEN h ELSE m[x].next
             /\ AddBetween(m, new, p, h)[x].prev =
                  IF x = h THEN new ELSE IF x = new THEN p ELSE m[x].prev
             /\ x \notin {new, p, h} => AddBetween(m, new, p, h)[x] = m[x]
    BY <2>2, <2>3, AddBetweenFields
  <2> QED BY <2>1, <2>4
<1>6. /\ r \in Seq(Nodes \ {h}) /\ IsInjective(r) /\ Len(r) = n + 1
      /\ \A i \in 0 .. n : At(r, h, i) = At(q, h, i)
      /\ At(r, h, n + 1) = new /\ At(r, h, n + 2) = h
  BY <1>1, AppendEntries
<1> HIDE DEF m1, r
<1>7. ASSUME NEW i \in 0 .. n + 1
      PROVE  m1[At(r, h, i)].next = At(r, h, i + 1) /\ m1[At(r, h, i + 1)].prev = At(r, h, i)
  <2>1. CASE i = n + 1
    <3>1. i + 1 = n + 2
      BY <1>1, <2>1
    <3> QED BY <1>4, <1>5, <1>6, <2>1, <3>1
  <2>2. CASE i = n
    <3>1. n \in 0 .. n
      BY <1>1
    <3> QED BY <1>4, <1>5, <1>6, <2>2, <3>1
  <2>3. CASE i \in 0 .. n /\ i # n
    <3>1. i + 1 \in 0 .. n /\ i + 1 \in 1 .. n /\ n \in 0 .. n
      BY <1>1, <2>3
    <3>2. At(q, h, i) # p /\ At(q, h, i) # new /\ At(q, h, i) \in Nodes
      BY <1>2, <2>3, <3>1
    <3>3. At(q, h, i + 1) # h /\ At(q, h, i + 1) # new /\ At(q, h, i + 1) \in Nodes
      BY <1>2, <3>1
    <3> QED BY <1>3, <1>5, <1>6, <2>3, <3>1, <3>2, <3>3
  <2> QED BY <1>1, <2>1, <2>2, <2>3
<1>8. Ring(m1, h, r)
  BY <1>6, <1>7 DEF Ring
<1> QED BY <1>4, <1>5, <1>8 DEF m1, r

\* list_add puts the entry first.
LEMMA RingAdd ==
  ASSUME NEW m \in Links, NEW h \in Nodes, NEW q, Ring(m, h, q),
         NEW new \in Nodes \ {h}, new \notin Range(q)
  PROVE  /\ ListAdd(m, new, h) \in Links
         /\ Ring(ListAdd(m, new, h), h, <<new>> \o q)
<1> DEFINE r == <<new>> \o q
           n == Len(q)
           f == At(q, h, 1)
           m1 == ListAdd(m, new, h)
<1>1. q \in Seq(Nodes \ {h}) /\ IsInjective(q) /\ n \in Nat
  BY Entries DEF Ring
<1>2. /\ \A i \in 1 .. n + 1 : At(q, h, i) \in Nodes /\ At(q, h, i) # new
      /\ \A i \in 1 .. n : At(q, h, i) # h
      /\ \A i, j \in 1 .. n + 1 : At(q, h, i) = At(q, h, j) => i = j
      /\ At(q, h, 0) = h
  <2>1. \A i \in 1 .. n + 1 : i \in Int
    BY <1>1
  <2> QED BY <1>1, <2>1, Entries
<1>3. /\ \A i \in 0 .. n : m[At(q, h, i)].next = At(q, h, i + 1)
      /\ \A i \in 0 .. n : m[At(q, h, i + 1)].prev = At(q, h, i)
  BY DEF Ring
<1>4. f \in Nodes /\ f # new /\ m[h].next = f
  <2>1. 0 \in 0 .. n /\ 1 \in 1 .. n + 1 /\ 0 + 1 = 1
    BY <1>1
  <2> QED BY <1>1, <1>2, <1>3, <2>1, Entries
<1>5. /\ m1 \in Links
      /\ \A x \in Nodes :
           /\ m1[x].next = IF x = h THEN new ELSE IF x = new THEN f ELSE m[x].next
           /\ m1[x].prev = IF x = f THEN new ELSE IF x = new THEN h ELSE m[x].prev
  <2>1. m1 = AddBetween(m, new, h, f)
    BY <1>4 DEF ListAdd
  <2>2. new \in Nodes /\ new # h
    OBVIOUS
  <2>3. f \in Nodes /\ new # f
    BY <1>4
  <2> HIDE DEF f, m1
  <2>4. /\ AddBetween(m, new, h, f) \in Links
        /\ \A x \in Nodes :
             /\ AddBetween(m, new, h, f)[x].next =
                  IF x = h THEN new ELSE IF x = new THEN f ELSE m[x].next
             /\ AddBetween(m, new, h, f)[x].prev =
                  IF x = f THEN new ELSE IF x = new THEN h ELSE m[x].prev
    BY <2>2, <2>3, AddBetweenFields
  <2> QED BY <2>1, <2>4
<1>6. /\ r \in Seq(Nodes \ {h}) /\ IsInjective(r) /\ Len(r) = n + 1
      /\ At(r, h, 0) = h /\ At(r, h, 1) = new
      /\ \A i \in 1 .. n + 1 : At(r, h, i + 1) = At(q, h, i)
  BY <1>1, PrependEntries
<1> HIDE DEF m1, r
<1>7. ASSUME NEW i \in 0 .. n + 1
      PROVE  m1[At(r, h, i)].next = At(r, h, i + 1) /\ m1[At(r, h, i + 1)].prev = At(r, h, i)
  <2>1. CASE i = 0
    <3>1. i + 1 = 1
      BY <2>1
    <3> QED BY <1>4, <1>5, <1>6, <2>1, <3>1
  <2>2. CASE i = 1
    <3>1. 1 \in 1 .. n + 1
      BY <1>1
    <3> QED BY <1>4, <1>5, <1>6, <2>2, <3>1
  <2>3. CASE i \in 2 .. n + 1
    <3>1. /\ i - 1 \in 0 .. n /\ i - 1 \in 1 .. n /\ i - 1 \in 1 .. n + 1 /\ i \in 1 .. n + 1
          /\ (i - 1) + 1 = i /\ i # 1 /\ 1 \in 1 .. n + 1
      BY <1>1, <2>3
    <3>2. /\ At(q, h, i - 1) # h /\ At(q, h, i - 1) # new /\ At(q, h, i - 1) \in Nodes
          /\ At(r, h, i) = At(q, h, i - 1)
      BY <1>1, <1>2, <1>6, <3>1
    <3>3. /\ At(q, h, i) # f /\ At(q, h, i) # new /\ At(q, h, i) \in Nodes
          /\ At(r, h, i + 1) = At(q, h, i)
      BY <1>1, <1>2, <1>6, <3>1
    <3>4. m[At(q, h, i - 1)].next = At(q, h, i) /\ m[At(q, h, i)].prev = At(q, h, i - 1)
      BY <1>3, <3>1
    <3> QED BY <1>5, <3>2, <3>3, <3>4
  <2>4. i = 0 \/ i = 1 \/ i \in 2 .. n + 1
    <3>1. n \in Nat
      BY <1>1
    <3> HIDE DEF n
    <3> QED BY <3>1
  <2> QED BY <2>1, <2>2, <2>3, <2>4
<1>8. Ring(m1, h, r)
  BY <1>6, <1>7 DEF Ring
<1> QED BY <1>5, <1>8 DEF m1, r

\* The two assignments of __list_del close the ring behind an entry, which
\* itself still points into it.
LEMMA RingUnlink ==
  ASSUME NEW m \in Links, NEW h \in Nodes, NEW q, Ring(m, h, q), NEW k \in 1 .. Len(q)
  PROVE  LET m1 == UnlinkBackward(m, q[k])
             m2 == UnlinkForward(m1, q[k])
         IN /\ m1 \in Links /\ m2 \in Links
            /\ \A x \in Nodes : m1[x].next = m[x].next
            /\ Ring(m2, h, RemoveAt(q, k))
            /\ m2[q[k]] = m[q[k]]
            /\ \A x \in Nodes \ (Range(q) \union {h}) : m2[x] = m[x] /\ m1[x] = m[x]
<1> DEFINE e == q[k]
           r == RemoveAt(q, k)
           n == Len(q)
           p == At(q, h, k - 1)
           s == At(q, h, k + 1)
           m1 == UnlinkBackward(m, e)
           m2 == UnlinkForward(m1, e)
<1>1. /\ q \in Seq(Nodes \ {h}) /\ IsInjective(q) /\ n \in Nat
      /\ k \in Int /\ k - 1 \in Int /\ k + 1 \in Int
      /\ k - 1 \in 0 .. n /\ k \in 0 .. n /\ (k - 1) + 1 = k /\ k + 1 \in 1 .. n + 1
      /\ k \in 1 .. n + 1 /\ k # k - 1 /\ k # k + 1
  BY Entries DEF Ring
<1>2. /\ \A i \in 0 .. n + 1 : At(q, h, i) \in Range(q) \union {h} /\ At(q, h, i) \in Nodes
      /\ \A i, j \in 0 .. n : At(q, h, i) = At(q, h, j) => i = j
      /\ \A i, j \in 1 .. n + 1 : At(q, h, i) = At(q, h, j) => i = j
      /\ At(q, h, k) = e
  <2>1. \A i \in 0 .. n + 1 : i \in Int
    BY <1>1
  <2> QED BY <1>1, <2>1, Entries
<1>3. /\ \A i \in 0 .. n : m[At(q, h, i)].next = At(q, h, i + 1)
      /\ \A i \in 0 .. n : m[At(q, h, i + 1)].prev = At(q, h, i)
  BY DEF Ring
<1>4. /\ e \in Nodes /\ p \in Nodes /\ s \in Nodes
      /\ e # p /\ e # s
      /\ m[e].next = s /\ m[e].prev = p
      /\ p \in Range(q) \union {h} /\ s \in Range(q) \union {h}
  <2>1. k - 1 \in 0 .. n + 1 /\ k \in 0 .. n + 1 /\ k + 1 \in 0 .. n + 1
    BY <1>1
  <2> QED BY <1>1, <1>2, <1>3, <2>1
<1>5. e \in Range(q)
  BY <1>1, Entries
<1> HIDE DEF e, p, s
<1>6. /\ m1 \in Links
      /\ \A x \in Nodes :
           /\ m1[x].next = m[x].next
           /\ m1[x].prev = IF x = s THEN p ELSE m[x].prev
           /\ x # s => m1[x] = m[x]
  <2>1. m1 \in Links /\ \A x \in Nodes :
          m1[x].next = m[x].next /\ m1[x].prev = IF x = s THEN p ELSE m[x].prev
    BY <1>4, UnlinkFields
  <2>2. \A x \in Nodes : x # s => m1[x] = m[x]
    BY <1>4 DEF UnlinkBackward, Links
  <2> QED BY <2>1, <2>2
<1> HIDE DEF m1
<1>7. /\ m2 \in Links
      /\ \A x \in Nodes :
           /\ m2[x].next = IF x = p THEN s ELSE m1[x].next
           /\ m2[x].prev = m1[x].prev
           /\ x # p => m2[x] = m1[x]
  <2>0. m1[e].next = s /\ m1[e].prev = p
    BY <1>4, <1>6
  <2>1. m2 \in Links /\ \A x \in Nodes :
          m2[x].next = (IF x = p THEN s ELSE m1[x].next) /\ m2[x].prev = m1[x].prev
    BY <1>4, <1>6, <2>0, UnlinkFields
  <2>2. \A x \in Nodes : x # p => m2[x] = m1[x]
    BY <1>4, <1>6, <2>0 DEF UnlinkForward, Links
  <2> QED BY <2>1, <2>2
<1> HIDE DEF m2
<1>8. /\ r \in Seq(Nodes \ {h}) /\ IsInjective(r) /\ Len(r) = n - 1
      /\ \A i \in 0 .. n : At(r, h, i) = IF i < k THEN At(q, h, i) ELSE At(q, h, i + 1)
  BY <1>1, RemoveEntriesAt
<1> HIDE DEF r
<1>9. ASSUME NEW i \in 0 .. n - 1
      PROVE  m2[At(r, h, i)].next = At(r, h, i + 1) /\ m2[At(r, h, i + 1)].prev = At(r, h, i)
  <2>0. i \in Int /\ i \in 0 .. n /\ i + 1 \in 0 .. n /\ i + 1 \in 0 .. n + 1 /\ i + 1 \in 1 .. n + 1
    BY <1>1
  <2>1. CASE i = k - 1
    <3>1. i < k /\ ~(i + 1 < k) /\ i + 1 = k
      BY <1>1, <2>1
    <3>2. At(r, h, i) = p /\ At(r, h, i + 1) = s
      BY <1>8, <2>0, <2>1, <3>1 DEF p, s
    <3> QED BY <1>4, <1>6, <1>7, <3>2
  <2>2. CASE i < k /\ i # k - 1
    <3>1. i + 1 < k /\ i + 1 # k + 1
      BY <1>1, <2>0, <2>2
    <3>2. At(r, h, i) = At(q, h, i) /\ At(r, h, i + 1) = At(q, h, i + 1)
      BY <1>8, <2>0, <2>2, <3>1
    <3>3. At(q, h, i) # p /\ At(q, h, i + 1) # s
      BY <1>1, <1>2, <2>0, <2>2, <3>1 DEF p, s
    <3>4. At(q, h, i) \in Nodes /\ At(q, h, i + 1) \in Nodes
      BY <1>2, <2>0, 0 .. n \subseteq 0 .. n + 1
    <3> QED BY <1>3, <1>6, <1>7, <2>0, <3>2, <3>3, <3>4
  <2>3. CASE ~(i < k)
    <3>1. /\ ~(i + 1 < k) /\ (i + 1) + 1 \in 1 .. n + 1 /\ (i + 1) + 1 \in 0 .. n + 1
          /\ i + 1 # k - 1 /\ (i + 1) + 1 # k + 1
      BY <1>1, <2>0, <2>3
    <3>2. At(r, h, i) = At(q, h, i + 1) /\ At(r, h, i + 1) = At(q, h, (i + 1) + 1)
      BY <1>8, <2>0, <2>3, <3>1
    <3>3. At(q, h, i + 1) # p /\ At(q, h, (i + 1) + 1) # s
      BY <1>1, <1>2, <2>0, <3>1 DEF p, s
    <3>4. At(q, h, i + 1) \in Nodes /\ At(q, h, (i + 1) + 1) \in Nodes
      BY <1>2, <2>0, <3>1
    <3> QED BY <1>3, <1>6, <1>7, <2>0, <3>2, <3>3, <3>4
  <2> QED BY <2>1, <2>2, <2>3
<1>10. Ring(m2, h, r)
  BY <1>8, <1>9 DEF Ring
<1>11. m2[e] = m[e]
  BY <1>4, <1>6, <1>7
<1>12. \A x \in Nodes \ (Range(q) \union {h}) : m2[x] = m[x] /\ m1[x] = m[x]
  BY <1>4, <1>6, <1>7
<1>13. m1 \in Links /\ m2 \in Links /\ \A x \in Nodes : m1[x].next = m[x].next
  BY <1>6, <1>7
<1> QED BY <1>10, <1>11, <1>12, <1>13 DEF m1, m2, r, e

\* list_del removes its entry and leaves everything outside the list alone.
LEMMA RingDel ==
  ASSUME NEW m \in Links, NEW h \in Nodes, NEW q, Ring(m, h, q), NEW k \in 1 .. Len(q)
  PROVE  /\ ListDel(m, q[k]) \in Links
         /\ Ring(ListDel(m, q[k]), h, RemoveAt(q, k))
         /\ \A x \in Nodes \ (Range(q) \union {h}) : ListDel(m, q[k])[x] = m[x]
<1> DEFINE e == q[k]
           m1 == UnlinkBackward(m, e)
           m2 == UnlinkForward(m1, e)
           r == RemoveAt(q, k)
<1>1. /\ m2 \in Links /\ Ring(m2, h, r)
      /\ \A x \in Nodes \ (Range(q) \union {h}) : m2[x] = m[x]
  BY RingUnlink
<1>2. e \in Nodes /\ e \in Range(q) /\ e # h /\ Range(r) = Range(q) \ {e}
  BY Entries, RemoveEntriesAt DEF Ring
<1>3. ListDel(m, e) = Cleared(m2, e)
  BY DEF ListDel
<1> HIDE DEF e, m1, m2, r
<1>4. Cleared(m2, e) \in Links /\ \A x \in Nodes : x # e => Cleared(m2, e)[x] = m2[x]
  BY <1>1, <1>2, ClearedFields
<1>5. \A x \in Range(r) \union {h} : x \in Nodes /\ x # e
  <2>1. Range(q) \subseteq Nodes
    BY LenProperties DEF Ring, Range
  <2> QED BY <1>2, <2>1
<1>6. Ring(Cleared(m2, e), h, r)
  BY <1>1, <1>4, <1>5, RingApart
<1>7. \A x \in Nodes \ (Range(q) \union {h}) : Cleared(m2, e)[x] = m[x]
  BY <1>1, <1>2, <1>4
<1> QED BY <1>3, <1>4, <1>6, <1>7 DEF e, r

\* What list_empty, list_is_singular and list_is_last say.
LEMMA RingShape ==
  ASSUME NEW m \in Links, NEW h \in Nodes, NEW q, Ring(m, h, q)
  PROVE  /\ ListEmpty(m, h) <=> q = <<>>
         /\ ListIsSingular(m, h) <=> Len(q) = 1
         /\ \A k \in 1 .. Len(q) : ListIsLast(m, q[k], h) <=> k = Len(q)
<1> DEFINE n == Len(q)
<1>1. /\ q \in Seq(Nodes \ {h}) /\ IsInjective(q) /\ n \in Nat
      /\ 0 \in 0 .. n /\ n \in 0 .. n /\ n + 1 \in 1 .. n + 1 /\ 1 \in 1 .. n + 1
  BY Entries DEF Ring
<1>2. /\ m[h].next = At(q, h, 1) /\ m[h].prev = At(q, h, n)
      /\ \A i \in 1 .. n : m[q[i]].next = At(q, h, i + 1)
  <2>1. At(q, h, 0) = h /\ At(q, h, n + 1) = h /\ 0 + 1 = 1
    BY <1>1, Entries
  <2>2. \A i \in 1 .. n : i \in 0 .. n /\ At(q, h, i) = q[i]
    BY <1>1, Entries
  <2> QED BY <1>1, <2>1, <2>2 DEF Ring
<1>3. /\ \A i \in 1 .. n : At(q, h, i) # h
      /\ \A i \in Int : i \notin 1 .. n => At(q, h, i) = h
      /\ \A i, j \in 1 .. n + 1 : At(q, h, i) = At(q, h, j) => i = j
      /\ \A i, j \in 0 .. n : At(q, h, i) = At(q, h, j) => i = j
  BY <1>1, Entries
<1>4. At(q, h, 1) = h <=> n = 0
  BY <1>1, <1>3
<1>5. q = <<>> <=> n = 0
  BY <1>1, EmptySeq
<1>6. ASSUME n # 0 PROVE At(q, h, 1) = At(q, h, n) <=> n = 1
  <2>1. 1 \in 0 .. n /\ n \in 0 .. n
    BY <1>1, <1>6
  <2> QED BY <1>3, <2>1
<1>7. ASSUME NEW k \in 1 .. n
      PROVE  At(q, h, k + 1) = h <=> k = n
  <2>1. k = n => k + 1 \notin 1 .. n /\ k + 1 \in Int
    BY <1>1
  <2>2. k # n => k + 1 \in 1 .. n
    BY <1>1
  <2> QED BY <1>3, <2>1, <2>2
<1>8. ListEmpty(m, h) <=> q = <<>>
  BY <1>2, <1>4, <1>5 DEF ListEmpty
<1>9. ListIsSingular(m, h) <=> n = 1
  <2>1. n = 0 => n # 1
    OBVIOUS
  <2> QED BY <1>2, <1>5, <1>6, <1>8, <2>1 DEF ListIsSingular
<1>10. \A k \in 1 .. n : ListIsLast(m, q[k], h) <=> k = n
  BY <1>2, <1>7 DEF ListIsLast
<1> QED BY <1>8, <1>9, <1>10

-----------------------------------------------------------------------------
(* The invariant. *)

\* Between the two assignments of __list_del, the links before the first.
Relinked == [l EXCEPT ![l[cursor].next].prev = cursor]

\* What the links of the pool and of the local list stand for.
LinksInv ==
  /\ pc = "run" => cursor = NULL
  /\ pc # "forward" => Ring(l, Pool, Idle)
  /\ pc = "forward" => Ring(Relinked, Pool, Idle) /\ l = UnlinkBackward(Relinked, cursor)
  /\ pc \in {"backward", "forward"} => cursor \in Range(Idle)
  /\ pc = "search" => /\ Ring(l, Invalid, Aside)
                      /\ cursor = l[Pool].next
                      /\ Range(Aside) \subseteq dead
  /\ pc = "closing" => Path(Nexts(l), cursor, Invalid, Aside)

\* Every connection is in one place.
PlacesInv ==
  /\ TypeOK
  /\ live = held \union Range(Idle) \union Range(Aside) \union Leaving
  /\ held \intersect (Range(Idle) \union Range(Aside) \union Leaving) = {}
  /\ Leaving \intersect (Range(Idle) \union Range(Aside)) = {}
  /\ Range(Aside) \intersect Range(Idle) = {}

\* What the statistics will have counted in the end if nothing is withdrawn any
\* more: all there was, less what has been withdrawn, or some of that too.
Within(n) == walk.begun - walk.removed <= n /\ n <= walk.begun

\* The cursor of the statistics is in the pool's list or at its head, or at an
\* entry that has just been unlinked but still points into the list.
OnTheWay ==
  \E p \in 1 .. Len(Idle) + 1 :
    \/ /\ walk.at = At(Idle, Pool, p)
       /\ Within(walk.i + (Len(Idle) + 1 - p))
    \/ /\ pc = "clear" /\ walk.at = cursor /\ l[cursor].next = At(Idle, Pool, p)
       /\ Within(walk.i + 1 + (Len(Idle) + 1 - p))

\* It was at the entry that was withdrawn, which leads nowhere.
OffTheWay ==
  \/ walk.at = NULL /\ walk.i <= walk.begun
  \/ walk.at \in Conns \ Range(Idle) /\ l[walk.at].next = NULL /\ walk.i < walk.begun

WalkInv ==
  /\ walk.st = "astray" => undercut
  /\ walk.st = "walking" => /\ pc # "search"
                            /\ ~undercut => OnTheWay
                            /\ undercut => OffTheWay

PoolInv == PlacesInv /\ LinksInv /\ WalkInv

-----------------------------------------------------------------------------
(* Facts about a state in which the invariant holds. *)

LEMMA PoolFacts ==
  ASSUME PoolInv
  PROVE  /\ l \in Links
         /\ Idle \in Seq(Nodes \ {Pool}) /\ IsInjective(Idle)
         /\ Len(Idle) \in Nat /\ DOMAIN Idle = 1 .. Len(Idle)
         /\ \A i \in 0 .. Len(Idle) : l[At(Idle, Pool, i)].next = At(Idle, Pool, i + 1)
         /\ l[Pool].next = At(Idle, Pool, 1)
         /\ live \subseteq Conns /\ Range(Idle) \subseteq live
         /\ Range(Aside) \subseteq live /\ held \subseteq live /\ Leaving \subseteq live
         /\ Pool \notin live /\ Invalid \notin live /\ NULL \notin live
         /\ Conns \subseteq Nodes
<1>1. l \in Links /\ live \subseteq Conns
  BY DEF PoolInv, PlacesInv, TypeOK
<1>2. PICK m \in Links : Ring(m, Pool, Idle) /\ \A x \in Nodes : l[x].next = m[x].next
  <2>1. CASE pc # "forward"
    BY <1>1, <2>1 DEF PoolInv, LinksInv
  <2>2. CASE pc = "forward"
    <3>1. Ring(Relinked, Pool, Idle) /\ cursor \in Range(Idle) /\ cursor \in Conns
      BY <1>1, <2>2 DEF PoolInv, LinksInv, PlacesInv
    <3>2. Relinked \in Links /\ \A x \in Nodes : l[x].next = Relinked[x].next
      BY <1>1, <3>1 DEF Relinked, Links, Conns
    <3> QED BY <3>1, <3>2
  <2> QED BY <2>1, <2>2
<1>3. /\ Idle \in Seq(Nodes \ {Pool}) /\ IsInjective(Idle)
      /\ \A i \in 0 .. Len(Idle) : m[At(Idle, Pool, i)].next = At(Idle, Pool, i + 1)
  BY <1>2 DEF Ring
<1>4. /\ Len(Idle) \in Nat /\ DOMAIN Idle = 1 .. Len(Idle)
      /\ \A i \in 0 .. Len(Idle) : At(Idle, Pool, i) \in Nodes
      /\ At(Idle, Pool, 0) = Pool
  <2>1. Pool \in Nodes
    BY PoolAssumption
  <2>2. Len(Idle) \in Nat
    BY <1>3, LenProperties
  <2>3. \A i \in 0 .. Len(Idle) : i \in Int
    BY <2>2
  <2> QED BY <1>3, <2>1, <2>2, <2>3, Entries
<1>5. \A i \in 0 .. Len(Idle) : l[At(Idle, Pool, i)].next = At(Idle, Pool, i + 1)
  BY <1>2, <1>3, <1>4
<1>6. l[Pool].next = At(Idle, Pool, 1)
  <2>1. 0 \in 0 .. Len(Idle) /\ 0 + 1 = 1
    BY <1>4
  <2> QED BY <1>4, <1>5, <2>1
<1>7. /\ Range(Idle) \subseteq live /\ Range(Aside) \subseteq live /\ held \subseteq live
      /\ Leaving \subseteq live
  BY DEF PoolInv, PlacesInv
<1>8. Pool \notin live /\ Invalid \notin live /\ NULL \notin live /\ Conns \subseteq Nodes
  BY <1>1, ListAssumption DEF Conns
<1> QED BY <1>1, <1>3, <1>4, <1>5, <1>6, <1>7, <1>8

\* A step that leaves the links of the pool's list alone leaves the list alone.
LEMMA IdleKept ==
  ASSUME PoolInv, pc # "forward", l' \in Links,
         \A x \in Range(Idle) \union {Pool} : l'[x] = l[x]
  PROVE  Ring(l', Pool, Idle) /\ Idle' = Idle
<1>1. Pool \in Nodes /\ Ring(l, Pool, Idle)
  BY PoolAssumption DEF PoolInv, LinksInv
<1>2. Ring(l', Pool, Idle)
  <2> DEFINE q == Idle
             n == l'
  <2> HIDE DEF q, n
  <2>1. Ring(l, Pool, q) /\ \A x \in Range(q) \union {Pool} : n[x] = l[x]
    BY <1>1 DEF q, n
  <2>2. Ring(n, Pool, q)
    BY <1>1, <2>1, RingApart
  <2> QED BY <2>2 DEF q, n
<1>3. Forward(l', Pool) = Idle
  BY <1>1, <1>2, RingForward
<1> QED BY <1>2, <1>3 DEF Idle

\* A step of the event loop that neither changes the list nor frees an entry
\* that has just been unlinked leaves the statistics on their way.
LEMMA WalkKept ==
  ASSUME PoolInv, walk' = walk, undercut' = undercut, Idle' = Idle,
         pc # "clear", pc' = "search" => walk.st = "no",
         \A x \in Conns : l[x].next = NULL => l'[x].next = NULL
  PROVE  WalkInv'
<1>1. CASE walk.st # "walking"
  BY <1>1 DEF PoolInv, WalkInv
<1>2. CASE walk.st = "walking" /\ ~undercut
  <2>1. PICK p \in 1 .. Len(Idle) + 1 : /\ walk.at = At(Idle, Pool, p)
                                        /\ Within(walk.i + (Len(Idle) + 1 - p))
    BY <1>2 DEF PoolInv, WalkInv, OnTheWay
  <2>2. OnTheWay'
    BY <2>1 DEF OnTheWay, Within, At
  <2> QED BY <1>2, <2>2 DEF WalkInv
<1>3. CASE walk.st = "walking" /\ undercut
  <2>1. OffTheWay
    BY <1>3 DEF PoolInv, WalkInv
  <2>2. OffTheWay'
    BY <2>1 DEF OffTheWay
  <2> QED BY <1>3, <2>2 DEF WalkInv
<1> QED BY <1>1, <1>2, <1>3

-----------------------------------------------------------------------------
(* The event loop outside get_connection. *)

\* Outside get_connection there is no local list.
LEMMA NoneAside ==
  /\ pc \notin {"search", "closing"} => Aside = <<>> /\ Range(Aside) = {}
  /\ pc' \notin {"search", "closing"} => Aside' = <<>> /\ Range(Aside)' = {}
BY DEF Aside, Range

LEMMA AllocateInv ==
  ASSUME PoolInv, NEW c \in Conns, Allocate(c)
  PROVE  PoolInv'
<1>1. /\ pc = "run" /\ c \notin live /\ live' = live \union {c} /\ held' = held \union {c}
      /\ UNCHANGED <<l, dead, pc, cursor, walk, undercut>>
  BY DEF Allocate
<1>2. Idle' = Idle /\ Aside' = <<>> /\ Aside = <<>> /\ Range(Aside) = {} /\ Leaving = {} /\ Leaving' = {}
  BY <1>1, NoneAside DEF Idle, Leaving
<1>3. TypeOK'
  BY <1>1 DEF PoolInv, PlacesInv, TypeOK
<1>4. PlacesInv'
  BY <1>1, <1>2, <1>3, PoolFacts DEF PoolInv, PlacesInv
<1>5. LinksInv'
  BY <1>1, <1>2 DEF PoolInv, LinksInv
<1>6. WalkInv'
  BY <1>1, <1>2, WalkKept
<1> QED BY <1>4, <1>5, <1>6 DEF PoolInv

LEMMA ReleaseDeadInv ==
  ASSUME PoolInv, NEW c \in Conns, ReleaseDead(c)
  PROVE  PoolInv' /\ Idle' = Idle /\ c \notin Range(Idle)
<1>1. /\ pc = "run" /\ c \in held /\ held' = held \ {c}
      /\ l' = Cleared(l, c) /\ live' = live \ {c} /\ dead' = dead \ {c}
      /\ UNCHANGED <<pc, cursor, walk, undercut>>
  BY DEF ReleaseDead, Free
<1>2. l \in Links /\ c \in Nodes /\ c \notin Range(Idle) /\ c # Pool /\ Range(Idle) \subseteq Nodes
  BY <1>1, PoolFacts DEF PoolInv, PlacesInv
<1>3. l' \in Links /\ \A x \in Nodes : l'[x] = IF x = c THEN Unlinked ELSE l[x]
  BY <1>1, <1>2, ClearedFields
<1>4. Ring(l', Pool, Idle) /\ Idle' = Idle
  BY <1>1, <1>2, <1>3, PoolAssumption, IdleKept
<1>5. Aside' = <<>> /\ Aside = <<>> /\ Range(Aside) = {} /\ Leaving = {} /\ Leaving' = {}
  BY <1>1, NoneAside DEF Leaving
<1>6. TypeOK'
  BY <1>1, <1>3 DEF PoolInv, PlacesInv, TypeOK
<1>7. PlacesInv'
  BY <1>1, <1>4, <1>5, <1>6 DEF PoolInv, PlacesInv
<1>8. LinksInv'
  BY <1>1, <1>4 DEF PoolInv, LinksInv
<1>9. WalkInv'
  BY <1>1, <1>3, <1>4, WalkKept, PoolFacts DEF Unlinked
<1> QED BY <1>2, <1>4, <1>7, <1>8, <1>9 DEF PoolInv

LEMMA ReleaseAliveInv ==
  ASSUME PoolInv, NEW c \in Conns, ReleaseAlive(c)
  PROVE  PoolInv' /\ Idle' = Append(Idle, c)
<1>1. /\ pc = "run" /\ walk.st = "no" /\ c \in held /\ held' = held \ {c}
      /\ l' = ListAddTail(l, c, Pool)
      /\ UNCHANGED <<live, dead, pc, cursor, walk, undercut>>
  BY DEF ReleaseAlive, MutexFree
<1>2. /\ l \in Links /\ c \in Nodes \ {Pool} /\ c \notin Range(Idle)
      /\ Pool \in Nodes /\ Ring(l, Pool, Idle)
  BY <1>1, PoolFacts, PoolAssumption DEF PoolInv, PlacesInv, LinksInv
<1>3. l' \in Links /\ Ring(l', Pool, Append(Idle, c))
  BY <1>1, <1>2, RingAddTail
<1>4. Range(Append(Idle, c)) = Range(Idle) \union {c}
  BY <1>2, PoolFacts, AppendEntries
<1>5. Idle' = Append(Idle, c)
  BY <1>2, <1>3, RingForward DEF Idle
<1>6. Aside' = <<>> /\ Aside = <<>> /\ Range(Aside) = {} /\ Leaving = {} /\ Leaving' = {}
  BY <1>1, NoneAside DEF Leaving
<1>7. TypeOK'
  BY <1>1, <1>3 DEF PoolInv, PlacesInv, TypeOK
<1>8. PlacesInv'
  BY <1>1, <1>4, <1>5, <1>6, <1>7 DEF PoolInv, PlacesInv
<1>9. LinksInv'
  BY <1>1, <1>3, <1>5 DEF PoolInv, LinksInv
<1>10. WalkInv'
  BY <1>1 DEF WalkInv
<1> QED BY <1>5, <1>8, <1>9, <1>10 DEF PoolInv

LEMMA MarkInv ==
  ASSUME PoolInv, NEW c \in Conns, Mark(c)
  PROVE  PoolInv' /\ Idle' = Idle
<1>1. /\ pc = "run" /\ c \in ToSet(Idle) /\ dead' = dead \union {c}
      /\ UNCHANGED <<l, live, pc, cursor, held, walk, undercut>>
  BY DEF Mark, Idle
<1>2. Idle' = Idle /\ c \in Range(Idle)
  BY <1>1 DEF Idle, ToSet, Range
<1>3. Aside' = Aside /\ Leaving' = Leaving
  BY <1>1, NoneAside DEF Leaving
<1>4. TypeOK'
  BY <1>1, <1>2, PoolFacts DEF PoolInv, PlacesInv, TypeOK
<1>5. PlacesInv'
  BY <1>1, <1>2, <1>3, <1>4 DEF PoolInv, PlacesInv
<1>6. LinksInv'
  BY <1>1, <1>2 DEF PoolInv, LinksInv
<1>7. WalkInv'
  BY <1>1, <1>2, WalkKept
<1> QED BY <1>2, <1>5, <1>6, <1>7 DEF PoolInv

-----------------------------------------------------------------------------
(* release_keepalive_connection. *)

LEMMA ReleaseKeepaliveInv ==
  ASSUME PoolInv, NEW c \in Conns, ReleaseKeepalive(c)
  PROVE  PoolInv' /\ Idle' = Idle
<1>1. /\ pc = "run" /\ c \in ToSet(Idle) /\ pc' = "backward" /\ cursor' = c
      /\ UNCHANGED <<l, live, dead, held, walk, undercut>>
  BY DEF ReleaseKeepalive, Idle
<1>2. Idle' = Idle /\ c \in Range(Idle)
  BY <1>1 DEF Idle, ToSet, Range
<1>3. Aside = <<>> /\ Range(Aside) = {} /\ Leaving = {}
  BY <1>1, NoneAside DEF Leaving
<1>4. Aside' = <<>> /\ Range(Aside)' = {} /\ Leaving' = {}
  BY <1>1, NoneAside DEF Leaving
<1>5. TypeOK'
  BY <1>1, PoolFacts DEF PoolInv, PlacesInv, TypeOK
<1>6. PlacesInv'
  BY <1>1, <1>2, <1>3, <1>4, <1>5 DEF PoolInv, PlacesInv
<1>7. LinksInv'
  BY <1>1, <1>2 DEF PoolInv, LinksInv
<1>8. WalkInv'
  BY <1>1, <1>2, WalkKept
<1> QED BY <1>2, <1>6, <1>7, <1>8 DEF PoolInv

LEMMA UnlinksBackwardInv ==
  ASSUME PoolInv, UnlinksBackward
  PROVE  PoolInv' /\ Idle' = Idle
<1>1. /\ pc = "backward" /\ l' = UnlinkBackward(l, cursor) /\ pc' = "forward"
      /\ UNCHANGED <<live, dead, cursor, held, walk, undercut>>
  BY DEF UnlinksBackward
<1>2. l \in Links /\ Ring(l, Pool, Idle) /\ cursor \in Range(Idle) /\ Pool \in Nodes
  BY <1>1, PoolFacts, PoolAssumption DEF PoolInv, LinksInv
<1>3. PICK k \in 1 .. Len(Idle) : cursor = Idle[k]
  BY <1>2, PoolFacts DEF Range
<1>4. l' \in Links /\ \A x \in Nodes : l'[x].next = l[x].next
  BY <1>1, <1>2, <1>3, RingUnlink
<1>5. Idle' = Idle
  <2>1. Nexts(l') = Nexts(l) /\ l'[Pool].next = l[Pool].next
    BY <1>2, <1>4 DEF Nexts
  <2> QED BY <2>1 DEF Idle, Forward
<1>6. Relinked' = l
  <2>1. k \in 0 .. Len(Idle) /\ At(Idle, Pool, k) = cursor /\ At(Idle, Pool, k + 1) \in Nodes
    BY <1>2, <1>3, PoolFacts, Entries
  <2>2. l[cursor].next \in Nodes /\ l[l[cursor].next].prev = cursor /\ cursor \in Nodes
    BY <1>2, <1>3, <2>1, PoolFacts DEF Ring
  <2>3. l'[cursor].next = l[cursor].next
    BY <1>4, <2>2
  <2>4. Relinked' = [l' EXCEPT ![l[cursor].next].prev = cursor]
    BY <1>1, <2>3 DEF Relinked
  <2> QED BY <1>1, <1>2, <2>2, <2>4 DEF UnlinkBackward, Links
<1>7. Aside = <<>> /\ Range(Aside) = {} /\ Leaving = {}
  BY <1>1, NoneAside DEF Leaving
<1>8. Aside' = <<>> /\ Range(Aside)' = {} /\ Leaving' = {}
  BY <1>1, NoneAside DEF Leaving
<1>9. TypeOK'
  BY <1>1, <1>4 DEF PoolInv, PlacesInv, TypeOK
<1>10. PlacesInv'
  BY <1>1, <1>5, <1>7, <1>8, <1>9 DEF PoolInv, PlacesInv
<1>11. LinksInv'
  BY <1>1, <1>2, <1>5, <1>6 DEF LinksInv
<1>12. WalkInv'
  BY <1>1, <1>4, <1>5, WalkKept, PoolFacts
<1> QED BY <1>5, <1>10, <1>11, <1>12 DEF PoolInv

\* What is still ahead, when the list is one entry shorter.
LEMMA OneLess ==
  ASSUME NEW n \in Nat, NEW b \in Nat, NEW d \in Nat, NEW w \in Nat, NEW p \in Int,
         b - d <= w + (n + 1 - p), w + (n + 1 - p) <= b
  PROVE  /\ b - (d + 1) <= w + ((n - 1) + 1 - p) /\ w + ((n - 1) + 1 - p) <= b
         /\ b - (d + 1) <= w + 1 + ((n - 1) + 1 - p) /\ w + 1 + ((n - 1) + 1 - p) <= b
         /\ b - (d + 1) <= w + ((n - 1) + 1 - (p - 1)) /\ w + ((n - 1) + 1 - (p - 1)) <= b
OBVIOUS

\* Where the statistics are when an entry is taken out of the list: those that
\* have passed it, or are at it, go on as before; the others count one less.
LEMMA UnlinksForwardWalk ==
  ASSUME NEW k \in 1 .. Len(Idle), PoolInv, Idle' = RemoveAt(Idle, k),
         pc = "forward", pc' = "clear", cursor = Idle[k], cursor' = cursor,
         l'[cursor].next = l[cursor].next,
         \A x \in Conns : l[x].next = NULL => l'[x].next = NULL,
         walk' = [walk EXCEPT !.removed = IF walk.st = "walking" THEN @ + 1 ELSE @],
         undercut' = undercut
  PROVE  WalkInv'
<1> DEFINE n == Len(Idle)
<1>1. walk \in WalkType
  BY DEF PoolInv, PlacesInv, TypeOK
<1>2. CASE walk.st # "walking"
  BY <1>1, <1>2 DEF PoolInv, WalkInv, WalkType
<1>3. CASE walk.st = "walking" /\ ~undercut
  <2>1. PICK p \in 1 .. n + 1 : walk.at = At(Idle, Pool, p) /\ Within(walk.i + (n + 1 - p))
    BY <1>3 DEF PoolInv, WalkInv, OnTheWay
  <2>2. /\ walk'.st = "walking" /\ walk'.at = walk.at /\ walk'.i = walk.i
        /\ walk'.begun = walk.begun /\ walk'.removed = walk.removed + 1
        /\ walk.i \in Nat /\ walk.begun \in Nat /\ walk.removed \in Nat
    BY <1>1, <1>3 DEF WalkType
  <2>3. /\ n \in Nat /\ Pool \in Nodes /\ Idle \in Seq(Nodes \ {Pool}) /\ IsInjective(Idle)
        /\ At(Idle, Pool, k) = cursor
        /\ \A i \in 0 .. n : l[At(Idle, Pool, i)].next = At(Idle, Pool, i + 1)
    BY PoolFacts, PoolAssumption DEF At
  <2>4. /\ Len(Idle') = n - 1
        /\ \A i \in 0 .. n : At(Idle', Pool, i) =
                               IF i < k THEN At(Idle, Pool, i) ELSE At(Idle, Pool, i + 1)
    BY <2>3, RemoveEntriesAt
  <2> DEFINE b == walk.begun
             d == walk.removed
             w == walk.i
             m == Len(Idle')
  <2>5. b - d <= w + (n + 1 - p) /\ w + (n + 1 - p) <= b
    BY <2>1 DEF Within
  <2>6. /\ b \in Nat /\ d \in Nat /\ w \in Nat /\ n \in Nat /\ m = n - 1
        /\ walk'.begun = b /\ walk'.removed = d + 1 /\ walk'.i = w
        /\ k \in 1 .. n /\ p \in 1 .. n + 1
    BY <2>2, <2>3, <2>4
  <2>7. OnTheWay'
    <3> HIDE DEF n, b, d, w, m
    <3>1. /\ b - (d + 1) <= w + (m + 1 - p) /\ w + (m + 1 - p) <= b
          /\ b - (d + 1) <= w + 1 + (m + 1 - p) /\ w + 1 + (m + 1 - p) <= b
          /\ b - (d + 1) <= w + (m + 1 - (p - 1)) /\ w + (m + 1 - (p - 1)) <= b
      <4>1. p \in Int /\ m = n - 1
        BY <2>6
      <4>2. /\ b - (d + 1) <= w + ((n - 1) + 1 - p) /\ w + ((n - 1) + 1 - p) <= b
            /\ b - (d + 1) <= w + 1 + ((n - 1) + 1 - p) /\ w + 1 + ((n - 1) + 1 - p) <= b
            /\ b - (d + 1) <= w + ((n - 1) + 1 - (p - 1)) /\ w + ((n - 1) + 1 - (p - 1)) <= b
        BY <2>5, <2>6, <4>1, OneLess
      <4> QED BY <4>1, <4>2
    <3>2. CASE p < k
      <4>1. p \in 0 .. n /\ p \in 1 .. n
        BY <2>6, <3>2
      <4>2. At(Idle', Pool, p) = walk'.at
        BY <2>1, <2>2, <2>4, <3>2, <4>1
      <4>3. p \in 1 .. Len(Idle') + 1
        BY <2>6, <4>1 DEF m
      <4> QED BY <2>6, <3>1, <4>2, <4>3 DEF OnTheWay, Within, m
    <3>3. CASE p = k
      <4>1. k \in 0 .. n /\ ~(k < k)
        BY <2>6
      <4>2. l'[cursor].next = At(Idle', Pool, k) /\ walk'.at = cursor
        BY <2>1, <2>2, <2>3, <2>4, <3>3, <4>1
      <4>3. k \in 1 .. Len(Idle') + 1
        BY <2>6 DEF m
      <4> QED BY <2>6, <3>1, <3>3, <4>2, <4>3 DEF OnTheWay, Within, m
    <3>4. CASE k < p
      <4>1. p - 1 \in 0 .. n /\ p - 1 \in 1 .. n /\ ~(p - 1 < k) /\ (p - 1) + 1 = p
        BY <2>6, <3>4
      <4>2. At(Idle', Pool, p - 1) = walk'.at
        BY <2>1, <2>2, <2>4, <4>1
      <4>3. p - 1 \in 1 .. Len(Idle') + 1
        BY <2>6, <4>1 DEF m
      <4> QED BY <2>6, <3>1, <4>2, <4>3 DEF OnTheWay, Within, m
    <3>5. p < k \/ p = k \/ k < p
      BY <2>6
    <3> QED BY <3>2, <3>3, <3>4, <3>5
  <2> QED BY <1>3, <2>2, <2>7 DEF WalkInv
<1>4. CASE walk.st = "walking" /\ undercut
  <2>1. OffTheWay
    BY <1>4 DEF PoolInv, WalkInv
  <2>2. walk'.at = walk.at /\ walk'.i = walk.i /\ walk'.begun = walk.begun
    BY <1>1 DEF WalkType
  <2>3. Range(Idle') \subseteq Range(Idle)
    <3>1. Pool \in Nodes /\ Idle \in Seq(Nodes \ {Pool}) /\ IsInjective(Idle)
      BY PoolFacts, PoolAssumption
    <3> QED BY <3>1, RemoveEntriesAt
  <2>4. OffTheWay'
    BY <2>1, <2>2, <2>3 DEF OffTheWay
  <2> QED BY <1>4, <2>4 DEF WalkInv
<1> QED BY <1>2, <1>3, <1>4

LEMMA UnlinksForwardInv ==
  ASSUME PoolInv, UnlinksForward
  PROVE  PoolInv' /\ cursor \in Range(Idle) /\
         \E k \in 1 .. Len(Idle) : cursor = Idle[k] /\ Idle' = RemoveAt(Idle, k)
<1>1. /\ pc = "forward" /\ l' = UnlinkForward(l, cursor) /\ pc' = "clear"
      /\ walk' = [walk EXCEPT !.removed = IF walk.st = "walking" THEN @ + 1 ELSE @]
      /\ UNCHANGED <<live, dead, cursor, held, undercut>>
  BY DEF UnlinksForward
<1>2. /\ l \in Links /\ Ring(Relinked, Pool, Idle) /\ l = UnlinkBackward(Relinked, cursor)
      /\ cursor \in Range(Idle) /\ cursor \in Nodes /\ Pool \in Nodes
  BY <1>1, PoolFacts, PoolAssumption DEF PoolInv, LinksInv
<1>3. PICK k \in 1 .. Len(Idle) : cursor = Idle[k]
  BY <1>2, PoolFacts DEF Range
<1>4. Relinked \in Links
  BY <1>2 DEF Relinked, Links
<1>5. /\ l' \in Links /\ Ring(l', Pool, RemoveAt(Idle, k))
      /\ l'[cursor] = Relinked[cursor]
      /\ \A x \in Nodes : l[x].next = Relinked[x].next
      /\ \A x \in Nodes \ (Range(Idle) \union {Pool}) : l'[x] = Relinked[x] /\ l[x] = Relinked[x]
  BY <1>1, <1>2, <1>3, <1>4, RingUnlink
<1>6. Idle' = RemoveAt(Idle, k)
  BY <1>2, <1>5, RingForward DEF Idle
<1>7. Range(Idle)' = Range(Idle) \ {cursor}
  BY <1>2, <1>3, <1>6, RemoveEntriesAt, PoolFacts
<1>8. Aside = <<>> /\ Range(Aside) = {} /\ Leaving = {}
  BY <1>1, NoneAside DEF Leaving
<1>9. Aside' = <<>> /\ Range(Aside)' = {} /\ Leaving' = {cursor}
  BY <1>1, NoneAside DEF Leaving
<1>10. TypeOK'
  BY <1>1, <1>5 DEF PoolInv, PlacesInv, TypeOK, WalkType
<1>11. PlacesInv'
  BY <1>1, <1>2, <1>7, <1>8, <1>9, <1>10 DEF PoolInv, PlacesInv
<1>12. LinksInv'
  BY <1>1, <1>5, <1>6 DEF LinksInv
<1>13. \A x \in Conns : l[x].next = NULL => l'[x].next = NULL
  <2> SUFFICES ASSUME NEW x \in Conns, l[x].next = NULL PROVE l'[x].next = NULL
    OBVIOUS
  <2>1. x \in Nodes /\ x # Pool
    BY DEF Conns
  <2>2. x \notin Range(Idle)
    <3> SUFFICES ASSUME x \in Range(Idle) PROVE FALSE
      OBVIOUS
    <3>1. PICK i \in 1 .. Len(Idle) : x = Idle[i]
      BY PoolFacts DEF Range
    <3>2. i \in 0 .. Len(Idle) /\ i + 1 \in Int /\ At(Idle, Pool, i) = x
      BY <3>1, PoolFacts DEF At
    <3>3. At(Idle, Pool, i + 1) \in Nodes
      BY <1>2, <3>2, PoolFacts, Entries
    <3> QED BY <3>2, <3>3, PoolFacts, ListAssumption
  <2> QED BY <1>5, <2>1, <2>2
<1>14. l'[cursor].next = l[cursor].next
  BY <1>2, <1>5
<1>15. WalkInv'
  BY <1>1, <1>3, <1>6, <1>13, <1>14, UnlinksForwardWalk
<1> QED BY <1>2, <1>3, <1>6, <1>11, <1>12, <1>15 DEF PoolInv

\* As long as it has not been undercut, the statistics' cursor is not at an
\* entry that is off the list, but for one whose links are still there.
LEMMA CursorOnList ==
  ASSUME PoolInv, walk.st = "walking", ~undercut, pc \in {"clear", "free"},
         walk.at = cursor
  PROVE  pc = "clear" /\ walk.i < walk.begun
<1>1. PICK p \in 1 .. Len(Idle) + 1 :
        \/ walk.at = At(Idle, Pool, p)
        \/ pc = "clear" /\ Within(walk.i + 1 + (Len(Idle) + 1 - p))
  BY DEF PoolInv, WalkInv, OnTheWay
<1>2. cursor \notin Range(Idle) /\ cursor # Pool
  BY PoolFacts DEF PoolInv, PlacesInv, Leaving
<1>3. At(Idle, Pool, p) \in Range(Idle) \union {Pool}
  BY DEF At, Range
<1>4. pc = "clear" /\ walk.i + 1 + (Len(Idle) + 1 - p) <= walk.begun
  BY <1>1, <1>2, <1>3 DEF Within
<1>5. walk.i \in Nat /\ walk.begun \in Nat /\ Len(Idle) \in Nat
  BY PoolFacts DEF PoolInv, PlacesInv, TypeOK, WalkType
<1> QED BY <1>4, <1>5

LEMMA ClearsInv ==
  ASSUME PoolInv, Clears
  PROVE  PoolInv' /\ Idle' = Idle
<1>1. /\ pc = "clear" /\ l' = Cleared(l, cursor) /\ pc' = "free"
      /\ undercut' = (undercut \/ (walk.st = "walking" /\ walk.at = cursor))
      /\ UNCHANGED <<live, dead, cursor, held, walk>>
  BY DEF Clears, Undercuts
<1>2. /\ l \in Links /\ cursor \in Conns /\ cursor \in Nodes
      /\ cursor \notin Range(Idle) /\ cursor # Pool /\ Range(Idle) \subseteq Nodes
  BY <1>1, PoolFacts DEF PoolInv, PlacesInv, Leaving
<1>3. l' \in Links /\ \A x \in Nodes : l'[x] = IF x = cursor THEN Unlinked ELSE l[x]
  BY <1>1, <1>2, ClearedFields
<1>4. Ring(l', Pool, Idle) /\ Idle' = Idle
  BY <1>1, <1>2, <1>3, PoolAssumption, IdleKept
<1>5. Aside' = <<>> /\ Aside = <<>> /\ Leaving = {cursor} /\ Leaving' = {cursor}
  BY <1>1, NoneAside DEF Leaving
<1>6. TypeOK'
  BY <1>1, <1>3 DEF PoolInv, PlacesInv, TypeOK
<1>7. PlacesInv'
  BY <1>1, <1>4, <1>5, <1>6 DEF PoolInv, PlacesInv
<1>8. LinksInv'
  BY <1>1, <1>4 DEF PoolInv, LinksInv
<1>9. WalkInv'
  <2>1. CASE walk.st # "walking"
    BY <1>1, <2>1 DEF PoolInv, WalkInv
  <2>2. CASE walk.st = "walking" /\ ~undercut /\ walk.at = cursor
    <3>1. walk.i < walk.begun
      BY <1>1, <2>2, CursorOnList
    <3>2. OffTheWay'
      BY <1>1, <1>2, <1>3, <1>4, <2>2, <3>1 DEF OffTheWay, Unlinked
    <3> QED BY <1>1, <2>2, <3>2 DEF WalkInv
  <2>3. CASE walk.st = "walking" /\ ~undercut /\ walk.at # cursor
    <3>1. PICK p \in 1 .. Len(Idle) + 1 : /\ walk.at = At(Idle, Pool, p)
                                          /\ Within(walk.i + (Len(Idle) + 1 - p))
      BY <2>3 DEF PoolInv, WalkInv, OnTheWay
    <3>2. OnTheWay'
      BY <1>1, <1>4, <3>1 DEF OnTheWay, Within, At
    <3> QED BY <1>1, <2>3, <3>2 DEF WalkInv
  <2>4. CASE walk.st = "walking" /\ undercut
    <3>1. OffTheWay
      BY <2>4 DEF PoolInv, WalkInv
    <3>2. OffTheWay'
      BY <1>1, <1>3, <1>4, <3>1, PoolFacts DEF OffTheWay, Unlinked
    <3> QED BY <1>1, <2>4, <3>2 DEF WalkInv
  <2> QED BY <2>1, <2>2, <2>3, <2>4
<1> QED BY <1>4, <1>7, <1>8, <1>9 DEF PoolInv

LEMMA FreesInv ==
  ASSUME PoolInv, Frees
  PROVE  PoolInv' /\ Idle' = Idle /\ dead' = dead \ {cursor} /\ cursor \notin Range(Idle)
<1>1. /\ pc = "free" /\ l' = Cleared(l, cursor) /\ pc' = "run" /\ cursor' = NULL
      /\ live' = live \ {cursor} /\ dead' = dead \ {cursor}
      /\ undercut' = (undercut \/ (walk.st = "walking" /\ walk.at = cursor))
      /\ UNCHANGED <<held, walk>>
  BY DEF Frees, Free, Undercuts
<1>2. /\ l \in Links /\ cursor \in Nodes
      /\ cursor \notin Range(Idle) /\ cursor # Pool /\ Range(Idle) \subseteq Nodes
  BY <1>1, PoolFacts DEF PoolInv, PlacesInv, Leaving
<1>3. l' \in Links /\ \A x \in Nodes : l'[x] = IF x = cursor THEN Unlinked ELSE l[x]
  BY <1>1, <1>2, ClearedFields
<1>4. Ring(l', Pool, Idle) /\ Idle' = Idle
  BY <1>1, <1>2, <1>3, PoolAssumption, IdleKept
<1>5. Aside' = <<>> /\ Aside = <<>> /\ Leaving = {cursor} /\ Leaving' = {}
  BY <1>1, NoneAside DEF Leaving
<1>6. undercut' = undercut
  BY <1>1, CursorOnList DEF PoolInv, PlacesInv, TypeOK
<1>7. TypeOK'
  BY <1>1, <1>3, <1>5, <1>6 DEF PoolInv, PlacesInv, TypeOK
<1>8. PlacesInv'
  BY <1>1, <1>4, <1>5, <1>7 DEF PoolInv, PlacesInv
<1>9. LinksInv'
  BY <1>1, <1>4 DEF PoolInv, LinksInv
<1>10. WalkInv'
  BY <1>1, <1>3, <1>4, <1>6, WalkKept, PoolFacts DEF Unlinked
<1> QED BY <1>1, <1>2, <1>4, <1>8, <1>9, <1>10 DEF PoolInv

-----------------------------------------------------------------------------
(* get_connection. *)

LEMMA GetConnectionInv ==
  ASSUME PoolInv, GetConnection
  PROVE  PoolInv' /\ Idle' = Idle /\ Aside' = <<>>
<1>1. /\ pc = "run" /\ walk.st = "no" /\ l' = InitListHead(l, Invalid)
      /\ cursor' = l[Pool].next /\ pc' = "search"
      /\ UNCHANGED <<live, dead, held, walk, undercut>>
  BY DEF GetConnection, MutexFree
<1>2. /\ l \in Links /\ Invalid \in Nodes /\ Pool \in Nodes /\ Pool # Invalid
      /\ Invalid \notin Range(Idle) /\ Range(Idle) \subseteq Nodes
  BY PoolFacts, PoolAssumption
<1>3. /\ l' \in Links /\ Ring(l', Invalid, <<>>)
      /\ \A x \in Nodes \ {Invalid} : l'[x] = l[x]
  BY <1>1, <1>2, RingInit
<1>4. Ring(l', Pool, Idle) /\ Idle' = Idle
  BY <1>1, <1>2, <1>3, IdleKept
<1>5. Aside' = <<>>
  BY <1>1, <1>2, <1>3, RingForward DEF Aside
<1>6. Aside = <<>> /\ Range(Aside) = {} /\ Leaving = {}
  BY <1>1, NoneAside DEF Leaving
<1>7. Range(Aside)' = {} /\ Leaving' = {}
  BY <1>1, <1>5 DEF Leaving, Range
<1>8. TypeOK'
  BY <1>1, <1>2, <1>3 DEF PoolInv, PlacesInv, TypeOK, Links
<1>9. PlacesInv'
  BY <1>1, <1>4, <1>6, <1>7, <1>8 DEF PoolInv, PlacesInv
<1>10. cursor' = l'[Pool].next
  BY <1>1, <1>2, <1>3
<1>11. LinksInv'
  BY <1>1, <1>3, <1>4, <1>5, <1>7, <1>10 DEF PoolInv, LinksInv
<1>12. WalkInv'
  BY <1>1 DEF WalkInv
<1> QED BY <1>4, <1>5, <1>9, <1>11, <1>12 DEF PoolInv

\* What the search looks at is the first entry, or the head if there is none.
LEMMA SearchFirst ==
  ASSUME PoolInv, pc = "search"
  PROVE  /\ cursor = Pool <=> Len(Idle) = 0
         /\ cursor # Pool => /\ 1 \in 1 .. Len(Idle) /\ cursor = Idle[1]
                             /\ cursor \in Range(Idle) /\ cursor \in Conns
<1>1. cursor = At(Idle, Pool, 1)
  BY PoolFacts DEF PoolInv, LinksInv
<1>2. CASE Len(Idle) = 0
  BY <1>1, <1>2, PoolFacts DEF At
<1>3. CASE Len(Idle) # 0
  <2>1. 1 \in 1 .. Len(Idle)
    BY <1>3, PoolFacts
  <2>2. cursor = Idle[1] /\ Idle[1] \in Range(Idle)
    BY <1>1, <2>1, PoolFacts DEF At, Range
  <2> QED BY <1>3, <2>1, <2>2, PoolFacts
<1> QED BY <1>2, <1>3

\* The local list shares nothing with the pool's.
LEMMA AsideFacts ==
  ASSUME PoolInv, pc = "search"
  PROVE  /\ Ring(l, Invalid, Aside) /\ Invalid \in Nodes /\ Pool \in Nodes
         /\ Aside \in Seq(Nodes \ {Invalid}) /\ IsInjective(Aside)
         /\ Range(Aside) \subseteq Nodes \ {Pool, Invalid}
         /\ \A x \in Range(Aside) \union {Invalid} :
              x \in Nodes /\ x \notin Range(Idle) \union {Pool}
BY PoolFacts, PoolAssumption DEF PoolInv, LinksInv, PlacesInv, Ring

LEMMA SetAsideInv ==
  ASSUME PoolInv, SetAside
  PROVE  /\ PoolInv' /\ 1 \in 1 .. Len(Idle)
         /\ Idle' = RemoveAt(Idle, 1) /\ Aside' = Append(Aside, Idle[1])
<1> DEFINE m == ListDel(l, cursor)
<1>1. /\ pc = "search" /\ cursor # Pool /\ ~Reusable(cursor)
      /\ l' = ListAddTail(m, cursor, Invalid) /\ cursor' = l[cursor].next
      /\ UNCHANGED <<live, dead, pc, held, walk, undercut>>
  BY DEF SetAside
<1>2. /\ l \in Links /\ Ring(l, Pool, Idle) /\ 1 \in 1 .. Len(Idle) /\ cursor = Idle[1]
      /\ cursor \in Range(Idle) /\ cursor \in Conns /\ cursor \in dead
      /\ Pool \in Nodes /\ Idle \in Seq(Nodes \ {Pool}) /\ IsInjective(Idle)
      /\ cursor \in Nodes \ {Invalid} /\ cursor \notin Range(Aside)
  BY <1>1, SearchFirst, PoolFacts, PoolAssumption
     DEF PoolInv, LinksInv, PlacesInv, Reusable, Conns
<1>3. /\ m \in Links /\ Ring(m, Pool, RemoveAt(Idle, 1))
      /\ \A x \in Nodes \ (Range(Idle) \union {Pool}) : m[x] = l[x]
  BY <1>2, RingDel
<1> HIDE DEF m
<1>4. Ring(m, Invalid, Aside)
  BY <1>1, <1>3, AsideFacts, RingApart
<1>5. /\ l' \in Links /\ Ring(l', Invalid, Append(Aside, cursor))
      /\ \A x \in Nodes \ (Range(Aside) \union {Invalid, cursor}) : l'[x] = m[x]
  BY <1>1, <1>2, <1>3, <1>4, AsideFacts, RingAddTail
<1>6. /\ Range(RemoveAt(Idle, 1)) = Range(Idle) \ {cursor}
      /\ At(RemoveAt(Idle, 1), Pool, 1) = At(Idle, Pool, 2)
      /\ l[cursor].next = At(Idle, Pool, 2)
  <2>1. 1 \in 0 .. Len(Idle) /\ ~(1 < 1) /\ 1 + 1 = 2 /\ At(Idle, Pool, 1) = cursor
    BY <1>2, PoolFacts DEF At
  <2> QED BY <1>2, <2>1, RemoveEntriesAt, PoolFacts
<1>7. Ring(l', Pool, RemoveAt(Idle, 1))
  <2> DEFINE r == RemoveAt(Idle, 1)
             n == l'
  <2>1. \A x \in Range(r) \union {Pool} : n[x] = m[x]
    <3>1. Range(r) \union {Pool} \subseteq Nodes \ (Range(Aside) \union {Invalid, cursor})
      BY <1>1, <1>2, <1>6, AsideFacts, PoolFacts, PoolAssumption
    <3> QED BY <1>5, <3>1
  <2> HIDE DEF r, n
  <2>2. Ring(m, Pool, r)
    BY <1>3 DEF r
  <2>3. Ring(n, Pool, r)
    BY <1>2, <2>1, <2>2, RingApart
  <2> QED BY <2>3 DEF r, n
<1>8. Idle' = RemoveAt(Idle, 1)
  BY <1>2, <1>5, <1>7, RingForward DEF Idle
<1>9. Aside' = Append(Aside, cursor)
  BY <1>1, <1>5, AsideFacts, RingForward DEF Aside
<1>10. Range(Append(Aside, cursor)) = Range(Aside) \union {cursor}
  BY <1>1, <1>2, AsideFacts, AppendEntries
<1>11. TypeOK'
  <2>1. At(Idle, Pool, 2) \in Nodes
    BY <1>2, Entries
  <2> QED BY <1>1, <1>5, <1>6, <2>1 DEF PoolInv, PlacesInv, TypeOK
<1>12. Leaving = {} /\ Leaving' = {}
  BY <1>1 DEF Leaving
<1>13. PlacesInv'
  <2>1. Range(Idle)' = Range(Idle) \ {cursor} /\ Range(Aside)' = Range(Aside) \union {cursor}
    BY <1>6, <1>8, <1>9, <1>10
  <2> QED BY <1>1, <1>2, <1>11, <1>12, <2>1 DEF PoolInv, PlacesInv
<1>14. LinksInv'
  <2>1. cursor' = l'[Pool].next
    <3>1. Path(Nexts(l'), l'[Pool].next, Pool, RemoveAt(Idle, 1))
      BY <1>2, <1>5, <1>7, RingForward
    <3> QED BY <1>1, <1>6, <3>1 DEF Path
  <2>2. Range(Aside)' \subseteq dead'
    BY <1>1, <1>2, <1>9, <1>10 DEF PoolInv, LinksInv
  <2> QED BY <1>1, <1>5, <1>7, <1>8, <1>9, <2>1, <2>2 DEF LinksInv
<1>15. WalkInv'
  BY <1>1 DEF PoolInv, WalkInv
<1> QED BY <1>2, <1>8, <1>9, <1>13, <1>14, <1>15 DEF PoolInv

\* The entries set aside are those that will be closed.
LEMMA SearchEndsAside ==
  ASSUME PoolInv, pc = "search", SearchEnds, l' \in Links, Ring(l', Invalid, Aside)
  PROVE  Path(Nexts(l'), cursor', Invalid, Aside) /\ Aside' = Aside
<1>1. cursor' = l'[Invalid].next /\ pc' = "closing" /\ Invalid \in Nodes
  BY PoolAssumption DEF SearchEnds
<1>2. Path(Nexts(l'), cursor', Invalid, Aside)
  <2> DEFINE q == Aside
             n == l'
             c == cursor'
  <2> HIDE DEF q, n, c
  <2>1. n \in Links /\ Ring(n, Invalid, q) /\ c = n[Invalid].next
    BY <1>1 DEF n, q, c
  <2>2. Path(Nexts(n), c, Invalid, q)
    BY <1>1, <2>1, RingForward
  <2> QED BY <2>2 DEF q, n, c
<1>3. Passed(Nexts(l'), cursor', Invalid) = Aside
  BY <1>1, <1>2, PathPassed
<1> QED BY <1>1, <1>2, <1>3 DEF Aside

LEMMA TakeFirstInv ==
  ASSUME PoolInv, TakeFirst
  PROVE  /\ PoolInv' /\ 1 \in 1 .. Len(Idle) /\ cursor = Idle[1]
         /\ Idle' = RemoveAt(Idle, 1)
<1>1. /\ pc = "search" /\ cursor # Pool /\ Reusable(cursor)
      /\ l' = ListDel(l, cursor) /\ held' = held \union {cursor}
      /\ SearchEnds /\ cursor' = l'[Invalid].next /\ pc' = "closing"
      /\ UNCHANGED <<live, dead, walk, undercut>>
  BY DEF TakeFirst, SearchEnds
<1>2. /\ l \in Links /\ Ring(l, Pool, Idle) /\ 1 \in 1 .. Len(Idle) /\ cursor = Idle[1]
      /\ cursor \in Range(Idle)
      /\ Pool \in Nodes /\ Idle \in Seq(Nodes \ {Pool}) /\ IsInjective(Idle)
  BY <1>1, SearchFirst, PoolFacts, PoolAssumption DEF PoolInv, LinksInv
<1>3. /\ l' \in Links /\ Ring(l', Pool, RemoveAt(Idle, 1))
      /\ \A x \in Nodes \ (Range(Idle) \union {Pool}) : l'[x] = l[x]
  BY <1>1, <1>2, RingDel
<1>4. Ring(l', Invalid, Aside)
  <2> DEFINE n == l'
             q == Aside
  <2>1. Ring(l, Invalid, q) /\ Invalid \in Nodes /\ \A x \in Range(q) \union {Invalid} : n[x] = l[x]
    BY <1>1, <1>3, AsideFacts
  <2> HIDE DEF n, q
  <2>2. Ring(n, Invalid, q)
    BY <2>1, RingApart
  <2> QED BY <2>2 DEF n, q
<1>5. Path(Nexts(l'), cursor', Invalid, Aside) /\ Aside' = Aside
  BY <1>1, <1>3, <1>4, SearchEndsAside
<1>6. Idle' = RemoveAt(Idle, 1)
  BY <1>2, <1>3, RingForward DEF Idle
<1>7. Range(Idle)' = Range(Idle) \ {cursor}
  BY <1>2, <1>6, RemoveEntriesAt
<1>8. Leaving = {} /\ Leaving' = {}
  BY <1>1 DEF Leaving
<1>9. TypeOK'
  <2>1. l'[Invalid].next \in Nodes \union {NULL}
    BY <1>3, PoolAssumption DEF Links
  <2> QED BY <1>1, <1>2, <1>3, <2>1, PoolFacts DEF PoolInv, PlacesInv, TypeOK
<1>10. PlacesInv'
  BY <1>1, <1>2, <1>5, <1>7, <1>8, <1>9 DEF PoolInv, PlacesInv
<1>11. LinksInv'
  BY <1>1, <1>3, <1>5, <1>6 DEF LinksInv
<1>12. WalkInv'
  BY <1>1 DEF PoolInv, WalkInv
<1> QED BY <1>2, <1>6, <1>10, <1>11, <1>12 DEF PoolInv

LEMMA TakeNoneInv ==
  ASSUME PoolInv, TakeNone
  PROVE  PoolInv' /\ Idle' = Idle /\ Idle = <<>>
<1>1. /\ pc = "search" /\ cursor = Pool /\ SearchEnds
      /\ cursor' = l'[Invalid].next /\ pc' = "closing"
      /\ UNCHANGED <<l, held, live, dead, walk, undercut>>
  BY DEF TakeNone, SearchEnds
<1>2. l' \in Links /\ Ring(l', Invalid, Aside)
  BY <1>1, AsideFacts, PoolFacts
<1>3. Path(Nexts(l'), cursor', Invalid, Aside) /\ Aside' = Aside
  BY <1>1, <1>2, SearchEndsAside
<1>4. Idle' = Idle /\ Idle = <<>>
  BY <1>1, SearchFirst, PoolFacts, EmptySeq DEF Idle
<1>5. Leaving = {} /\ Leaving' = {}
  BY <1>1 DEF Leaving
<1>6. TypeOK'
  <2>1. l'[Invalid].next \in Nodes \union {NULL}
    BY <1>2, PoolAssumption DEF Links
  <2> QED BY <1>1, <2>1 DEF PoolInv, PlacesInv, TypeOK
<1>7. PlacesInv'
  BY <1>1, <1>3, <1>4, <1>5, <1>6 DEF PoolInv, PlacesInv
<1>8. LinksInv'
  BY <1>1, <1>3, <1>4 DEF PoolInv, LinksInv
<1>9. WalkInv'
  BY <1>1 DEF PoolInv, WalkInv
<1> QED BY <1>4, <1>7, <1>8, <1>9 DEF PoolInv

\* The local list loses its first entry, which is freed.
LEMMA CloseInvalidInv ==
  ASSUME PoolInv, CloseInvalid
  PROVE  PoolInv' /\ Idle' = Idle /\ dead' = dead \ {cursor} /\ cursor \notin Range(Idle)
<1>1. /\ pc = "closing" /\ cursor # Invalid /\ cursor' = l[cursor].next
      /\ l' = Cleared(l, cursor) /\ live' = live \ {cursor} /\ dead' = dead \ {cursor}
      /\ UNCHANGED <<pc, held, walk, undercut>>
  BY DEF CloseInvalid, Free
<1>2. /\ Path(Nexts(l), cursor, Invalid, Aside) /\ Invalid \in Nodes
      /\ Aside \in Seq(Nodes \ {Invalid}) /\ IsInjective(Aside)
      /\ Len(Aside) \in Nat /\ DOMAIN Aside = 1 .. Len(Aside)
      /\ cursor = At(Aside, Invalid, 1)
  BY <1>1, PoolAssumption, Entries DEF PoolInv, LinksInv, Path
<1>3. 1 \in 1 .. Len(Aside) /\ cursor = Aside[1] /\ cursor \in Range(Aside)
  BY <1>1, <1>2 DEF At, Range
<1>4. /\ l \in Links /\ cursor \in Conns /\ cursor \in Nodes /\ cursor \in live
      /\ cursor \notin Range(Idle) /\ cursor # Pool /\ Range(Idle) \subseteq Nodes
      /\ Range(Aside) \subseteq Nodes
  BY <1>3, PoolFacts DEF PoolInv, PlacesInv
<1>5. l' \in Links /\ \A x \in Nodes : l'[x] = IF x = cursor THEN Unlinked ELSE l[x]
  BY <1>1, <1>4, ClearedFields
<1>6. Ring(l', Pool, Idle) /\ Idle' = Idle
  BY <1>1, <1>4, <1>5, PoolAssumption, IdleKept
<1> DEFINE r == RemoveAt(Aside, 1)
<1>7. /\ r \in Seq(Nodes \ {Invalid}) /\ IsInjective(r) /\ Len(r) = Len(Aside) - 1
      /\ Range(r) = Range(Aside) \ {cursor}
      /\ \A i \in 1 .. Len(Aside) : At(r, Invalid, i) = At(Aside, Invalid, i + 1)
  <2>1. \A i \in 1 .. Len(Aside) : i \in 0 .. Len(Aside) /\ ~(i < 1)
    BY <1>2
  <2> QED BY <1>2, <1>3, <2>1, RemoveEntriesAt
<1>8. \A i \in 1 .. Len(r) : r[i] = At(Aside, Invalid, i + 1) /\ r[i] \in Range(r)
  BY <1>2, <1>7, Entries
<1> HIDE DEF r
<1>9. cursor' = At(r, Invalid, 1) /\ cursor' \in Nodes
  <2>1. 2 \in Int /\ 1 + 1 = 2 /\ Nexts(l)[cursor] = l[cursor].next
    BY <1>4 DEF Nexts
  <2>2. l[cursor].next = At(Aside, Invalid, 2)
    BY <1>2, <1>3, <2>1 DEF Path
  <2>3. At(Aside, Invalid, 2) \in Nodes
    BY <1>2, <2>1, Entries
  <2> QED BY <1>1, <1>3, <1>7, <2>1, <2>2, <2>3
<1>10. \A i \in 1 .. Len(r) : Nexts(l')[r[i]] = At(r, Invalid, i + 1)
  <2> TAKE i \in 1 .. Len(r)
  <2>1. i + 1 \in 1 .. Len(Aside)
    BY <1>2, <1>7
  <2>2. r[i] = Aside[i + 1] /\ r[i] \in Nodes /\ r[i] # cursor
    BY <1>2, <1>4, <1>7, <1>8, <2>1 DEF At
  <2>3. Nexts(l')[r[i]] = Nexts(l)[r[i]]
    BY <1>5, <2>2 DEF Nexts
  <2>4. Nexts(l)[Aside[i + 1]] = At(Aside, Invalid, (i + 1) + 1)
    BY <1>2, <2>1 DEF Path
  <2> QED BY <1>7, <2>1, <2>2, <2>3, <2>4
<1>11. Path(Nexts(l'), cursor', Invalid, r)
  BY <1>7, <1>9, <1>10 DEF Path
<1>12. Aside' = r
  BY <1>1, <1>2, <1>11, PathPassed DEF Aside
<1>13. Range(Aside)' = Range(Aside) \ {cursor} /\ Leaving = {} /\ Leaving' = {}
  BY <1>1, <1>7, <1>12 DEF Leaving
<1>14. TypeOK'
  BY <1>1, <1>3, <1>5, <1>9 DEF PoolInv, PlacesInv, TypeOK
<1>15. PlacesInv'
  BY <1>1, <1>3, <1>4, <1>6, <1>13, <1>14 DEF PoolInv, PlacesInv
<1>16. LinksInv'
  BY <1>1, <1>6, <1>11, <1>12 DEF PoolInv, LinksInv
<1>17. WalkInv'
  BY <1>1, <1>5, <1>6, WalkKept, PoolFacts DEF Unlinked
<1> QED BY <1>1, <1>4, <1>6, <1>15, <1>16, <1>17 DEF PoolInv

LEMMA InvalidClosedInv ==
  ASSUME PoolInv, InvalidClosed
  PROVE  PoolInv' /\ Idle' = Idle
<1>1. /\ pc = "closing" /\ cursor = Invalid /\ pc' = "run" /\ cursor' = NULL
      /\ l' = Cleared(l, Invalid)
      /\ UNCHANGED <<live, dead, held, walk, undercut>>
  BY DEF InvalidClosed
<1>2. /\ l \in Links /\ Invalid \in Nodes /\ Invalid # Pool /\ Invalid \notin Conns
      /\ Invalid \notin Range(Idle) /\ Range(Idle) \subseteq Nodes
  BY PoolFacts, PoolAssumption DEF Conns
<1>3. l' \in Links /\ \A x \in Nodes : l'[x] = IF x = Invalid THEN Unlinked ELSE l[x]
  BY <1>1, <1>2, ClearedFields
<1>4. Ring(l', Pool, Idle) /\ Idle' = Idle
  BY <1>1, <1>2, <1>3, PoolAssumption, IdleKept
<1>5. Aside = <<>>
  <2>1. /\ Aside \in Seq(Nodes \ {Invalid}) /\ IsInjective(Aside)
        /\ Invalid = At(Aside, Invalid, 1)
    BY <1>1 DEF PoolInv, LinksInv, Path
  <2>2. Len(Aside) \in Nat /\ \A i \in 1 .. Len(Aside) : At(Aside, Invalid, i) # Invalid
    BY <1>2, <2>1, Entries
  <2>3. Len(Aside) = 0
    BY <2>1, <2>2
  <2> QED BY <2>1, <2>3, EmptySeq
<1>6. Aside' = <<>> /\ Leaving = {} /\ Leaving' = {}
  BY <1>1, NoneAside DEF Leaving
<1>7. TypeOK'
  BY <1>1, <1>3 DEF PoolInv, PlacesInv, TypeOK
<1>8. PlacesInv'
  BY <1>1, <1>4, <1>5, <1>6, <1>7 DEF PoolInv, PlacesInv
<1>9. LinksInv'
  BY <1>1, <1>4 DEF PoolInv, LinksInv
<1>10. WalkInv'
  BY <1>1, <1>2, <1>3, <1>4, WalkKept, PoolFacts DEF Unlinked
<1> QED BY <1>4, <1>8, <1>9, <1>10 DEF PoolInv

-----------------------------------------------------------------------------
(* get_connection_statiscs. *)

\* The walk changes nothing but its own state.
LEMMA WalkChangesNothing ==
  ASSUME PoolInv, UNCHANGED <<l, live, dead, pc, cursor, held>>,
         walk' \in WalkType, undercut' \in BOOLEAN
  PROVE  PlacesInv' /\ LinksInv' /\ Idle' = Idle
<1>1. Idle' = Idle /\ Aside' = Aside /\ Leaving' = Leaving /\ Relinked' = Relinked
  BY DEF Idle, Aside, Leaving, Relinked
<1>2. TypeOK'
  BY DEF PoolInv, PlacesInv, TypeOK
<1>3. PlacesInv'
  BY <1>1, <1>2 DEF PoolInv, PlacesInv
<1>4. LinksInv'
  BY <1>1 DEF PoolInv, LinksInv
<1> QED BY <1>1, <1>3, <1>4

LEMMA WalkBeginsInv ==
  ASSUME PoolInv, WalkBegins
  PROVE  PoolInv' /\ Idle' = Idle
<1>1. /\ walk.st = "no" /\ pc # "search"
      /\ walk' = [st |-> "walking", at |-> l[Pool].next, i |-> 0,
                  begun |-> Len(Idle), removed |-> 0]
      /\ undercut' = FALSE
      /\ UNCHANGED <<l, live, dead, pc, cursor, held>>
  BY DEF WalkBegins, MutexFree, Idle
<1>2. walk' \in WalkType
  <2>1. l[Pool].next \in Nodes \union {NULL}
    BY PoolFacts, PoolAssumption DEF Links
  <2> QED BY <1>1, <2>1, PoolFacts DEF WalkType
<1>3. PlacesInv' /\ LinksInv' /\ Idle' = Idle
  BY <1>1, <1>2, WalkChangesNothing
<1>4. OnTheWay'
  <2>1. /\ walk'.at = At(Idle, Pool, 1) /\ walk'.i = 0 /\ walk'.begun = Len(Idle)
        /\ walk'.removed = 0 /\ Len(Idle) \in Nat
    BY <1>1, PoolFacts
  <2>2. 1 \in 1 .. Len(Idle) + 1 /\ 0 + (Len(Idle) + 1 - 1) = Len(Idle) /\ Len(Idle) - 0 = Len(Idle)
    BY <2>1
  <2> QED BY <1>3, <2>1, <2>2 DEF OnTheWay, Within
<1>5. WalkInv'
  BY <1>1, <1>4 DEF WalkInv
<1> QED BY <1>3, <1>5 DEF PoolInv

LEMMA WalkStepsInv ==
  ASSUME PoolInv, WalkSteps
  PROVE  PoolInv' /\ Idle' = Idle
<1> DEFINE n == Len(Idle)
           b == walk.begun
           d == walk.removed
           w == walk.i
<1>1. /\ walk.st = "walking" /\ walk.at \in live
      /\ walk' = [walk EXCEPT !.at = l[walk.at].next, !.i = @ + 1]
      /\ UNCHANGED <<l, live, dead, pc, cursor, held, undercut>>
  BY DEF WalkSteps
<1>0. pc # "search"
  BY <1>1 DEF PoolInv, WalkInv
<1>2. walk \in WalkType /\ l[walk.at].next \in Nodes \union {NULL}
  <2>1. walk.at \in Nodes
    BY <1>1, PoolFacts
  <2> QED BY <2>1, PoolFacts DEF PoolInv, PlacesInv, TypeOK, Links
<1>3. walk' \in WalkType
  <2>1. walk.i + 1 \in Nat
    BY <1>2 DEF WalkType
  <2>2. walk' = [st |-> walk.st, at |-> l[walk.at].next, i |-> walk.i + 1,
                 begun |-> walk.begun, removed |-> walk.removed]
    BY <1>1, <1>2 DEF WalkType
  <2> QED BY <1>2, <2>1, <2>2 DEF WalkType
<1>4. /\ walk'.st = "walking" /\ walk'.at = l[walk.at].next /\ walk'.i = w + 1
      /\ walk'.begun = b /\ walk'.removed = d
      /\ w \in Nat /\ b \in Nat /\ d \in Nat /\ n \in Nat
  BY <1>1, <1>2, PoolFacts DEF WalkType
<1>5. PlacesInv' /\ LinksInv' /\ Idle' = Idle
  BY <1>1, <1>3, WalkChangesNothing DEF PoolInv, PlacesInv, TypeOK
<1>6. CASE ~undercut
  <2>1. PICK p \in 1 .. n + 1 :
          \/ /\ walk.at = At(Idle, Pool, p)
             /\ Within(w + (n + 1 - p))
          \/ /\ pc = "clear" /\ walk.at = cursor /\ l[cursor].next = At(Idle, Pool, p)
             /\ Within(w + 1 + (n + 1 - p))
    BY <1>1, <1>6 DEF PoolInv, WalkInv, OnTheWay
  <2>2. CASE walk.at = At(Idle, Pool, p) /\ Within(w + (n + 1 - p))
    <3>1. p # n + 1
      BY <1>1, <1>4, <2>2, PoolFacts DEF At
    <3>2. p + 1 \in 1 .. n + 1 /\ p \in 0 .. n
      BY <1>4, <3>1
    <3>3. walk'.at = At(Idle, Pool, p + 1)
      BY <1>4, <2>2, <3>2, PoolFacts
    <3>4. w + (n + 1 - p) = (w + 1) + (n + 1 - (p + 1))
      BY <1>4
    <3>5. OnTheWay'
      <4> HIDE DEF w, b, d
      <4>1. b - d <= w + (n + 1 - p) /\ w + (n + 1 - p) <= b
        BY <2>2 DEF Within, w, b, d
      <4> QED BY <1>4, <1>5, <3>2, <3>3, <3>4, <4>1 DEF OnTheWay, Within
    <3> QED BY <1>0, <1>1, <1>4, <1>5, <1>6, <3>5 DEF PoolInv, WalkInv
  <2>3. CASE /\ pc = "clear" /\ walk.at = cursor /\ l[cursor].next = At(Idle, Pool, p)
             /\ Within(w + 1 + (n + 1 - p))
    <3>1. OnTheWay'
      <4> HIDE DEF w, b, d
      <4>1. b - d <= (w + 1) + (n + 1 - p) /\ (w + 1) + (n + 1 - p) <= b
        BY <2>3 DEF Within, w, b, d
      <4> QED BY <1>4, <1>5, <2>3, <4>1 DEF OnTheWay, Within
    <3> QED BY <1>0, <1>1, <1>4, <1>5, <1>6, <3>1 DEF PoolInv, WalkInv
  <2> QED BY <1>5, <2>1, <2>2, <2>3 DEF PoolInv
<1>7. CASE undercut
  <2>1. l[walk.at].next = NULL /\ w < b
    BY <1>1, <1>7, PoolFacts DEF PoolInv, WalkInv, OffTheWay
  <2>2. OffTheWay'
    BY <1>4, <2>1 DEF OffTheWay
  <2>3. WalkInv'
    BY <1>1, <1>4, <1>7, <2>2 DEF PoolInv, WalkInv
  <2> QED BY <1>5, <2>3 DEF PoolInv
<1> QED BY <1>6, <1>7

LEMMA WalkGoesAstrayInv ==
  ASSUME PoolInv, WalkGoesAstray
  PROVE  PoolInv' /\ Idle' = Idle
<1>1. /\ walk.st = "walking" /\ walk.at \notin live \union {Pool}
      /\ walk' = [walk EXCEPT !.st = "astray"]
      /\ UNCHANGED <<l, live, dead, pc, cursor, held, undercut>>
  BY DEF WalkGoesAstray
<1>2. walk' \in WalkType /\ walk'.st = "astray"
  BY <1>1 DEF PoolInv, PlacesInv, TypeOK, WalkType
<1>3. PlacesInv' /\ LinksInv' /\ Idle' = Idle
  BY <1>1, <1>2, WalkChangesNothing DEF PoolInv, PlacesInv, TypeOK
<1>4. undercut
  <2> SUFFICES ASSUME ~undercut PROVE FALSE
    OBVIOUS
  <2>1. PICK p \in 1 .. Len(Idle) + 1 :
          walk.at = At(Idle, Pool, p) \/ (pc = "clear" /\ walk.at = cursor)
    BY <1>1 DEF PoolInv, WalkInv, OnTheWay
  <2>2. At(Idle, Pool, p) \in live \union {Pool}
    BY PoolFacts DEF At, Range
  <2>3. pc = "clear" => cursor \in live
    BY PoolFacts DEF Leaving
  <2> QED BY <1>1, <2>1, <2>2, <2>3
<1>5. WalkInv'
  BY <1>1, <1>2, <1>4 DEF WalkInv
<1> QED BY <1>3, <1>5 DEF PoolInv

LEMMA WalkEndsInv ==
  ASSUME PoolInv, WalkEnds
  PROVE  PoolInv' /\ Idle' = Idle
<1>1. walk' = NoWalk /\ UNCHANGED <<l, live, dead, pc, cursor, held, undercut>>
  BY DEF WalkEnds
<1>2. walk' \in WalkType /\ walk'.st = "no"
  BY <1>1 DEF NoWalk, WalkType
<1>3. PlacesInv' /\ LinksInv' /\ Idle' = Idle
  BY <1>1, <1>2, WalkChangesNothing DEF PoolInv, PlacesInv, TypeOK
<1>4. WalkInv'
  BY <1>2 DEF WalkInv
<1> QED BY <1>3, <1>4 DEF PoolInv

-----------------------------------------------------------------------------
(* The invariant. *)

LEMMA InitInv ==
  ASSUME Init
  PROVE  PoolInv /\ Idle = <<>>
<1> DEFINE m == [n \in Nodes |-> Unlinked]
<1>1. m \in Links /\ Pool \in Nodes
  BY PoolAssumption DEF Links, Unlinked
<1>2. l = InitListHead(m, Pool) /\ live = {} /\ dead = {} /\ pc = "run" /\ cursor = NULL
      /\ held = {} /\ walk = NoWalk /\ undercut = FALSE
  BY DEF Init
<1> HIDE DEF m
<1>3. l \in Links /\ Ring(l, Pool, <<>>)
  BY <1>1, <1>2, RingInit
<1>4. Idle = <<>>
  BY <1>1, <1>3, RingForward DEF Idle
<1>5. Range(Idle) = {} /\ Range(Aside) = {} /\ Leaving = {}
  BY <1>2, <1>4, NoneAside DEF Range, Leaving
<1>6. TypeOK
  BY <1>2, <1>3 DEF TypeOK, WalkType, NoWalk
<1>7. PlacesInv
  BY <1>2, <1>5, <1>6 DEF PlacesInv
<1>8. LinksInv
  BY <1>2, <1>3, <1>4 DEF LinksInv
<1>9. WalkInv
  BY <1>2 DEF WalkInv, NoWalk
<1> QED BY <1>4, <1>7, <1>8, <1>9 DEF PoolInv

LEMMA StutterInv ==
  ASSUME PoolInv, UNCHANGED vars
  PROVE  PoolInv' /\ Idle' = Idle /\ Aside' = Aside
<1>1. UNCHANGED <<l, live, dead, pc, cursor, held, walk, undercut>>
  BY DEF vars
<1>2. PlacesInv' /\ LinksInv' /\ Idle' = Idle
  BY <1>1, WalkChangesNothing DEF PoolInv, PlacesInv, TypeOK
<1>3. WalkInv'
  BY <1>1, <1>2 DEF PoolInv, WalkInv, OnTheWay, OffTheWay, Within
<1> QED BY <1>1, <1>2, <1>3 DEF PoolInv, Aside

LEMMA NextInv ==
  ASSUME PoolInv, [Next]_vars
  PROVE  PoolInv'
BY AllocateInv, ReleaseDeadInv, ReleaseAliveInv, MarkInv, ReleaseKeepaliveInv,
   UnlinksBackwardInv, UnlinksForwardInv, ClearsInv, FreesInv,
   GetConnectionInv, SetAsideInv, TakeFirstInv, TakeNoneInv,
   CloseInvalidInv, InvalidClosedInv,
   WalkBeginsInv, WalkStepsInv, WalkGoesAstrayInv, WalkEndsInv, StutterInv
   DEF Next

\* The invariant of the pool on its links: for any number of connections, any
\* order of calls and any interleaving with the statistics.
THEOREM PoolInvariant == Spec => []PoolInv
<1>1. Init => PoolInv
  BY InitInv
<1>2. PoolInv /\ [Next]_vars => PoolInv'
  BY NextInv
<1> QED BY <1>1, <1>2, PTL DEF Spec

-----------------------------------------------------------------------------
(* The properties. *)

\* Two sequences with nothing in common list nothing twice if neither does.
LEMMA ConcatInjective ==
  ASSUME NEW S, NEW s \in Seq(S), NEW t \in Seq(S), IsInjective(s), IsInjective(t),
         Range(s) \intersect Range(t) = {}
  PROVE  IsInjective(s \o t)
<1>1. /\ Len(s) \in Nat /\ Len(t) \in Nat
      /\ DOMAIN s = 1 .. Len(s) /\ DOMAIN t = 1 .. Len(t)
  BY LenProperties
<1>2. s \o t \in Seq(S) /\ Len(s \o t) = Len(s) + Len(t)
      /\ \A i \in 1 .. Len(s) + Len(t) :
           (s \o t)[i] = IF i <= Len(s) THEN s[i] ELSE t[i - Len(s)]
  BY ConcatProperties
<1>3. DOMAIN (s \o t) = 1 .. Len(s) + Len(t)
  BY <1>2, LenProperties
<1>4. \A i \in 1 .. Len(s) + Len(t) :
        \/ i <= Len(s) /\ i \in DOMAIN s
        \/ ~(i <= Len(s)) /\ i - Len(s) \in DOMAIN t
  BY <1>1
<1> SUFFICES ASSUME NEW a \in 1 .. Len(s) + Len(t), NEW b \in 1 .. Len(s) + Len(t),
                    (s \o t)[a] = (s \o t)[b]
             PROVE  a = b
  BY <1>3 DEF IsInjective
<1>5. CASE a <= Len(s) /\ b <= Len(s)
  BY <1>2, <1>4, <1>5 DEF IsInjective
<1>6. CASE ~(a <= Len(s)) /\ ~(b <= Len(s))
  <2>1. a - Len(s) = b - Len(s)
    BY <1>2, <1>4, <1>6 DEF IsInjective
  <2> QED BY <1>1, <2>1
<1>7. CASE ~(a <= Len(s) <=> b <= Len(s))
  BY <1>2, <1>4, <1>7 DEF Range
<1> QED BY <1>5, <1>6, <1>7

LEMMA AsideSeq ==
  ASSUME PoolInv
  PROVE  /\ Aside \in Seq(Nodes) /\ IsInjective(Aside)
         /\ Idle \in Seq(Nodes) /\ IsInjective(Idle)
<1>1. Idle \in Seq(Nodes) /\ IsInjective(Idle)
  BY PoolFacts
<1>2. CASE pc = "search"
  BY <1>1, <1>2 DEF PoolInv, LinksInv, Ring
<1>3. CASE pc = "closing"
  <2>1. Aside \in Seq(Nodes \ {Invalid}) /\ IsInjective(Aside)
    BY <1>3 DEF PoolInv, LinksInv, Path
  <2>2. Seq(Nodes \ {Invalid}) \subseteq Seq(Nodes)
    BY SeqMonotonic
  <2> QED BY <1>1, <2>1, <2>2
<1>4. CASE pc \notin {"search", "closing"}
  <2>1. Aside = <<>>
    BY <1>4, NoneAside
  <2>2. <<>> \in Seq(Nodes) /\ Len(<<>>) = 0
    BY EmptySeq
  <2>3. DOMAIN <<>> = 1 .. 0
    BY <2>2, LenProperties
  <2>4. DOMAIN Aside = {} /\ Aside \in Seq(Nodes)
    BY <2>1, <2>2, <2>3
  <2> QED BY <1>1, <2>4 DEF IsInjective
<1> QED BY <1>2, <1>3, <1>4

LEMMA PoolOnePlace == PoolInv => OnePlace
<1> SUFFICES ASSUME PoolInv PROVE OnePlace
  OBVIOUS
<1>1. ToSet(Idle) = Range(Idle) /\ ToSet(Aside) = Range(Aside)
  BY DEF ToSet, Range
<1>2. IsInjective(Aside \o Idle)
  BY AsideSeq, ConcatInjective DEF PoolInv, PlacesInv
<1>3. cursor \in live \union {Pool, Invalid, NULL}
  <2>1. CASE pc = "run"
    BY <2>1 DEF PoolInv, LinksInv
  <2>2. CASE pc = "search"
    BY <2>2, PoolFacts DEF PoolInv, LinksInv, At, Range
  <2>3. CASE pc = "closing"
    BY <2>3, PoolFacts DEF PoolInv, LinksInv, Path, At, Range
  <2>4. CASE pc \in {"backward", "forward"}
    BY <2>4, PoolFacts DEF PoolInv, LinksInv
  <2>5. CASE pc \in {"clear", "free"}
    BY <2>5, PoolFacts DEF Leaving
  <2> QED BY <2>1, <2>2, <2>3, <2>4, <2>5 DEF PoolInv, PlacesInv, TypeOK
<1> QED BY <1>1, <1>2, <1>3 DEF PoolInv, PlacesInv, OnePlace

LEMMA PoolCountRight == PoolInv => CountRight
<1> SUFFICES ASSUME PoolInv PROVE CountRight
  OBVIOUS
<1> DEFINE n == Len(Idle)
           b == walk.begun
           d == walk.removed
           w == walk.i
<1>1. n \in Nat /\ b \in Nat /\ d \in Nat /\ w \in Nat
  BY PoolFacts DEF PoolInv, PlacesInv, TypeOK, WalkType
<1>2. ASSUME walk.st = "walking", ~undercut
      PROVE  w <= b /\ (walk.at = Pool => w >= b - d)
  <2>1. PICK p \in 1 .. n + 1 :
          \/ /\ walk.at = At(Idle, Pool, p)
             /\ Within(w + (n + 1 - p))
          \/ /\ pc = "clear" /\ walk.at = cursor
             /\ Within(w + 1 + (n + 1 - p))
    BY <1>2 DEF PoolInv, WalkInv, OnTheWay
  <2>2. CASE walk.at = At(Idle, Pool, p) /\ Within(w + (n + 1 - p))
    <3>1. b - d <= w + (n + 1 - p) /\ w + (n + 1 - p) <= b
      BY <2>2 DEF Within
    <3>2. walk.at = Pool => p = n + 1
      <4>1. p \in 1 .. n => Idle[p] \in live /\ p \in DOMAIN Idle
        BY PoolFacts DEF Range
      <4> QED BY <1>1, <2>2, <4>1, PoolFacts DEF At
    <3> HIDE DEF n, b, d, w
    <3> QED BY <1>1, <3>1, <3>2
  <2>3. CASE pc = "clear" /\ walk.at = cursor /\ Within(w + 1 + (n + 1 - p))
    <3>1. w + 1 + (n + 1 - p) <= b
      BY <2>3 DEF Within
    <3>2. walk.at # Pool
      BY <2>3, PoolFacts DEF Leaving
    <3> HIDE DEF n, b, d, w
    <3> QED BY <1>1, <3>1, <3>2
  <2> QED BY <2>1, <2>2, <2>3
<1>3. ASSUME walk.st = "walking", undercut
      PROVE  w <= b /\ walk.at # Pool
  <2>1. NULL # Pool /\ Pool \notin Conns
    BY PoolAssumption, ListAssumption DEF Conns
  <2> QED BY <1>1, <1>3, <2>1 DEF PoolInv, WalkInv, OffTheWay
<1> QED BY <1>2, <1>3 DEF PoolInv, WalkInv, CountRight

\* Reverse, of a sequence with one more entry at either end.
LEMMA ReverseWithOne ==
  ASSUME NEW S, NEW q \in Seq(S), NEW c \in S
  PROVE  /\ Append(q, c) = q \o <<c>>
         /\ Reverse(Append(q, c)) = <<c>> \o Reverse(q)
         /\ Reverse(<<c>> \o q) = Reverse(q) \o <<c>>
<1> DEFINE n == Len(q)
           a == Append(q, c)
           p == <<c>> \o q
           r == Reverse(q)
<1>1. <<c>> \in Seq(S) /\ Len(<<c>>) = 1 /\ <<c>>[1] = c
  OBVIOUS
<1>2. a = q \o <<c>> /\ a \in Seq(S) /\ Len(a) = n + 1 /\ a[n + 1] = c
      /\ \A i \in 1 .. n : a[i] = q[i]
  BY AppendIsConcat, AppendProperties
<1>3. p \in Seq(S) /\ Len(p) = 1 + n
      /\ \A i \in 1 .. 1 + n : p[i] = IF i <= 1 THEN c ELSE q[i - 1]
  <2>1. \A i \in 1 .. 1 + n : i <= 1 => <<c>>[i] = c
    OBVIOUS
  <2> QED BY <1>1, <2>1, ConcatProperties
<1>4. n \in Nat /\ r \in Seq(S) /\ Len(r) = n /\ \A i \in 1 .. n : r[i] = q[n + 1 - i]
  BY LenProperties, ReverseElements
<1>5. /\ <<c>> \o r \in Seq(S) /\ Len(<<c>> \o r) = 1 + n
      /\ \A i \in 1 .. 1 + n : (<<c>> \o r)[i] = IF i <= 1 THEN c ELSE r[i - 1]
      /\ r \o <<c>> \in Seq(S) /\ Len(r \o <<c>>) = n + 1
      /\ \A i \in 1 .. n + 1 : (r \o <<c>>)[i] = IF i <= n THEN r[i] ELSE <<c>>[i - n]
  <2>1. \A i \in 1 .. 1 + n : i <= 1 => <<c>>[i] = c
    OBVIOUS
  <2> QED BY <1>1, <1>4, <2>1, ConcatProperties
<1> HIDE DEF n, a, p, r
<1>6. /\ Reverse(a) \in Seq(S) /\ Len(Reverse(a)) = n + 1
      /\ \A i \in 1 .. n + 1 : Reverse(a)[i] = a[(n + 1) + 1 - i]
      /\ Reverse(p) \in Seq(S) /\ Len(Reverse(p)) = 1 + n
      /\ \A i \in 1 .. 1 + n : Reverse(p)[i] = p[(1 + n) + 1 - i]
  <2>1. a \in Seq(S) /\ Len(a) = n + 1 /\ p \in Seq(S) /\ Len(p) = 1 + n
    BY <1>2, <1>3
  <2>2. /\ Reverse(a) \in Seq(S) /\ Len(Reverse(a)) = Len(a)
        /\ \A i \in 1 .. Len(a) : Reverse(a)[i] = a[Len(a) + 1 - i]
    BY <2>1, ReverseElements
  <2>3. /\ Reverse(p) \in Seq(S) /\ Len(Reverse(p)) = Len(p)
        /\ \A i \in 1 .. Len(p) : Reverse(p)[i] = p[Len(p) + 1 - i]
    BY <2>1, ReverseElements
  <2> QED BY <2>1, <2>2, <2>3
<1>7. \A i \in 1 .. n + 1 : Reverse(a)[i] = (<<c>> \o r)[i]
  <2> TAKE i \in 1 .. n + 1
  <2>1. CASE i = 1
    <3>1. (n + 1) + 1 - i = n + 1 /\ i <= 1 /\ i \in 1 .. 1 + n
      BY <1>4, <2>1
    <3>2. Reverse(a)[i] = c
      BY <1>2, <1>6, <3>1
    <3>3. (<<c>> \o r)[i] = c
      BY <1>5, <3>1
    <3> QED BY <3>2, <3>3
  <2>2. CASE i # 1
    <3>1. /\ i - 1 \in 1 .. n /\ n + 1 - (i - 1) = (n + 1) + 1 - i /\ ~(i <= 1)
          /\ (n + 1) + 1 - i \in 1 .. n /\ i \in 1 .. 1 + n
      BY <1>4, <2>2
    <3>2. Reverse(a)[i] = q[(n + 1) + 1 - i]
      BY <1>2, <1>6, <3>1
    <3>3. (<<c>> \o r)[i] = q[n + 1 - (i - 1)]
      BY <1>4, <1>5, <3>1
    <3> QED BY <3>1, <3>2, <3>3
  <2> QED BY <2>1, <2>2
<1>8. \A i \in 1 .. 1 + n : Reverse(p)[i] = (r \o <<c>>)[i]
  <2> TAKE i \in 1 .. 1 + n
  <2>1. CASE i = n + 1
    <3>1. (1 + n) + 1 - i = 1 /\ 1 \in 1 .. 1 + n /\ i - n = 1 /\ ~(i <= n) /\ i \in 1 .. n + 1
      BY <1>4, <2>1
    <3>2. Reverse(p)[i] = c
      BY <1>3, <1>6, <3>1
    <3>3. (r \o <<c>>)[i] = c
      BY <1>1, <1>5, <3>1
    <3> QED BY <3>2, <3>3
  <2>2. CASE i # n + 1
    <3>1. /\ i \in 1 .. n /\ (1 + n) + 1 - i \in 1 .. 1 + n /\ ~((1 + n) + 1 - i <= 1)
          /\ ((1 + n) + 1 - i) - 1 = n + 1 - i /\ i <= n /\ i \in 1 .. n + 1
      BY <1>4, <2>2
    <3> QED BY <1>3, <1>4, <1>5, <1>6, <3>1
  <2> QED BY <2>1, <2>2
<1>9. n + 1 = 1 + n
  BY <1>4
<1>10. Reverse(a) = <<c>> \o r
  BY <1>5, <1>6, <1>7, <1>9, SeqEqual
<1>11. Reverse(p) = r \o <<c>>
  BY <1>5, <1>6, <1>8, <1>9, SeqEqual
<1> QED BY <1>2, <1>10, <1>11 DEF a, p, r

LEMMA PoolRings == PoolInv => RingsAreSequences
<1> SUFFICES ASSUME PoolInv, pc # "forward" PROVE RingsAreSequences
  BY DEF RingsAreSequences
<1>1. /\ l \in Links /\ Ring(l, Pool, Idle) /\ Pool \in Nodes
      /\ Idle \in Seq(Nodes \ {Pool}) /\ Idle \in Seq(Nodes) /\ IsInjective(Idle)
      /\ Len(Idle) \in Nat /\ DOMAIN Idle = 1 .. Len(Idle)
  BY PoolFacts, AsideSeq, PoolAssumption DEF PoolInv, LinksInv
<1>2. Backward(l, Pool) = Reverse(Idle)
  BY <1>1, RingBackward
<1>3. ASSUME NEW c \in held
      PROVE  /\ Forward(ListAdd(l, c, Pool), Pool) = <<c>> \o Idle
             /\ Backward(ListAdd(l, c, Pool), Pool) = Reverse(Idle) \o <<c>>
             /\ Forward(ListAddTail(l, c, Pool), Pool) = Idle \o <<c>>
             /\ Backward(ListAddTail(l, c, Pool), Pool) = <<c>> \o Reverse(Idle)
  <2>1. c \in Nodes \ {Pool} /\ c \in Nodes /\ c \notin Range(Idle)
    BY PoolFacts DEF PoolInv, PlacesInv
  <2>2. ListAdd(l, c, Pool) \in Links /\ Ring(ListAdd(l, c, Pool), Pool, <<c>> \o Idle)
    BY <1>1, <2>1, RingAdd
  <2>3. ListAddTail(l, c, Pool) \in Links /\ Ring(ListAddTail(l, c, Pool), Pool, Append(Idle, c))
    BY <1>1, <2>1, RingAddTail
  <2>4. /\ Forward(ListAdd(l, c, Pool), Pool) = <<c>> \o Idle
        /\ Backward(ListAdd(l, c, Pool), Pool) = Reverse(<<c>> \o Idle)
    BY <1>1, <2>2, RingForward, RingBackward
  <2>5. /\ Forward(ListAddTail(l, c, Pool), Pool) = Append(Idle, c)
        /\ Backward(ListAddTail(l, c, Pool), Pool) = Reverse(Append(Idle, c))
    BY <1>1, <2>3, RingForward, RingBackward
  <2>6. /\ Append(Idle, c) = Idle \o <<c>>
        /\ Reverse(Append(Idle, c)) = <<c>> \o Reverse(Idle)
        /\ Reverse(<<c>> \o Idle) = Reverse(Idle) \o <<c>>
    BY <1>1, <2>1, ReverseWithOne
  <2> QED BY <2>4, <2>5, <2>6
<1>4. ASSUME NEW k \in DOMAIN Idle
      PROVE  /\ Forward(ListDel(l, Idle[k]), Pool) = RemoveAt(Idle, k)
             /\ Backward(ListDel(l, Idle[k]), Pool) = Reverse(RemoveAt(Idle, k))
  <2>1. /\ ListDel(l, Idle[k]) \in Links
        /\ Ring(ListDel(l, Idle[k]), Pool, RemoveAt(Idle, k))
    BY <1>1, RingDel
  <2> QED BY <1>1, <2>1, RingForward, RingBackward
<1>5. /\ ListEmpty(l, Pool) <=> Idle = <<>>
      /\ ListIsSingular(l, Pool) <=> Len(Idle) = 1
      /\ \A k \in 1 .. Len(Idle) : ListIsLast(l, Idle[k], Pool) <=> k = Len(Idle)
  BY <1>1, RingShape
<1>6. \A c \in ToSet(Idle) : ListIsLast(l, c, Pool) <=> c = Last(Idle)
  <2> TAKE c \in ToSet(Idle)
  <2>1. PICK k \in 1 .. Len(Idle) : c = Idle[k]
    BY <1>1 DEF ToSet
  <2>2. Len(Idle) \in 1 .. Len(Idle)
    BY <1>1
  <2>3. k = Len(Idle) <=> Idle[k] = Idle[Len(Idle)]
    BY <1>1, <2>2 DEF IsInjective
  <2> QED BY <1>5, <2>1, <2>3 DEF Last
<1> QED BY <1>2, <1>3, <1>4, <1>5, <1>6 DEF RingsAreSequences

\* Every allocated connection is in one place.
THEOREM PoolPlaces == Spec => []OnePlace
BY PoolInvariant, PoolOnePlace, PTL

\* The statistics go astray only when the entry they are at is taken away, and
\* otherwise count what is there.
THEOREM StatisticsCount == Spec => []CountRight
BY PoolInvariant, PoolCountRight, PTL

\* The links of the pool stand for a sequence, and the operations of list.h do
\* to it what they are called after.
THEOREM ListIsSequence == Spec => []RingsAreSequences
BY PoolInvariant, PoolRings, PTL

-----------------------------------------------------------------------------
(* The pool as a queue. *)

\* A connection that is held has not been marked.
HeldAlive == held \intersect dead = {}

\* The connections of the queue that are marked.
Marked == dead \intersect ToSet(Queue)

LEMMA HeldAliveNext ==
  ASSUME PoolInv, HeldAlive, [Next]_vars
  PROVE  HeldAlive'
<1>1. dead \subseteq live /\ held \intersect ToSet(Idle) = {}
  BY DEF PoolInv, PlacesInv, TypeOK, ToSet, Range
<1>2. ASSUME NEW c \in Conns, Allocate(c) \/ ReleaseDead(c) \/ ReleaseAlive(c)
                              \/ Mark(c) \/ ReleaseKeepalive(c)
      PROVE  HeldAlive'
  BY <1>1, <1>2 DEF HeldAlive, Allocate, ReleaseDead, Free, ReleaseAlive, Mark,
                    ReleaseKeepalive, Idle
<1>3. CASE TakeFirst \/ TakeNone
  BY <1>3 DEF HeldAlive, TakeFirst, TakeNone, SearchEnds, Reusable
<1>4. CASE GetConnection \/ SetAside \/ CloseInvalid \/ InvalidClosed
  BY <1>4 DEF HeldAlive, GetConnection, SetAside, CloseInvalid, InvalidClosed, Free
<1>5. CASE UnlinksBackward \/ UnlinksForward \/ Clears \/ Frees
  BY <1>5 DEF HeldAlive, UnlinksBackward, UnlinksForward, Clears, Frees, Free
<1>6. CASE WalkBegins \/ WalkSteps \/ WalkGoesAstray \/ WalkEnds
  BY <1>6 DEF HeldAlive, WalkBegins, WalkSteps, WalkGoesAstray, WalkEnds
<1>7. CASE UNCHANGED vars
  BY <1>7 DEF HeldAlive, vars
<1> QED BY <1>2, <1>3, <1>4, <1>5, <1>6, <1>7 DEF Next

\* A queue of which the first entries have been set aside.
LEMMA QueueParts ==
  ASSUME NEW S, NEW a \in Seq(S), NEW q \in Seq(S)
  PROVE  /\ Len(a) \in Nat /\ Len(a \o q) = Len(a) + Len(q)
         /\ DOMAIN (a \o q) = 1 .. Len(a) + Len(q)
         /\ \A i \in 1 .. Len(a) : (a \o q)[i] = a[i]
         /\ {(a \o q)[i] : i \in 1 .. Len(a)} = Range(a)
         /\ Range(a \o q) = Range(a) \union Range(q)
         /\ q = <<>> => SubSeq(a \o q, Len(a) + 2, Len(a \o q)) = <<>>
         /\ 1 \in 1 .. Len(q) =>
              /\ (a \o q)[Len(a) + 1] = q[1]
              /\ SubSeq(a \o q, Len(a) + 2, Len(a \o q)) = RemoveAt(q, 1)
              /\ Append(a, q[1]) \o RemoveAt(q, 1) = a \o q
<1> DEFINE s == a \o q
           n == Len(a)
           m == Len(q)
<1>1. /\ n \in Nat /\ m \in Nat /\ s \in Seq(S) /\ Len(s) = n + m
      /\ \A i \in 1 .. n + m : s[i] = IF i <= n THEN a[i] ELSE q[i - n]
      /\ DOMAIN a = 1 .. n
  BY LenProperties, ConcatProperties
<1>2. DOMAIN s = 1 .. n + m
  BY <1>1, LenProperties
<1>3. \A i \in 1 .. n : s[i] = a[i]
  <2>1. \A i \in 1 .. n : i \in 1 .. n + m /\ i <= n
    BY <1>1
  <2> QED BY <1>1, <2>1
<1>4. {s[i] : i \in 1 .. n} = Range(a)
  BY <1>1, <1>3 DEF Range
<1>5. Range(s) = Range(a) \union Range(q)
  BY RangeConcatenation
<1> DEFINE t == SubSeq(s, n + 2, Len(s))
<1>6. q = <<>> => t = <<>>
  <2> SUFFICES ASSUME q = <<>> PROVE t = <<>>
    OBVIOUS
  <2>1. m = 0
    OBVIOUS
  <2>2. n + 2 \in Int /\ Len(s) \in Int /\ Len(s) < n + 2
    BY <1>1, <2>1
  <2> HIDE DEF s, n, m
  <2> QED BY <2>2, SubSeqEmpty
<1>7. ASSUME 1 \in 1 .. m
      PROVE  /\ s[n + 1] = q[1]
             /\ t = RemoveAt(q, 1)
             /\ Append(a, q[1]) \o RemoveAt(q, 1) = s
  <2> DEFINE r == RemoveAt(q, 1)
  <2>1. r \in Seq(S) /\ Len(r) = m - 1 /\ \A i \in 1 .. m - 1 : r[i] = q[i + 1]
    <3>1. \A i \in 1 .. m - 1 : ~(i < 1)
      BY <1>1
    <3> QED BY <1>7, <3>1, RemoveElements
  <2>2. q[1] \in S
    BY <1>7, LenProperties
  <2> HIDE DEF s, n, m, r
  <2>3. s[n + 1] = q[1]
    <3>1. n + 1 \in 1 .. n + m /\ ~(n + 1 <= n) /\ (n + 1) - n = 1
      BY <1>1, <1>7
    <3> QED BY <1>1, <3>1
  <2>4. /\ t \in Seq(S) /\ Len(t) = m - 1
        /\ \A i \in 1 .. m - 1 : t[i] = s[(n + 2) + i - 1]
    <3>1. n + 2 \in Int /\ Len(s) \in Int
      BY <1>1
    <3>2. \A i \in n + 2 .. Len(s) : s[i] \in S
      BY <1>1, LenProperties
    <3>3. /\ Len(s) - (n + 2) + 1 = m - 1 /\ (~(n + 2 <= Len(s)) => m - 1 = 0)
      BY <1>1, <1>7
    <3> QED BY <3>1, <3>2, <3>3, SubSeqProperties
  <2>5. \A i \in 1 .. m - 1 : t[i] = r[i]
    <3> TAKE i \in 1 .. m - 1
    <3>1. /\ (n + 2) + i - 1 \in 1 .. n + m /\ ~((n + 2) + i - 1 <= n)
          /\ ((n + 2) + i - 1) - n = i + 1
      BY <1>1
    <3>2. s[(n + 2) + i - 1] = q[i + 1]
      BY <1>1, <3>1
    <3> QED BY <2>1, <2>4, <3>2
  <2>6. t = r
    <3> HIDE DEF t
    <3> QED BY <2>1, <2>4, <2>5, SeqEqual
  <2>7. q = <<q[1]>> \o r
    <3> DEFINE p == <<q[1]>> \o r
    <3>1. /\ <<q[1]>> \in Seq(S) /\ Len(<<q[1]>>) = 1 /\ <<q[1]>>[1] = q[1]
          /\ 1 + (m - 1) = m
      BY <1>1, <2>2
    <3>2. /\ p \in Seq(S) /\ Len(p) = m
          /\ \A i \in 1 .. m : p[i] = IF i <= 1 THEN <<q[1]>>[i] ELSE r[i - 1]
      BY <2>1, <3>1, ConcatProperties
    <3> HIDE DEF p
    <3>3. \A i \in 1 .. m : p[i] = q[i]
      <4> TAKE i \in 1 .. m
      <4>1. CASE i = 1
        BY <3>1, <3>2, <4>1
      <4>2. CASE i # 1
        <5>1. i - 1 \in 1 .. m - 1 /\ ~(i <= 1) /\ (i - 1) + 1 = i
          BY <1>1, <4>2
        <5> QED BY <2>1, <3>2, <5>1
      <4> QED BY <4>1, <4>2
    <3>4. Len(q) = m
      BY DEF m
    <3>5. p = q
      BY <3>2, <3>3, <3>4, SeqEqual
    <3> QED BY <3>5 DEF p
  <2>8. Append(a, q[1]) \o r = s
    <3>1. Append(a, q[1]) = a \o <<q[1]>> /\ <<q[1]>> \in Seq(S)
      BY <2>2, AppendIsConcat
    <3>2. (a \o <<q[1]>>) \o r = a \o (<<q[1]>> \o r)
      BY <2>1, <3>1, ConcatAssociative
    <3> QED BY <2>7, <3>1, <3>2 DEF s
  <2> QED BY <2>3, <2>6, <2>8 DEF r
<1> QED BY <1>1, <1>2, <1>3, <1>4, <1>5, <1>6, <1>7

\* A step that changes neither the queue, nor the marks in it, nor who is held.
LEMMA QueueStutters ==
  ASSUME Queue' = Queue, held' = held, dead' \intersect ToSet(Queue) = dead \intersect ToSet(Queue)
  PROVE  UNCHANGED Abstract!vars
BY DEF Abstract!vars

\* Outside the search the queue is the list.
LEMMA QueueIdle ==
  /\ pc # "search" => Queue = Idle
  /\ pc' # "search" => Queue' = Idle'
  /\ pc = "search" => Queue = Aside \o Idle
  /\ pc' = "search" => Queue' = Aside' \o Idle'
  /\ ToSet(Idle) = Range(Idle) /\ ToSet(Queue) = Range(Queue)
  /\ Abstract!Members = Range(Queue)
BY DEF Queue, ToSet, Range, Abstract!Members

LEMMA InitQueue ==
  ASSUME Init
  PROVE  Abstract!Init
<1>1. pc = "run" /\ held = {} /\ dead = {} /\ Idle = <<>>
  BY InitInv DEF Init
<1>2. Queue = <<>>
  BY <1>1, QueueIdle
<1> QED BY <1>1, <1>2 DEF Abstract!Init

\* A connection that is allocated, freed, given back or marked.
LEMMA CallsAreQueueSteps ==
  ASSUME PoolInv, HeldAlive, NEW c \in Conns,
         Allocate(c) \/ ReleaseDead(c) \/ ReleaseAlive(c) \/ Mark(c) \/ ReleaseKeepalive(c)
  PROVE  [Abstract!Next]_(Abstract!vars)
<1>1. pc = "run" /\ pc' # "search"
  BY DEF Allocate, ReleaseDead, ReleaseAlive, Mark, ReleaseKeepalive
<1>2. Queue = Idle /\ Queue' = Idle' /\ Abstract!Members = Range(Idle)
      /\ ToSet(Queue) = Range(Idle) /\ ToSet(Queue)' = Range(Idle)'
  BY <1>1, QueueIdle DEF ToSet, Range
<1>3. CASE Allocate(c)
  <2>1. c \notin live /\ held' = held \union {c} /\ dead' = dead /\ Idle' = Idle
    BY <1>3 DEF Allocate, Idle
  <2>2. c \notin Range(Idle) \union held
    BY <2>1, PoolFacts
  <2>3. Abstract!New(c)
    BY <1>2, <2>1, <2>2 DEF Abstract!New
  <2> QED BY <2>3 DEF Abstract!Next
<1>4. CASE ReleaseDead(c)
  <2>1. c \in held /\ held' = held \ {c} /\ dead' = dead \ {c}
        /\ Idle' = Idle /\ c \notin Range(Idle)
    BY <1>4, ReleaseDeadInv DEF ReleaseDead, Free
  <2>2. Abstract!Discard(c)
    BY <1>2, <2>1 DEF Abstract!Discard
  <2> QED BY <2>2 DEF Abstract!Next
<1>5. CASE ReleaseAlive(c)
  <2>1. c \in held /\ held' = held \ {c} /\ dead' = dead /\ c \notin dead
        /\ Idle' = Append(Idle, c)
    BY <1>5, ReleaseAliveInv DEF ReleaseAlive, HeldAlive
  <2>2. Range(Append(Idle, c)) = Range(Idle) \union {c}
    <3>1. /\ Pool \in Nodes /\ Idle \in Seq(Nodes \ {Pool}) /\ IsInjective(Idle)
          /\ c \in Nodes \ {Pool} /\ c \notin Range(Idle)
      BY <2>1, PoolFacts, PoolAssumption DEF PoolInv, PlacesInv
    <3> QED BY <3>1, AppendEntries
  <2>3. Range(Idle)' = Range(Idle) \union {c}
    BY <2>1, <2>2
  <2>4. Abstract!GiveBack(c)
    BY <1>2, <2>1, <2>3 DEF Abstract!GiveBack
  <2> QED BY <2>4 DEF Abstract!Next
<1>6. CASE Mark(c)
  <2>1. c \in Range(Idle) /\ dead' = dead \union {c} /\ held' = held /\ Idle' = Idle
    BY <1>6, MarkInv DEF Mark, Idle, ToSet, Range
  <2>2. Abstract!Mark(c)
    BY <1>2, <2>1 DEF Abstract!Mark
  <2> QED BY <2>2 DEF Abstract!Next
<1>7. CASE ReleaseKeepalive(c)
  BY <1>2, <1>7, ReleaseKeepaliveInv, QueueStutters DEF ReleaseKeepalive
<1> QED BY <1>3, <1>4, <1>5, <1>6, <1>7

\* release_keepalive_connection withdraws its entry with its second assignment.
LEMMA WithdrawalIsQueueStep ==
  ASSUME PoolInv, UnlinksBackward \/ UnlinksForward \/ Clears \/ Frees
  PROVE  [Abstract!Next]_(Abstract!vars)
<1>1. pc # "search" /\ pc' # "search"
  BY DEF UnlinksBackward, UnlinksForward, Clears, Frees
<1>2. Queue = Idle /\ Queue' = Idle'
      /\ ToSet(Queue) = Range(Idle) /\ ToSet(Queue)' = Range(Idle)'
  BY <1>1, QueueIdle DEF ToSet, Range
<1>3. CASE UnlinksBackward
  BY <1>2, <1>3, UnlinksBackwardInv, QueueStutters DEF UnlinksBackward
<1>4. CASE UnlinksForward
  <2>1. PICK k \in 1 .. Len(Idle) : cursor = Idle[k] /\ Idle' = RemoveAt(Idle, k)
    BY <1>4, UnlinksForwardInv
  <2>2. Range(RemoveAt(Idle, k)) = Range(Idle) \ {Idle[k]}
    BY PoolFacts, PoolAssumption, RemoveEntriesAt
  <2>3. dead' = dead /\ held' = held /\ k \in DOMAIN Idle
    BY <1>4, PoolFacts DEF UnlinksForward
  <2>4. dead' \intersect ToSet(Queue)' = (dead \intersect ToSet(Queue)) \ {Queue[k]}
    <3>1. Range(Idle)' = Range(Idle) \ {Idle[k]}
      BY <2>1, <2>2
    <3> QED BY <1>2, <2>3, <3>1
  <2>5. Abstract!Withdraw(k)
    <3>1. RemoveAt(Queue, k) = Abstract!RemoveAt(Queue, k)
      BY DEF RemoveAt, Abstract!RemoveAt
    <3> QED BY <1>2, <2>1, <2>3, <2>4, <3>1 DEF Abstract!Withdraw
  <2> QED BY <1>2, <2>3, <2>5 DEF Abstract!Next
<1>5. CASE Clears
  BY <1>2, <1>5, ClearsInv, QueueStutters DEF Clears
<1>6. CASE Frees
  BY <1>2, <1>6, FreesInv, QueueStutters DEF Frees
<1> QED BY <1>3, <1>4, <1>5, <1>6

\* get_connection takes its entry, and discards those before it, in one step.
LEMMA SearchIsQueueStep ==
  ASSUME PoolInv, GetConnection \/ SetAside \/ TakeFirst \/ TakeNone
                  \/ CloseInvalid \/ InvalidClosed
  PROVE  [Abstract!Next]_(Abstract!vars)
<1> DEFINE k == Len(Aside)
<1>1. Aside \in Seq(Nodes) /\ Idle \in Seq(Nodes)
  BY AsideSeq
<1>2. CASE GetConnection
  <2>1. Idle' = Idle /\ Aside' = <<>> /\ pc # "search" /\ pc' = "search"
        /\ held' = held /\ dead' = dead
    BY <1>2, GetConnectionInv DEF GetConnection
  <2>2. <<>> \o Idle = Idle
    BY <1>1, ConcatEmptySeq
  <2>3. Queue' = Queue
    BY <2>1, <2>2, QueueIdle
  <2> QED BY <2>1, <2>3, QueueStutters
<1>3. CASE SetAside
  <2>1. /\ pc = "search" /\ pc' = "search" /\ held' = held /\ dead' = dead
        /\ 1 \in 1 .. Len(Idle)
        /\ Idle' = RemoveAt(Idle, 1) /\ Aside' = Append(Aside, Idle[1])
    BY <1>3, SetAsideInv DEF SetAside
  <2>2. Append(Aside, Idle[1]) \o RemoveAt(Idle, 1) = Aside \o Idle
    BY <1>1, <2>1, QueueParts
  <2>3. Queue' = Queue
    BY <2>1, <2>2, QueueIdle
  <2> QED BY <2>1, <2>3, QueueStutters
<1>4. ASSUME TakeFirst \/ TakeNone
      PROVE  /\ k \in 0 .. Len(Queue) /\ Queue = Aside \o Idle /\ Queue' = Idle'
             /\ \A m \in 1 .. k : Queue[m] \in dead \intersect Range(Queue)
             /\ {Queue[m] : m \in 1 .. k} = Range(Aside)
             /\ Range(Queue) = Range(Aside) \union Range(Idle)
             /\ Range(Aside) \intersect Range(Idle) = {}
             /\ dead' = dead /\ DOMAIN Queue = 1 .. k + Len(Idle)
             /\ Len(Queue) = k + Len(Idle)
  <2>1. pc = "search" /\ pc' = "closing" /\ dead' = dead
    BY <1>4 DEF TakeFirst, TakeNone, SearchEnds
  <2>2. Queue = Aside \o Idle /\ Queue' = Idle'
    BY <2>1, QueueIdle
  <2>3. /\ k \in Nat /\ Len(Queue) = k + Len(Idle) /\ DOMAIN Queue = 1 .. k + Len(Idle)
        /\ \A i \in 1 .. k : Queue[i] = Aside[i]
        /\ {Queue[i] : i \in 1 .. k} = Range(Aside)
        /\ Range(Queue) = Range(Aside) \union Range(Idle)
    BY <1>1, <2>2, QueueParts
  <2>4. Range(Aside) \subseteq dead /\ Range(Aside) \intersect Range(Idle) = {}
    BY <2>1 DEF PoolInv, LinksInv, PlacesInv
  <2>5. k \in 0 .. Len(Queue)
    BY <2>3, PoolFacts
  <2> QED BY <2>1, <2>2, <2>3, <2>4, <2>5
<1>5. CASE TakeFirst
  <2>1. /\ 1 \in 1 .. Len(Idle) /\ cursor = Idle[1] /\ Idle' = RemoveAt(Idle, 1)
        /\ held' = held \union {cursor} /\ cursor \notin dead
    BY <1>5, TakeFirstInv DEF TakeFirst, Reusable
  <2>2. /\ Queue[k + 1] = cursor
        /\ SubSeq(Queue, k + 2, Len(Queue)) = Idle'
    <3>1. /\ (Aside \o Idle)[Len(Aside) + 1] = Idle[1]
          /\ SubSeq(Aside \o Idle, Len(Aside) + 2, Len(Aside \o Idle)) = RemoveAt(Idle, 1)
      BY <1>1, <2>1, QueueParts
    <3>2. Queue = Aside \o Idle
      BY <1>4, <1>5
    <3> QED BY <2>1, <3>1, <3>2
  <2>3. Range(RemoveAt(Idle, 1)) = Range(Idle) \ {cursor}
    BY <2>1, PoolFacts, PoolAssumption, RemoveEntriesAt
  <2>4. Range(Idle)' = Range(Idle) \ {cursor}
    BY <2>1, <2>3
  <2>5. k + 1 \in DOMAIN Queue
    BY <1>4, <1>5, <2>1, PoolFacts
  <2>6. {Queue[m] : m \in {k + 1} \intersect DOMAIN Queue} = {cursor}
    BY <2>2, <2>5
  <2>7. dead' \intersect Range(Idle)' = (dead \intersect Range(Queue)) \ {Queue[m] : m \in 1 .. k}
    BY <1>4, <1>5, <2>1, <2>4
  <2>8. ToSet(Queue) = Range(Queue) /\ ToSet(Queue)' = Range(Idle)'
    BY <1>4, <1>5 DEF ToSet, Range
  <2> HIDE DEF k
  <2>9. Abstract!Take
    BY <1>4, <1>5, <2>1, <2>2, <2>6, <2>7, <2>8 DEF Abstract!Take
  <2> QED BY <2>9 DEF Abstract!Next
<1>6. CASE TakeNone
  <2>1. Idle = <<>> /\ Idle' = <<>> /\ held' = held
    BY <1>6, TakeNoneInv DEF TakeNone
  <2>2. SubSeq(Queue, k + 2, Len(Queue)) = <<>>
    BY <1>1, <1>4, <1>6, <2>1, QueueParts
  <2>3. Range(Idle)' = {} /\ Range(Idle) = {}
    BY <2>1 DEF Range
  <2>4. ~(k < Len(Queue)) /\ k + 1 \notin DOMAIN Queue
    BY <1>4, <1>6, <2>1
  <2>5. {Queue[m] : m \in {k + 1} \intersect DOMAIN Queue} = {}
    BY <2>4
  <2>6. dead' \intersect Range(Idle)' = (dead \intersect Range(Queue)) \ {Queue[m] : m \in 1 .. k}
    BY <1>4, <1>6, <2>3
  <2>7. ToSet(Queue) = Range(Queue) /\ ToSet(Queue)' = Range(Idle)'
    BY <1>4, <1>6 DEF ToSet, Range
  <2> HIDE DEF k
  <2>8. Abstract!Take
    BY <1>4, <1>6, <2>1, <2>2, <2>4, <2>5, <2>6, <2>7 DEF Abstract!Take
  <2> QED BY <2>8 DEF Abstract!Next
<1>7. CASE CloseInvalid
  <2>1. /\ pc # "search" /\ pc' # "search" /\ held' = held /\ Idle' = Idle
        /\ dead' = dead \ {cursor} /\ cursor \notin Range(Idle)
    BY <1>7, CloseInvalidInv DEF CloseInvalid
  <2> QED BY <2>1, QueueIdle, QueueStutters
<1>8. CASE InvalidClosed
  <2>1. pc # "search" /\ pc' # "search" /\ held' = held /\ Idle' = Idle /\ dead' = dead
    BY <1>8, InvalidClosedInv DEF InvalidClosed
  <2> QED BY <2>1, QueueIdle, QueueStutters
<1> QED BY <1>2, <1>3, <1>5, <1>6, <1>7, <1>8

LEMMA NextQueue ==
  ASSUME PoolInv, HeldAlive, [Next]_vars
  PROVE  [Abstract!Next]_(Abstract!vars)
<1>1. CASE \/ WalkBegins \/ WalkSteps \/ WalkGoesAstray \/ WalkEnds \/ UNCHANGED vars
  <2>1. UNCHANGED <<l, dead, pc, cursor, held>>
    BY <1>1 DEF WalkBegins, WalkSteps, WalkGoesAstray, WalkEnds, vars
  <2>2. Queue' = Queue
    BY <2>1 DEF Queue, Aside, Idle
  <2> QED BY <2>1, <2>2, QueueStutters
<1> QED BY <1>1, CallsAreQueueSteps, WithdrawalIsQueueStep, SearchIsQueueStep DEF Next

\* However it is linked, and whatever the statistics read meanwhile, the event
\* loop's pool is the queue of PoolSeq.
THEOREM PoolIsQueue == Spec => IsPoolSeq
<1>1. Init => PoolInv /\ HeldAlive /\ Abstract!Init
  BY InitInv, InitQueue DEF Init, HeldAlive
<1>2. PoolInv /\ HeldAlive /\ [Next]_vars => PoolInv' /\ HeldAlive' /\ [Abstract!Next]_(Abstract!vars)
  BY NextInv, HeldAliveNext, NextQueue
<1>3. Spec => Abstract!Spec
  BY <1>1, <1>2, PTL DEF Spec, Abstract!Spec
<1> QED BY <1>3 DEF IsPoolSeq

=============================================================================
