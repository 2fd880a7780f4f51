------------------------------ MODULE ListHead ------------------------------
(***************************************************************************)
(* The intrusive list of list.h, on its links.  A list is a ring through a *)
(* head; a structure has one list_head and is in at most one list.  The    *)
(* memory is `l', a function from list_heads to their two pointers.        *)
(***************************************************************************)
EXTENDS Integers, FiniteSetsExt, Sequences

CONSTANTS
  Nodes,     \* addresses of list_heads, of heads and of entries
  NULL

ASSUME ListAssumption == IsFiniteSet(Nodes) /\ NULL \notin Nodes

Links == [Nodes -> [next : Nodes \union {NULL}, prev : Nodes \union {NULL}]]

Unlinked == [next |-> NULL, prev |-> NULL]

InitListHead(l, head) == [l EXCEPT ![head] = [next |-> head, prev |-> head]]

\* __list_add; a fault: one pointer is not redirected.
AddBetweenOneWay(l, new, p, n) ==
  [l EXCEPT ![new] = [next |-> n, prev |-> p], ![p].next = new]
AddBetween(l, new, p, n) ==
  [l EXCEPT ![n].prev = new, ![new] = [next |-> n, prev |-> p], ![p].next = new]

ListAdd(l, new, head)     == AddBetween(l, new, head, l[head].next)
ListAddTail(l, new, head) == AddBetween(l, new, l[head].prev, head)

\* The two assignments of __list_del, which list_del calls with the neighbours
\* of entry, and what list_del does to entry itself; a fault: one assignment
\* is missing.
UnlinkBackward(l, entry) == [l EXCEPT ![l[entry].next].prev = l[entry].prev]
UnlinkForwardNot(l, entry) == l
UnlinkForward(l, entry)  == [l EXCEPT ![l[entry].prev].next = l[entry].next]
Cleared(l, entry) == [l EXCEPT ![entry] = Unlinked]

ListDel(l, entry) == Cleared(UnlinkForward(UnlinkBackward(l, entry), entry), entry)

ListIsLast(l, entry, head) == l[entry].next = head
ListEmpty(l, head)         == l[head].next = head
ListIsSingular(l, head)    == ~ListEmpty(l, head) /\ l[head].next = l[head].prev

-----------------------------------------------------------------------------
(* The lists that links represent. *)

Nexts(l) == [n \in Nodes |-> l[n].next]
Prevs(l) == [n \in Nodes |-> l[n].prev]

\* Where list_for_each is after k steps along `link', if its cursor is set to
\* `from': it stops at the head.  (It cannot go on from NULL either.)
Cursor(link, from, head) ==
  LET at[k \in 0 .. Cardinality(Nodes)] ==
        IF k = 0 THEN from
        ELSE IF at[k - 1] \in {head, NULL} THEN at[k - 1] ELSE link[at[k - 1]]
  IN at

\* The entries it passes before it is at the head; if it never is, all that
\* it can pass.
Passed(link, from, head) ==
  LET at   == Cursor(link, from, head)
      Ends == {k \in DOMAIN at : at[k] = head}
  IN [k \in 1 .. Min(Ends \union {Cardinality(Nodes) + 1}) |-> at[k - 1]]

Forward(l, head)  == Passed(Nexts(l), l[head].next, head)
Backward(l, head) == Passed(Prevs(l), l[head].prev, head)

=============================================================================
