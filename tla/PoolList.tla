------------------------------ MODULE PoolList ------------------------------
(***************************************************************************)
(* The connection pool of connection.c on its links, with two threads: the *)
(* one that runs the event loop, which takes, gives back and withdraws     *)
(* connections, and one that calls get_connection_statiscs.                *)
(*                                                                         *)
(* What the loop does under g_conn_pool_mutex is one step, or one for each *)
(* entry that get_connection looks at.  During the walk of the statistics, *)
(* which also holds it, release_keepalive_connection, which does not take  *)
(* the mutex, goes on.                                                     *)
(*                                                                         *)
(* Nothing in the repository leaves a connection in the pool that is not   *)
(* alive; get_connection is written for it, so it may happen here.         *)
(***************************************************************************)
EXTENDS ListHead, SequencesExt, Functions

CONSTANTS
  Pool,      \* &g_jconnect
  Invalid    \* &invaild_conn, a local variable

ASSUME PoolAssumption == Pool \in Nodes /\ Invalid \in Nodes /\ Pool # Invalid

VARIABLES
  l,         \* the links
  live,      \* connections that are allocated
  dead,      \* those with is_alive = 0
  pc,        \* the event loop: "run", in get_connection, or within list_del
  cursor,    \* its cursor in get_connection, its argument in release_...
  held,      \* connections out of the pool
  walk,      \* the other thread: whether it walks, and its cursor and count
  undercut   \* history: its entry was taken from under its cursor

vars == <<l, live, dead, pc, cursor, held, walk, undercut>>

Conns == Nodes \ {Pool, Invalid}

\* `begun' is the length of the list when the mutex was taken, `removed' the
\* number of entries that have been unlinked since.
WalkType ==
  [st : {"no", "walking", "astray"}, at : Nodes \union {NULL}, i : Nat,
   begun : Nat, removed : Nat]
NoWalk == [st |-> "no", at |-> NULL, i |-> 0, begun |-> 0, removed |-> 0]

\* init_connect_pool.
Init ==
  /\ l = InitListHead([n \in Nodes |-> Unlinked], Pool)
  /\ live = {}
  /\ dead = {}
  /\ pc = "run"
  /\ cursor = NULL
  /\ held = {}
  /\ walk = NoWalk
  /\ undercut = FALSE

\* The mutex is held by the walk, by the search of get_connection, or free:
\* everything else that takes it is one step.  A fault: it is not looked at.
NoMutex == TRUE
MutexFree == walk.st = "no" /\ pc # "search"

-----------------------------------------------------------------------------
(* The event loop. *)

\* malloc in create_transaction.
Allocate(c) ==
  /\ pc = "run"
  /\ c \notin live
  /\ live' = live \union {c}
  /\ held' = held \union {c}
  /\ UNCHANGED <<l, dead, pc, cursor, walk, undercut>>

\* A fault: whatever comes first is reused.
ReusableAll(c) == TRUE
Reusable(c) == c \notin dead

\* get_connection as far as the first comparison of its loop.
GetConnection ==
  /\ pc = "run"
  /\ MutexFree
  /\ l' = InitListHead(l, Invalid)
  /\ cursor' = l[Pool].next
  /\ pc' = "search"
  /\ UNCHANGED <<live, dead, held, walk, undercut>>

\* What precedes the first live entry is moved to the local list, one entry at
\* a time; next is read before that.
SetAside ==
  /\ pc = "search"
  /\ cursor # Pool
  /\ ~Reusable(cursor)
  /\ l' = ListAddTail(ListDel(l, cursor), cursor, Invalid)
  /\ cursor' = l[cursor].next
  /\ UNCHANGED <<live, dead, pc, held, walk, undercut>>

\* The end of the search, and the unlock.
SearchEnds ==
  /\ cursor' = l'[Invalid].next
  /\ pc' = "closing"
  /\ UNCHANGED <<live, dead, walk, undercut>>

TakeFirst ==
  /\ pc = "search"
  /\ cursor # Pool
  /\ Reusable(cursor)
  /\ l' = ListDel(l, cursor)
  /\ held' = held \union {cursor}
  /\ SearchEnds

TakeNone ==
  /\ pc = "search"
  /\ cursor = Pool
  /\ UNCHANGED <<l, held>>
  /\ SearchEnds

\* The memory of a connection is given back; what it holds is anybody's.
Free(links, c) ==
  /\ l' = Cleared(links, c)
  /\ live' = live \ {c}
  /\ dead' = dead \ {c}

\* get_connection after the unlock: next is read before the entry is freed.
CloseInvalid ==
  /\ pc = "closing"
  /\ cursor # Invalid
  /\ cursor' = l[cursor].next
  /\ Free(l, cursor)
  /\ UNCHANGED <<pc, held, walk, undercut>>

InvalidClosed ==
  /\ pc = "closing"
  /\ cursor = Invalid
  /\ pc' = "run"
  /\ cursor' = NULL
  /\ l' = Cleared(l, Invalid)
  /\ UNCHANGED <<live, dead, held, walk, undercut>>

\* release_connection.
ReleaseDead(c) ==
  /\ pc = "run"
  /\ c \in held
  /\ held' = held \ {c}
  /\ Free(l, c)
  /\ UNCHANGED <<pc, cursor, walk, undercut>>

ReleaseAlive(c) ==
  /\ pc = "run"
  /\ MutexFree
  /\ c \in held
  /\ held' = held \ {c}
  /\ l' = ListAddTail(l, c, Pool)
  /\ UNCHANGED <<live, dead, pc, cursor, walk, undercut>>

\* jc->is_alive = 0 for a connection in the pool.
Mark(c) ==
  /\ pc = "run"
  /\ c \in ToSet(Forward(l, Pool)) \ dead
  /\ dead' = dead \union {c}
  /\ UNCHANGED <<l, live, pc, cursor, held, walk, undercut>>

\* release_keepalive_connection for an idle connection, write by write.
ReleaseKeepalive(c) ==
  /\ pc = "run"
  /\ c \in ToSet(Forward(l, Pool))
  /\ pc' = "backward"
  /\ cursor' = c
  /\ UNCHANGED <<l, live, dead, held, walk, undercut>>

UnlinksBackward ==
  /\ pc = "backward"
  /\ l' = UnlinkBackward(l, cursor)
  /\ pc' = "forward"
  /\ UNCHANGED <<live, dead, cursor, held, walk, undercut>>

UnlinksForward ==
  /\ pc = "forward"
  /\ l' = UnlinkForward(l, cursor)
  /\ walk' = [walk EXCEPT !.removed = IF walk.st = "walking" THEN @ + 1 ELSE @]
  /\ pc' = "clear"
  /\ UNCHANGED <<live, dead, cursor, held, undercut>>

\* The entry's own links, and then the entry, are no longer there.
Undercuts == undercut' = (undercut \/ (walk.st = "walking" /\ walk.at = cursor))

Clears ==
  /\ pc = "clear"
  /\ l' = Cleared(l, cursor)
  /\ Undercuts
  /\ pc' = "free"
  /\ UNCHANGED <<live, dead, cursor, held, walk>>

Frees ==
  /\ pc = "free"
  /\ Free(l, cursor)
  /\ Undercuts
  /\ pc' = "run"
  /\ cursor' = NULL
  /\ UNCHANGED <<held, walk>>

-----------------------------------------------------------------------------
(* get_connection_statiscs. *)

WalkBegins ==
  /\ MutexFree
  /\ walk' = [st |-> "walking", at |-> l[Pool].next, i |-> 0,
              begun |-> Len(Forward(l, Pool)), removed |-> 0]
  /\ undercut' = FALSE
  /\ UNCHANGED <<l, live, dead, pc, cursor, held>>

WalkSteps ==
  /\ walk.st = "walking"
  /\ walk.at \in live
  /\ walk' = [walk EXCEPT !.at = l[walk.at].next, !.i = @ + 1]
  /\ UNCHANGED <<l, live, dead, pc, cursor, held, undercut>>

\* It reads what has been freed, or follows a NULL pointer.
WalkGoesAstray ==
  /\ walk.st = "walking"
  /\ walk.at \notin live \union {Pool}
  /\ walk' = [walk EXCEPT !.st = "astray"]
  /\ UNCHANGED <<l, live, dead, pc, cursor, held, undercut>>

WalkEnds ==
  /\ walk.st = "walking"
  /\ walk.at = Pool
  /\ walk' = NoWalk
  /\ UNCHANGED <<l, live, dead, pc, cursor, held, undercut>>

-----------------------------------------------------------------------------

Next ==
  \/ GetConnection \/ SetAside \/ TakeFirst \/ TakeNone
  \/ CloseInvalid \/ InvalidClosed
  \/ \E c \in Conns :
       Allocate(c) \/ ReleaseDead(c) \/ ReleaseAlive(c) \/ Mark(c) \/ ReleaseKeepalive(c)
  \/ UnlinksBackward \/ UnlinksForward \/ Clears \/ Frees
  \/ WalkBegins \/ WalkSteps \/ WalkGoesAstray \/ WalkEnds

Spec == Init /\ [][Next]_vars

-----------------------------------------------------------------------------
(* Properties. *)

Idle == Forward(l, Pool)

\* The variables have their types; a connection that is freed has no flags.
TypeOK ==
  /\ l \in Links
  /\ live \subseteq Conns /\ dead \subseteq live /\ held \subseteq live
  /\ pc \in {"run", "search", "closing", "backward", "forward", "clear", "free"}
  /\ cursor \in Nodes \union {NULL}
  /\ walk \in WalkType
  /\ undercut \in BOOLEAN

\* However entries come and go, through the local list too, the links of the
\* pool stand for a sequence: a walk along prev is the reverse of one along
\* next, except between the two writes of a deletion, and an entry may be put
\* at either end or taken from anywhere with the effect that has on a sequence,
\* for which list_empty, list_is_singular and list_is_last answer.
RingsAreSequences ==
  pc # "forward" =>
    /\ Backward(l, Pool) = Reverse(Idle)
    /\ \A c \in held :
         LET front == ListAdd(l, c, Pool)
             back  == ListAddTail(l, c, Pool)
         IN /\ Forward(front, Pool) = <<c>> \o Idle
            /\ Backward(front, Pool) = Reverse(Idle) \o <<c>>
            /\ Forward(back, Pool) = Idle \o <<c>>
            /\ Backward(back, Pool) = <<c>> \o Reverse(Idle)
    /\ \A k \in DOMAIN Idle :
         LET without == ListDel(l, Idle[k])
         IN /\ Forward(without, Pool) = RemoveAt(Idle, k)
            /\ Backward(without, Pool) = Reverse(RemoveAt(Idle, k))
    /\ ListEmpty(l, Pool) <=> Idle = <<>>
    /\ ListIsSingular(l, Pool) <=> Len(Idle) = 1
    /\ \A c \in ToSet(Idle) : ListIsLast(l, c, Pool) <=> c = Last(Idle)

\* The connections on the local list of get_connection that are not freed yet.
Aside ==
  CASE pc = "search"  -> Forward(l, Invalid)
    [] pc = "closing" -> Passed(Nexts(l), cursor, Invalid)
    [] OTHER          -> <<>>

\* The connection between list_del's last assignment to its neighbours and free.
Leaving == IF pc \in {"clear", "free"} THEN {cursor} ELSE {}

\* Every allocated connection is in exactly one place: held, in the pool, on the
\* local list of get_connection, or being withdrawn; it is listed once, and the
\* loop's own cursor never points to freed memory.  (And the variables have
\* their types.)
OnePlace ==
  /\ TypeOK
  /\ live = held \union ToSet(Idle) \union ToSet(Aside) \union Leaving
  /\ held \intersect (ToSet(Idle) \union ToSet(Aside) \union Leaving) = {}
  /\ Leaving \intersect (ToSet(Idle) \union ToSet(Aside)) = {}
  /\ IsInjective(Aside \o Idle)
  /\ cursor \in live \union {Pool, Invalid, NULL}

\* The statistics follow a pointer into nowhere only when the event loop, which
\* does not take the mutex, withdraws the very entry they have reached.
\* Otherwise what they print is the length of the pool, less what was withdrawn
\* during the walk: nothing else can change the list meanwhile, and no entry is
\* passed twice.
CountRight ==
  /\ walk.st = "astray" => undercut
  /\ walk.st = "walking" =>
       /\ walk.i <= walk.begun
       /\ walk.at = Pool => walk.i >= walk.begun - walk.removed

\* What the pool holds until get_connection has found an entry or the end: the
\* entries it has set aside are the first ones.
Queue == IF pc = "search" THEN Aside \o Idle ELSE Idle

\* The event loop gets the pool PoolSeq promises, with connections in their
\* order, none lost and none found twice, whatever the other thread does.
Abstract == INSTANCE PoolSeq
  WITH idle <- Queue, dead <- dead \intersect ToSet(Queue)
IsPoolSeq == Abstract!Spec

=============================================================================
