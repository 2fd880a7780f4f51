------------------------------- MODULE Server -------------------------------
(***************************************************************************)
(* The jujube server: the loop of server.c, the connections it accepts and *)
(* the slots they take in the event table.  server.c is written against an *)
(* earlier interface of event.c, in which a slot points to its stream      *)
(* without a jconnect between them; here a slot's `jc' is that pointer and *)
(* Conns are the addresses of streams.                                     *)
(*                                                                         *)
(* The loop runs                                                           *)
(*                                                                         *)
(*     expires_house_keeping ; epoll_wait ; call-backs                     *)
(*                                                                         *)
(* The listening socket has the slot at index MAX_EVENTS, the one behind   *)
(* those that evget hands out and that house-keeping looks at.  What       *)
(* data_transfer does with the bytes of one connection is the subject of   *)
(* Receiver; here its outcome is chosen freely.                            *)
(***************************************************************************)
EXTENDS EventTable

CONSTANT
  Backlog      \* bound: connections the kernel keeps for accept (128)

ASSUME ServerAssumption == Backlog \in Nat \ {0}

VARIABLES
  lsn,         \* g_events[MAX_EVENTS]: its status
  listening,   \* epoll watches the listening socket, which does listen
  backlog,     \* connections that are waiting to be accepted
  sock,        \* the kernel's side of every accepted descriptor
  heap,        \* the streams that are allocated
  checkpos,    \* where the next expires_house_keeping starts
  pc,          \* where the loop is, or how the process died
  batch,       \* events returned by epoll_wait and not yet handled
  lost         \* history: descriptors accept_conn has dropped

table == <<ev, interest>>
vars == <<ev, interest, lsn, listening, backlog, sock, heap, checkpos, pc,
          batch, lost>>

Listener == MaxEvents
Phases == {"expire", "wait", "dispatch"}
Running == pc \in Phases

\* "data": unread input; "fin", "reset": the peer has ended.
SockType == {"closed", "quiet", "data", "fin", "reset"}

ClosedFds == {f \in Fds : sock[f] = "closed"}
OpenFds   == Fds \ ClosedFds

\* init_listensocket registers the listening slot; nothing checks whether
\* bind(), listen() and epoll_ctl() have succeeded.
Init ==
  /\ TableInit
  /\ lsn = 1
  /\ listening \in BOOLEAN
  /\ backlog = 0
  /\ sock = [f \in Fds |-> "closed"]
  /\ heap = {}
  /\ checkpos = 0
  /\ pc = "expire"
  /\ batch = {}
  /\ lost = {}

-----------------------------------------------------------------------------
(* close_stream and expires_house_keeping. *)

\* A fault: the stream is freed, its descriptor stays open.
CloseStreamsOpen(S) ==
  /\ EventDel(S, {})
  /\ heap' = heap \ {ev[i].jc : i \in S}
  /\ sock' = sock

\* close_stream on the slots S: unregistered, closed and freed.
CloseStreams(S) ==
  LET fds == {ev[i].fd : i \in S} IN
  /\ EventDel(S, fds)
  /\ heap' = heap \ {ev[i].jc : i \in S}
  /\ sock' = [f \in Fds |-> IF f \in fds THEN "closed" ELSE sock[f]]

\* The positions house-keeping looks at; a fault: it wraps one slot too late.
PassesListener == Visited(checkpos) \union {Listener}
Passes == Visited(checkpos)

\* The listening slot is never refreshed after init_listensocket: it would
\* expire, were it looked at.  (Its age is left out: it is overdue for good
\* once the time-out has passed.)
ListenerExpires == Listener \in Passes /\ lsn = 1

\* main_rcv_loop runs house-keeping before epoll_wait; a fault: also after it.
AtExpiryAlsoLate == pc \in {"expire", "dispatch"}
AtExpiry == pc = "expire"

HouseKeeping ==
  /\ AtExpiry
  /\ CloseStreams(Expired(checkpos))
  /\ lsn' = IF ListenerExpires THEN 0 ELSE lsn
  /\ listening' = (listening /\ ~ListenerExpires)
  /\ checkpos' = NextPos(checkpos)
  /\ pc' = "wait"
  /\ UNCHANGED <<backlog, batch, lost>>

-----------------------------------------------------------------------------
(* epoll_wait. *)

\* What epoll reports of a descriptor: input or the end of it only if asked
\* for, a reset in any case.
Reports(f) ==
  LET asked == interest[f].mask IN
  CASE sock[f] \in {"data", "fin"} -> {"IN"} \intersect asked
    [] sock[f] = "reset"           -> {"IN"} \intersect asked
    [] OTHER                       -> {}

Ready == {f \in OpenFds : interest[f] # NULL /\ (Reports(f) # {} \/ sock[f] = "reset")}

ListenerReady == listening /\ backlog > 0

\* With nothing to report it returns after a second, or at a signal.
EpollWait ==
  /\ pc = "wait"
  /\ batch' = {[slot |-> interest[f].slot, bits |-> Reports(f)] : f \in Ready}
              \union (IF ListenerReady THEN {[slot |-> Listener, bits |-> {"IN"}]} ELSE {})
  /\ pc' = IF batch' = {} THEN "expire" ELSE "dispatch"
  /\ UNCHANGED <<table, lsn, listening, backlog, sock, heap, checkpos, lost>>

\* The loop takes event e of the batch, and after the last one starts over.
Handle(e) ==
  /\ pc = "dispatch"
  /\ e \in batch
  /\ batch' = batch \ {e}

Handled(e) == pc' = IF batch = {e} THEN "expire" ELSE "dispatch"

-----------------------------------------------------------------------------
(* accept_conn. *)

\* accept() returns -1: no descriptor is left, or the client has gone.
AcceptFails(e) ==
  /\ Handle(e)
  /\ e.slot = Listener
  /\ \/ ClosedFds = {} /\ UNCHANGED backlog
     \/ ClosedFds # {} /\ backlog' = backlog - 1
  /\ Handled(e)
  /\ UNCHANGED <<table, lsn, listening, sock, heap, checkpos, lost>>

\* accept() returns the descriptor f.
Accepted(e, f) ==
  /\ Handle(e)
  /\ e.slot = Listener
  /\ f \in ClosedFds
  /\ backlog' = backlog - 1
  /\ sock' = [sock EXCEPT ![f] = "quiet"]
  /\ UNCHANGED <<lsn, listening, checkpos>>

\* The table is full, or fcntl() fails, which it may at any time: the block is
\* left by `break' with the descriptor open and nobody's.
AcceptDrops(e, f) ==
  /\ Accepted(e, f)
  /\ lost' = lost \union {f}
  /\ Handled(e)
  /\ UNCHANGED <<table, heap>>

\* A stream j and the lowest free slot: accept_conn looks for one, then evget
\* looks again and finds the same.
AcceptConn(e, f) ==
  /\ Accepted(e, f)
  /\ ~TableFull
  /\ \E i \in Slots, j \in Conns \ heap :
       /\ FirstFree(i)
       /\ heap' = heap \union {j}
       /\ EventAdd(i, EventSet(f, j, "data_transfer"), {"IN"})
  /\ Handled(e)
  /\ UNCHANGED lost

-----------------------------------------------------------------------------
(* data_transfer. *)

\* Some of the input is read and the connection goes on; input is no longer
\* asked for when out_buf has been filled.
TransferMore(e) ==
  LET f == ev[e.slot].fd IN
  /\ Handle(e)
  /\ e.slot # Listener
  /\ e.bits = {"IN"}
  /\ sock[f] = "data"
  /\ \E left \in {"quiet", "data"} : sock' = [sock EXCEPT ![f] = left]
  /\ \E mask \in {{"IN"}, {}} : EventAdd(e.slot, ev[e.slot], mask)
  /\ Handled(e)
  /\ UNCHANGED <<lsn, listening, backlog, heap, checkpos, lost>>

\* The message is complete or refused, or there is nothing more to read.
TransferEnds(e) ==
  /\ Handle(e)
  /\ e.slot # Listener
  /\ CloseStreams({e.slot})
  /\ Handled(e)
  /\ UNCHANGED <<lsn, listening, backlog, checkpos, lost>>

\* assert(buf_data_size(s->out_buf) == 0) fails: see Receiver.
TransferAborts(e) ==
  /\ Handle(e)
  /\ e.slot # Listener
  /\ e.bits = {"IN"}
  /\ pc' = "aborted"
  /\ UNCHANGED <<table, lsn, listening, backlog, sock, heap, checkpos, lost>>

-----------------------------------------------------------------------------
(* Clients, the network and the clock. *)

ClientConnects ==
  /\ backlog < Backlog
  /\ backlog' = backlog + 1
  /\ UNCHANGED <<table, lsn, listening, sock, heap, checkpos, pc, batch, lost>>

\* Nothing looks at a descriptor that is lost.
SockMoves(f, from, to) ==
  /\ f \notin lost
  /\ sock[f] \in from
  /\ sock' = [sock EXCEPT ![f] = to]
  /\ UNCHANGED <<table, lsn, listening, backlog, heap, checkpos, pc, batch, lost>>

Arrives(f) == SockMoves(f, {"quiet"}, "data")
Finishes(f) == SockMoves(f, {"quiet"}, "fin")
Resets(f) == SockMoves(f, {"quiet", "data", "fin"}, "reset")

Tick ==
  /\ pc \in {"wait", "dispatch"}
  /\ ev' = [i \in Slots |-> Older(i)]
  /\ UNCHANGED <<interest, lsn, listening, backlog, sock, heap, checkpos, pc, batch, lost>>

-----------------------------------------------------------------------------

\* A client is taken from the backlog.
Accept ==
  \E e \in batch :
    \/ AcceptFails(e)
    \/ \E f \in Fds : AcceptDrops(e, f) \/ AcceptConn(e, f)

Transfer == \E e \in batch : TransferMore(e) \/ TransferEnds(e) \/ TransferAborts(e)

Loop == HouseKeeping \/ EpollWait \/ Accept \/ Transfer

Outside == ClientConnects \/ \E f \in Fds : Arrives(f) \/ Finishes(f) \/ Resets(f)

Next == Loop \/ Outside \/ Tick

Spec == Init /\ [][Next]_vars

\* The loop waits only in epoll_wait, for a second at most, and the clock does
\* not stop.  Nothing is asked of the clients.
FairSpec == Spec /\ WF_vars(Loop) /\ SF_vars(Tick)

-----------------------------------------------------------------------------
(* Properties. *)

\* The variables have their types.
TypeOK ==
  /\ TableTypeOK
  /\ lsn \in {0, 1}
  /\ listening \in BOOLEAN
  /\ backlog \in 0 .. Backlog
  /\ sock \in [Fds -> SockType]
  /\ heap \in SUBSET Conns
  /\ checkpos \in 0 .. MaxEvents
  /\ pc \in Phases \union {"aborted"}
  /\ batch \in SUBSET [slot : Slots \union {Listener}, bits : SUBSET Bits]
  /\ lost \in SUBSET Fds

\* Every accepted descriptor that is open is that of exactly one registered
\* slot, or was dropped by accept_conn; every stream that is allocated is that
\* of exactly one registered slot.  close_stream, which callbacks and
\* house-keeping both reach, neither loses nor shares anything.  (And the
\* variables have their types, which keeps checkpos within the table.)
Owned ==
  /\ TypeOK
  /\ Running =>
       /\ OpenFds = {ev[i].fd : i \in Live} \union lost
       /\ \A i \in Live : ev[i].fd \notin lost
       /\ heap = {ev[i].jc : i \in Live}
       /\ \A i, k \in Live : ev[i].fd = ev[k].fd \/ ev[i].jc = ev[k].jc => i = k

\* Events of one batch stay valid while earlier ones are handled, although
\* accept_conn, run from the same batch, hands out slots and descriptors that
\* have just been given up: each is for the listener or for a slot still
\* registered, whose stream is allocated and whose descriptor is watched for
\* that slot.
BatchFresh ==
  Running =>
    \A e \in batch : e.slot # Listener =>
      /\ e.slot \in Live
      /\ ev[e.slot].jc \in heap
      /\ interest[ev[e.slot].fd] # NULL
      /\ interest[ev[e.slot].fd].slot = e.slot

\* The listening slot is overdue nearly always, and no house-keeping pass, from
\* whatever position, reaches it: if init_listensocket has succeeded then, as
\* long as there are clients waiting and descriptors to give them, again and
\* again, the server goes on taking clients, whatever its other connections do.
AcceptsAgain ==
  listening /\ []<>(backlog > 0 /\ ClosedFds # {}) => []<><<Accept>>_vars \/ <>~Running

\* No connection outlives its peer: one that is silent, or has ended, or whose
\* input is no longer asked for, is closed, though every read refreshes
\* last_active and epoll may have refused to watch it.
SilentEnd ==
  \A i \in Slots :
    []<>(\/ ev[i].status = 0
         \/ sock[ev[i].fd] = "data" /\ interest[ev[i].fd] # NULL /\ interest[ev[i].fd].mask = {"IN"}
         \/ ~Running)

=============================================================================
