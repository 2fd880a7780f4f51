---------------------------- MODULE ServerProofs ----------------------------
(* The server is safe: proofs of the safety properties of Server, for every *)
(* number of slots, descriptors and streams and every time-out.             *)
(*                                                                          *)
(* The argument.  Owned speaks of the slots, the kernel's descriptors and   *)
(* the heap, but not of what epoll remembers, and an event is handled only  *)
(* by what epoll remembered when it was reported.  So ServerInv adds        *)
(* Watched (epoll watches nothing but the descriptors of registered slots,  *)
(* each for its own slot) and Pending (the events not yet handled are of    *)
(* different slots, so that a callback which gives its slot up takes no     *)
(* other event's slot away; and one is for the listener only while a client *)
(* waits).  These are inductive: streams are closed (by a callback or by    *)
(* house-keeping), one is made, one goes on, and all other steps leave the  *)
(* slots alone.                                                             *)
EXTENDS Server, EventTableProofs

\* The second conjunct of Owned.
Ownership ==
  /\ OpenFds = {ev[i].fd : i \in Live} \union lost
  /\ \A i \in Live : ev[i].fd \notin lost
  /\ heap = {ev[i].jc : i \in Live}
  /\ \A i, k \in Live : ev[i].fd = ev[k].fd \/ ev[i].jc = ev[k].jc => i = k

\* epoll watches descriptors of registered slots only, each for its slot.
Watched ==
  \A f \in Fds : interest[f] # NULL =>
    interest[f].slot \in Live /\ ev[interest[f].slot].fd = f

\* Every event has something to work on, of its own.
Pending ==
  /\ \A e \in batch : e.slot # Listener =>
       e.slot \in Live /\ interest[ev[e.slot].fd] # NULL
  /\ \A d, e \in batch : d.slot = e.slot => d = e
  /\ \A e \in batch : e.slot = Listener => backlog > 0
  /\ pc \in {"expire", "wait"} => batch = {}

ServerInv == TypeOK /\ Ownership /\ Watched /\ Pending

-----------------------------------------------------------------------------
(* Facts about a state in which the invariant holds. *)

\* A registered slot has a descriptor that is open and a stream.
LEMMA LiveSlot ==
  ASSUME TypeOK, Ownership, NEW i \in Live
  PROVE  i \in Slots /\ ev[i].fd \in OpenFds /\ ev[i].fd \in Fds /\ ev[i].jc \in heap
         /\ ev[i].jc \in Conns
BY DEF TypeOK, Ownership, Live, OpenFds

\* The listening slot is none of those evget hands out.
LEMMA ListenerApart == Listener \notin Slots
BY TableAssumption DEF Listener, Slots

\* What house-keeping finds expired is registered.
LEMMA ExpiredLive ==
  ASSUME TypeOK
  PROVE  Expired(checkpos) \in SUBSET Live
BY VisitsAll DEF Expired, Live, TypeOK

-----------------------------------------------------------------------------
(* close_stream. *)

\* The streams of registered slots are closed: their slots, descriptors and
\* addresses are free, and nothing else changes.
LEMMA CloseEffect ==
  ASSUME TypeOK, Ownership, Watched, NEW S \in SUBSET Live, CloseStreams(S), lost' = lost
  PROVE  /\ Ownership' /\ Watched' /\ TableTypeOK'
         /\ sock' \in [Fds -> SockType] /\ heap' \in SUBSET Conns
         /\ Live' = Live \ S
         /\ \A i \in Live \ S : ev'[i] = ev[i] /\ interest'[ev[i].fd] = interest[ev[i].fd]
<1> DEFINE fds == {ev[i].fd : i \in S}
<1>1. EventDel(S, fds) /\ heap' = heap \ {ev[i].jc : i \in S}
      /\ sock' = [f \in Fds |-> IF f \in fds THEN "closed" ELSE sock[f]]
  BY DEF CloseStreams
<1>2. TableTypeOK'
  BY <1>1, EventDelType DEF TypeOK
<1>3. Live' = Live \ S /\ \A i \in Live \ S : ev'[i] = ev[i]
  BY <1>1, EventDelEffect DEF TypeOK
<1>4. \A i \in Live : ev[i].fd \in fds <=> i \in S
  BY DEF Ownership
<1>5. \A f \in Fds : interest'[f] = IF f \in fds THEN NULL ELSE interest[f]
  <2>1. \A f \in Fds : (\E i \in S \cap Live : ev[i].fd = f) <=> f \in fds
    OBVIOUS
  <2> QED BY <1>1, <2>1 DEF EventDel
<1>6. OpenFds' = OpenFds \ fds
  BY <1>1 DEF OpenFds, ClosedFds
<1>7. Ownership'
  <2>1. OpenFds' = {ev'[i].fd : i \in Live'} \union lost'
    BY <1>3, <1>4, <1>6 DEF Ownership
  <2>2. heap' = {ev'[i].jc : i \in Live'}
    BY <1>1, <1>3 DEF Ownership
  <2> QED BY <2>1, <2>2, <1>3 DEF Ownership
<1>8. Watched'
  <2> SUFFICES ASSUME NEW f \in Fds, interest'[f] # NULL
               PROVE  interest'[f].slot \in Live' /\ ev'[interest'[f].slot].fd = f
    BY DEF Watched
  <2>1. interest'[f] = interest[f] /\ f \notin fds
    BY <1>5
  <2>2. interest[f].slot \in Live /\ ev[interest[f].slot].fd = f
    BY <2>1 DEF Watched
  <2> QED BY <2>1, <2>2, <1>3, <1>4
<1>9. sock' \in [Fds -> SockType] /\ heap' \in SUBSET Conns
  BY <1>1 DEF TypeOK, SockType
<1> QED
  BY <1>2, <1>3, <1>4, <1>5, <1>7, <1>8, <1>9, LiveSlot

\* House-keeping, which finds no event pending.
LEMMA HouseKeepingInv ==
  ASSUME ServerInv, HouseKeeping
  PROVE  ServerInv'
<1> USE DEF ServerInv
<1>1. CloseStreams(Expired(checkpos)) /\ lost' = lost /\ batch' = batch /\ batch = {}
  BY DEF HouseKeeping, AtExpiry, Pending
<1>2. /\ Ownership' /\ Watched' /\ TableTypeOK'
      /\ sock' \in [Fds -> SockType] /\ heap' \in SUBSET Conns
  BY <1>1, ExpiredLive, CloseEffect
<1>3. NextPos(checkpos) \in 0 .. MaxEvents
  BY TableAssumption DEF NextPos, TypeOK
<1>4. TypeOK'
  BY <1>2, <1>3 DEF HouseKeeping, TypeOK, Phases
<1>5. Pending'
  BY <1>1 DEF Pending
<1> QED BY <1>2, <1>4, <1>5

\* A callback that ends: its slot goes, and no event left is of that slot.
LEMMA TransferEndsInv ==
  ASSUME ServerInv, NEW e \in batch, TransferEnds(e)
  PROVE  ServerInv'
<1> USE DEF ServerInv
<1>1. /\ pc = "dispatch" /\ e.slot # Listener /\ batch' = batch \ {e} /\ lost' = lost
      /\ CloseStreams({e.slot}) /\ Handled(e)
      /\ UNCHANGED <<lsn, listening, backlog, checkpos>>
  BY DEF TransferEnds, Handle
<1>2. {e.slot} \in SUBSET Live
  BY <1>1 DEF Pending
<1>3. /\ Ownership' /\ Watched' /\ TableTypeOK'
      /\ sock' \in [Fds -> SockType] /\ heap' \in SUBSET Conns
      /\ Live' = Live \ {e.slot}
      /\ \A i \in Live \ {e.slot} : ev'[i] = ev[i] /\ interest'[ev[i].fd] = interest[ev[i].fd]
  BY <1>1, <1>2, CloseEffect
<1>4. TypeOK'
  BY <1>1, <1>3 DEF TypeOK, Handled, Phases
<1>5. Pending'
  <2>1. \A d \in batch' : d.slot # e.slot
    BY <1>1 DEF Pending
  <2>2. ASSUME NEW d \in batch', d.slot # Listener
        PROVE  d.slot \in Live' /\ interest'[ev'[d.slot].fd] # NULL
    BY <1>1, <1>3, <2>1, <2>2 DEF Pending
  <2> QED BY <1>1, <2>2 DEF Pending, Handled
<1> QED BY <1>3, <1>4, <1>5

-----------------------------------------------------------------------------
(* accept_conn. *)

\* The event for the listener is taken: it was the only one, and a client
\* waited for it.
LEMMA ListenerEvent ==
  ASSUME ServerInv, NEW e \in batch, Handle(e), e.slot = Listener
  PROVE  /\ \A d \in batch' : d \in batch /\ d.slot # Listener
         /\ backlog - 1 \in 0 .. Backlog
         /\ batch' \in SUBSET [slot : Slots \union {Listener}, bits : SUBSET Bits]
         /\ Handled(e) => pc' \in Phases /\ (pc' \in {"expire", "wait"} => batch' = {})
<1>1. \A d \in batch' : d \in batch /\ d.slot # Listener
  BY DEF ServerInv, Pending, Handle
<1>2. backlog - 1 \in 0 .. Backlog
  BY ServerAssumption DEF ServerInv, TypeOK, Pending
<1> QED BY <1>1, <1>2 DEF ServerInv, TypeOK, Handle, Handled, Phases

\* The slots are as they were: so is all that is said of them, and no event
\* is left for the listener.
LEMMA SlotsUntouched ==
  ASSUME ServerInv, UNCHANGED <<ev, interest, heap>>, TypeOK',
         \A f \in Fds : f \in OpenFds' <=> f \in OpenFds \/ f \in lost' \ lost,
         lost \subseteq lost', \A f \in lost' \ lost : f \notin OpenFds,
         batch' \subseteq batch,
         \A e \in batch' : e.slot = Listener => backlog' > 0,
         pc' \in {"expire", "wait"} => batch' = {}
  PROVE  ServerInv'
<1> USE DEF ServerInv
<1>1. Live' = Live
  BY DEF Live
<1>2. OpenFds' = OpenFds \union (lost' \ lost)
  BY DEF OpenFds, TypeOK
<1>3. Ownership'
  <2>1. \A i \in Live : ev[i].fd \notin lost'
    BY LiveSlot DEF Ownership
  <2> QED BY <1>1, <1>2, <2>1 DEF Ownership
<1>4. Watched'
  BY <1>1 DEF Watched
<1>5. Pending'
  BY <1>1 DEF Pending
<1> QED BY <1>3, <1>4, <1>5

\* accept_conn without a descriptor, or with one it drops.
LEMMA AcceptNothingInv ==
  ASSUME ServerInv, NEW e \in batch,
         AcceptFails(e) \/ \E f \in Fds : AcceptDrops(e, f)
  PROVE  ServerInv'
<1>1. CASE AcceptFails(e)
  <2>1. TypeOK'
    BY <1>1, ListenerEvent DEF AcceptFails, ServerInv, TypeOK, TableTypeOK, table
  <2> QED BY <1>1, <2>1, SlotsUntouched, ListenerEvent
          DEF AcceptFails, table, OpenFds, ClosedFds, ServerInv
<1>2. ASSUME NEW f \in Fds, AcceptDrops(e, f) PROVE ServerInv'
  <2> USE <1>2 DEF AcceptDrops, Accepted, table
  <2>1. TypeOK'
    BY ListenerEvent DEF ServerInv, TypeOK, TableTypeOK, SockType
  <2>2. OpenFds' = OpenFds \union {f} /\ f \notin OpenFds
    BY DEF OpenFds, ClosedFds, ServerInv, TypeOK
  <2>3. lost' \ lost = {f}
    BY <2>2 DEF ServerInv, Ownership
  <2> QED BY <2>1, <2>2, <2>3, SlotsUntouched, ListenerEvent
<1> QED BY <1>1, <1>2

\* A new stream, its slot and its descriptor are owned by each other only; the
\* events of the batch are of other slots.
LEMMA AcceptConnInv ==
  ASSUME ServerInv, NEW e \in batch, NEW f \in Fds, AcceptConn(e, f)
  PROVE  ServerInv'
<1> USE DEF ServerInv
<1>1. PICK i \in Slots, j \in Conns \ heap :
         /\ FirstFree(i)
         /\ heap' = heap \union {j}
         /\ EventAdd(i, EventSet(f, j, "data_transfer"), {"IN"})
  BY DEF AcceptConn
<1>2. /\ Accepted(e, f) /\ Handled(e) /\ lost' = lost
  BY DEF AcceptConn
<1>3. i \notin Live /\ f \notin OpenFds /\ j \notin heap
  BY <1>1, <1>2 DEF FirstFree, Live, Accepted, OpenFds
<1>4. EventSet(f, j, "data_transfer") \in SlotType
  BY <1>1, TableAssumption DEF EventSet, SlotType, Callbacks
<1>5. TableTypeOK'
  BY <1>1, <1>4, EventAddType DEF TypeOK, Bits
<1>6. TypeOK'
  BY <1>1, <1>2, <1>5, ListenerEvent DEF Accepted, TypeOK, SockType
<1>7. \A k \in Slots : ev'[k] = IF k = i THEN Registered(EventSet(f, j, "data_transfer"))
                                 ELSE ev[k]
  BY <1>1 DEF EventAdd, TypeOK, TableTypeOK
<1>8. /\ Live' = Live \union {i}
      /\ \A k \in Live : ev'[k] = ev[k] /\ k # i
      /\ ev'[i].fd = f /\ ev'[i].jc = j
  BY <1>3, <1>7 DEF Live, Registered, EventSet
<1>9. OpenFds' = OpenFds \union {f}
  BY <1>2 DEF Accepted, OpenFds, ClosedFds, TypeOK
<1>10. Ownership'
  <2>1. /\ \A k \in Live : ev[k].fd # f /\ ev[k].jc # j
        /\ f \notin lost
    BY <1>3, LiveSlot DEF Ownership
  <2>2. OpenFds' = {ev'[k].fd : k \in Live'} \union lost'
    BY <1>2, <1>8, <1>9 DEF Ownership
  <2>3. heap' = {ev'[k].jc : k \in Live'}
    BY <1>1, <1>8 DEF Ownership
  <2>4. \A k \in Live' : ev'[k].fd \notin lost'
    BY <1>2, <1>8, <2>1 DEF Ownership
  <2>5. \A k, l \in Live' : ev'[k].fd = ev'[l].fd \/ ev'[k].jc = ev'[l].jc => k = l
    BY <1>8, <2>1 DEF Ownership
  <2> QED BY <2>2, <2>3, <2>4, <2>5 DEF Ownership
<1>11. /\ \A g \in Fds : g # f => interest'[g] = interest[g]
       /\ interest'[f] # NULL => interest'[f].slot = i
  <2>1. interest[f] = NULL
    BY <1>3, LiveSlot DEF Watched
  <2>2. EpollAdd(i, f, {"IN"})
    BY <1>1 DEF EventAdd, EventSet
  <2> QED BY <2>1, <2>2 DEF EpollAdd, TypeOK, TableTypeOK
<1>12. Watched'
  BY <1>8, <1>11 DEF Watched
<1>13. Pending'
  <2>1. /\ \A d \in batch' : d \in batch /\ d.slot # Listener
        /\ pc' \in {"expire", "wait"} => batch' = {}
    BY <1>2, ListenerEvent DEF Accepted
  <2>2. \A d \in batch' : d.slot \in Live' /\ interest'[ev'[d.slot].fd] # NULL
    <3> SUFFICES ASSUME NEW d \in batch'
                 PROVE  d.slot \in Live' /\ interest'[ev'[d.slot].fd] # NULL
      OBVIOUS
    <3>1. d.slot \in Live /\ interest[ev[d.slot].fd] # NULL
      BY <2>1 DEF Pending
    <3>2. ev[d.slot].fd # f /\ ev[d.slot].fd \in Fds
      BY <3>1, <1>3, LiveSlot
    <3> QED BY <3>1, <3>2, <1>8, <1>11
  <2> QED BY <2>1, <2>2 DEF Pending
<1> QED BY <1>6, <1>10, <1>12, <1>13

-----------------------------------------------------------------------------
(* data_transfer goes on. *)

\* The slot is registered again, with the mask the stream now asks for.
LEMMA TransferMoreInv ==
  ASSUME ServerInv, NEW e \in batch, TransferMore(e)
  PROVE  ServerInv'
<1> USE DEF ServerInv
<1> DEFINE i == e.slot
           f == ev[i].fd
<1>1. /\ pc = "dispatch" /\ i # Listener /\ batch' = batch \ {e} /\ lost' = lost
      /\ Handled(e) /\ sock[f] = "data"
      /\ UNCHANGED <<lsn, listening, backlog, heap, checkpos>>
  BY DEF TransferMore, Handle
<1>2. i \in Live /\ i \in Slots /\ f \in Fds /\ f \in OpenFds
  BY <1>1, LiveSlot DEF Pending
<1>3. PICK left \in {"quiet", "data"} : sock' = [sock EXCEPT ![f] = left]
  BY DEF TransferMore
<1>4. PICK mask \in {{"IN"}, {}} : EventAdd(i, ev[i], mask)
  BY DEF TransferMore
<1>5. TableTypeOK'
  <2>1. ev[i] \in SlotType /\ mask \in SUBSET Bits
    BY <1>2 DEF TypeOK, TableTypeOK, Bits
  <2> QED BY <1>2, <1>4, <2>1, EventAddType DEF TypeOK
<1>6. TypeOK'
  BY <1>1, <1>3, <1>5 DEF TypeOK, SockType, Handled, Phases
<1>7. \A k \in Slots : ev'[k] = IF k = i THEN Registered(ev[i]) ELSE ev[k]
  BY <1>2, <1>4 DEF EventAdd, TypeOK, TableTypeOK
<1>8. /\ Live' = Live
      /\ \A k \in Slots : ev'[k].fd = ev[k].fd /\ ev'[k].jc = ev[k].jc
  BY <1>2, <1>7 DEF Live, Registered
<1>9. OpenFds' = OpenFds
  BY <1>1, <1>2, <1>3 DEF OpenFds, ClosedFds, TypeOK
<1>10. Ownership'
  <2>1. \A k \in Live : ev'[k].fd = ev[k].fd /\ ev'[k].jc = ev[k].jc
    BY <1>8 DEF Live
  <2> QED BY <1>1, <1>8, <1>9, <2>1 DEF Ownership
<1>11. \A g \in Fds : /\ interest'[g] = NULL <=> interest[g] = NULL
                      /\ interest'[g] # NULL => interest'[g].slot = interest[g].slot
  <2>1. EpollMod(i, f, mask)
    BY <1>2, <1>4 DEF EventAdd, Live
  <2>2. interest[f] # NULL => interest[f].slot = i
    BY <1>2 DEF Watched, Ownership
  <2>3. [slot |-> i, mask |-> mask] # NULL
    BY <1>2, TableAssumption DEF Slots
  <2> QED BY <1>2, <2>1, <2>2, <2>3 DEF EpollMod, TypeOK, TableTypeOK
<1>12. Watched'
  BY <1>8, <1>11 DEF Watched, Live
<1>13. Pending'
  <2>1. ASSUME NEW d \in batch', d.slot # Listener
        PROVE  d.slot \in Live' /\ interest'[ev'[d.slot].fd] # NULL
    <3>1. d.slot \in Live /\ interest[ev[d.slot].fd] # NULL
      BY <1>1, <2>1 DEF Pending
    <3> QED BY <3>1, <1>8, <1>11, LiveSlot
  <2> QED BY <1>1, <2>1 DEF Pending, Handled
<1> QED BY <1>6, <1>10, <1>12, <1>13

-----------------------------------------------------------------------------
(* The other steps. *)

\* epoll reports each descriptor once, so no two events are of one slot.
LEMMA EpollWaitInv ==
  ASSUME ServerInv, EpollWait
  PROVE  ServerInv'
<1> USE DEF ServerInv
<1> DEFINE streams == {[slot |-> interest[f].slot, bits |-> Reports(f)] : f \in Ready}
           clients == IF ListenerReady THEN {[slot |-> Listener, bits |-> {"IN"}]} ELSE {}
<1>1. /\ batch' = streams \union clients
      /\ pc' = IF batch' = {} THEN "expire" ELSE "dispatch"
      /\ UNCHANGED <<ev, interest, lsn, listening, backlog, sock, heap, checkpos, lost>>
  BY DEF EpollWait, table
<1>2. Live' = Live /\ OpenFds' = OpenFds
  BY <1>1 DEF Live, OpenFds, ClosedFds
<1>3. ASSUME NEW f \in Ready
      PROVE  /\ interest[f].slot \in Slots /\ interest[f].slot \in Live
             /\ ev[interest[f].slot].fd = f
             /\ interest[f] # NULL /\ Reports(f) \in SUBSET Bits
  BY DEF Ready, OpenFds, Watched, Live, Reports, Bits
<1>4. \A e \in clients : e.slot = Listener /\ backlog > 0 /\ e.bits \in SUBSET Bits
  BY DEF ListenerReady, Bits
<1>5. batch' \in SUBSET [slot : Slots \union {Listener}, bits : SUBSET Bits]
  <2>1. streams \in SUBSET [slot : Slots \union {Listener}, bits : SUBSET Bits]
    BY <1>3
  <2>2. clients \in SUBSET [slot : Slots \union {Listener}, bits : SUBSET Bits]
    BY DEF Bits
  <2> QED BY <1>1, <2>1, <2>2
<1>6. TypeOK'
  <2> HIDE DEF streams, clients
  <2> QED BY <1>1, <1>5 DEF TypeOK, TableTypeOK, Phases
<1>7. Ownership' /\ Watched'
  BY <1>1, <1>2 DEF Ownership, Watched
<1>8. Pending'
  <2>1. \A e \in streams : /\ e.slot # Listener
                           /\ e.slot \in Live /\ interest[ev[e.slot].fd] # NULL
    BY <1>3, ListenerApart
  <2>2. \A d, e \in streams : d.slot = e.slot => d = e
    BY <1>3
  <2>3. \A d, e \in clients : d = e
    OBVIOUS
  <2>4. \A d, e \in batch' : d.slot = e.slot => d = e
    <3> HIDE DEF streams, clients
    <3> QED BY <1>1, <1>4, <2>1, <2>2, <2>3
  <2>5. pc' \in {"expire", "wait"} => batch' = {}
    BY <1>1
  <2> HIDE DEF streams, clients
  <2> QED BY <1>1, <1>2, <1>4, <2>1, <2>4, <2>5 DEF Pending
<1> QED BY <1>6, <1>7, <1>8

\* What clients and the network do closes and opens nothing, and a client more
\* in the backlog disturbs no event.
LEMMA OutsideInv ==
  ASSUME ServerInv, Outside
  PROVE  ServerInv'
<1>1. CASE ClientConnects
  <2>1. TypeOK' /\ UNCHANGED <<ev, interest, heap, sock, lost, batch, pc>> /\ backlog' = backlog + 1
    BY <1>1, ServerAssumption DEF ClientConnects, table, ServerInv, TypeOK, TableTypeOK
  <2>2. OpenFds' = OpenFds
    BY <2>1 DEF OpenFds, ClosedFds
  <2>3. \A e \in batch : e.slot = Listener => backlog + 1 > 0
    BY DEF ServerInv, TypeOK
  <2> QED BY <2>1, <2>2, <2>3, SlotsUntouched DEF ServerInv, Pending
<1>2. ASSUME NEW f \in Fds, Arrives(f) \/ Finishes(f) \/ Resets(f)
      PROVE  ServerInv'
  <2>1. PICK to \in {"data", "fin", "reset"} : sock' = [sock EXCEPT ![f] = to]
    BY <1>2 DEF Arrives, Finishes, Resets, SockMoves
  <2>2. UNCHANGED <<ev, interest, heap, lost, batch, pc, backlog, lsn, listening, checkpos>>
        /\ sock[f] # "closed"
    BY <1>2 DEF Arrives, Finishes, Resets, SockMoves, table
  <2>3. TypeOK'
    BY <2>1, <2>2 DEF ServerInv, TypeOK, TableTypeOK, SockType
  <2>4. OpenFds' = OpenFds
    BY <2>1, <2>2 DEF OpenFds, ClosedFds, ServerInv, TypeOK
  <2> QED BY <2>2, <2>3, <2>4, SlotsUntouched DEF ServerInv, Pending
<1> QED BY <1>1, <1>2 DEF Outside

\* Time passes.
LEMMA TickInv ==
  ASSUME ServerInv, Tick
  PROVE  ServerInv'
<1> USE DEF ServerInv
<1>1. UNCHANGED <<interest, lsn, listening, backlog, sock, heap, checkpos, pc, batch, lost>>
  BY DEF Tick
<1>2. /\ ev' \in [Slots -> SlotType]
      /\ Live' = Live
      /\ \A i \in Slots : ev'[i].fd = ev[i].fd /\ ev'[i].jc = ev[i].jc
  BY OlderEffect DEF Tick, TypeOK
<1>3. TypeOK'
  BY <1>1, <1>2 DEF TypeOK, TableTypeOK
<1>4. \A i \in Live : ev'[i].fd = ev[i].fd /\ ev'[i].jc = ev[i].jc
  BY <1>2 DEF Live
<1>5. Ownership'
  BY <1>1, <1>2, <1>4 DEF Ownership, OpenFds, ClosedFds
<1>6. Watched' /\ Pending'
  BY <1>1, <1>2, <1>4 DEF Watched, Pending
<1> QED BY <1>3, <1>5, <1>6

-----------------------------------------------------------------------------
(* The theorems. *)

\* The invariant, in every state the server reaches.
THEOREM ServerInvariant == Spec => []ServerInv
<1>1. Init => ServerInv
  <2> SUFFICES ASSUME Init PROVE ServerInv
    OBVIOUS
  <2>1. Live = {} /\ OpenFds = {}
    BY DEF Init, TableInit, Live, OpenFds, ClosedFds
  <2>2. TypeOK
    BY TableAssumption, ServerAssumption
       DEF Init, TableInit, TypeOK, TableTypeOK, SlotType, InterestType, SockType, Phases
  <2>3. Ownership /\ Watched /\ Pending
    BY <2>1 DEF Init, TableInit, Ownership, Watched, Pending
  <2> QED BY <2>2, <2>3 DEF ServerInv
<1>2. ServerInv /\ [Next]_vars => ServerInv'
  <2> SUFFICES ASSUME ServerInv, [Next]_vars PROVE ServerInv'
    OBVIOUS
  <2>1. ASSUME NEW e \in batch, TransferAborts(e) PROVE ServerInv'
    <3>1. TypeOK' /\ UNCHANGED <<ev, interest, heap, sock, lost, backlog>>
          /\ batch' = batch \ {e} /\ pc' = "aborted"
      BY <2>1 DEF TransferAborts, Handle, table, ServerInv, TypeOK, TableTypeOK
    <3>2. OpenFds' = OpenFds
      BY <3>1 DEF OpenFds, ClosedFds
    <3> QED BY <3>1, <3>2, SlotsUntouched DEF ServerInv, Pending
  <2>2. CASE UNCHANGED vars
    <3>1. UNCHANGED <<ev, interest, lsn, listening, backlog, sock, heap, checkpos, pc, batch, lost>>
      BY <2>2 DEF vars
    <3>2. TypeOK' /\ Live' = Live /\ OpenFds' = OpenFds
      BY <3>1 DEF ServerInv, TypeOK, TableTypeOK, Live, OpenFds, ClosedFds
    <3> QED BY <3>1, <3>2 DEF ServerInv, Ownership, Watched, Pending
  <2> QED
    BY <2>1, <2>2, HouseKeepingInv, EpollWaitInv, AcceptNothingInv, AcceptConnInv,
       TransferMoreInv, TransferEndsInv, OutsideInv, TickInv
    DEF Next, Loop, Accept, Transfer
<1> QED BY <1>1, <1>2, PTL DEF Spec

\* No descriptor and no stream of the server is shared or forgotten, but for the
\* descriptors accept_conn drops: whatever comes of a connection, its slot, its
\* stream and its descriptor go together.
THEOREM ServerOwned == Spec => []Owned
<1>1. ServerInv => Owned
  BY DEF ServerInv, Ownership, Owned
<1> QED BY <1>1, ServerInvariant, PTL

\* No callback of a batch is called for a slot that an earlier one of the same
\* batch gave up, or that was then handed out to another connection.
THEOREM ServerBatchFresh == Spec => []BatchFresh
<1>1. ServerInv => BatchFresh
  <2> SUFFICES ASSUME ServerInv, NEW e \in batch, e.slot # Listener
               PROVE  /\ e.slot \in Live
                      /\ ev[e.slot].jc \in heap
                      /\ interest[ev[e.slot].fd] # NULL
                      /\ interest[ev[e.slot].fd].slot = e.slot
    BY DEF BatchFresh
  <2>1. e.slot \in Live /\ interest[ev[e.slot].fd] # NULL
    BY DEF ServerInv, Pending
  <2>2. ev[e.slot].fd \in Fds /\ ev[e.slot].jc \in heap
    BY <2>1, LiveSlot DEF ServerInv
  <2>3. interest[ev[e.slot].fd].slot = e.slot
    BY <2>1, <2>2 DEF ServerInv, Watched, Ownership
  <2> QED BY <2>1, <2>2, <2>3
<1> QED BY <1>1, ServerInvariant, PTL

\* No house-keeping pass reaches the listening slot, which is never refreshed:
\* once it listens the server goes on listening.
THEOREM ListenerStays == Spec => [][lsn' = lsn /\ listening' = listening]_vars
<1>1. TypeOK /\ lsn = 1 /\ [Next]_vars => [lsn' = lsn /\ listening' = listening]_vars
  <2> SUFFICES ASSUME TypeOK, lsn = 1, [Next]_vars PROVE lsn' = lsn /\ listening' = listening
    OBVIOUS
  <2>1. CASE HouseKeeping
    <3>1. ~ListenerExpires
      BY VisitsAll, ListenerApart DEF ListenerExpires, Passes, TypeOK
    <3> QED BY <2>1, <3>1 DEF HouseKeeping, TypeOK
  <2>2. CASE ~HouseKeeping
    BY <2>2 DEF Next, Loop, Accept, Transfer, Outside, EpollWait, AcceptFails, AcceptDrops,
      AcceptConn, Accepted, TransferMore, TransferEnds, TransferAborts, ClientConnects,
      Arrives, Finishes, Resets, SockMoves, Tick, vars
  <2> QED BY <2>1, <2>2
<1>2. Init => lsn = 1
  BY DEF Init
<1>3. lsn = 1 /\ [lsn' = lsn /\ listening' = listening]_vars => (lsn = 1)'
  BY DEF vars
<1>4. ServerInv => TypeOK
  BY DEF ServerInv
<1> QED BY <1>1, <1>2, <1>3, <1>4, ServerInvariant, PTL DEF Spec

=============================================================================
