---------------------------- MODULE ClientProofs ----------------------------
(* The client is safe: what holds of Client for every number of slots,      *)
(* descriptors and connections, every time-out and message length, with and *)
(* without the pool of connections.                                         *)
(*                                                                          *)
(* The argument.  LoopInv ties the places that know a descriptor, the slot, *)
(* the jconnect, the pool and the kernel's interest list, to each other.    *)
(* Slots and connections keep stale pointers and descriptors after use, and *)
(* evget returns the first slot whose connection has the descriptor, so     *)
(* what ties a slot to its connection, Bound, says also that no earlier     *)
(* slot leads to a connection with this descriptor.  A step keeps that if   *)
(* it gives no other slot a descriptor that was open (FoundAsBefore,        *)
(* BoundKept).                                                              *)
(*                                                                          *)
(* A step of the program does one of three things to the table: register a  *)
(* fresh slot (NewConnection), register a slot again with another callback  *)
(* or mask (ConnectDone, TransferMore, TransferDone with the pool,          *)
(* ReuseConnection), or unregister slots and close descriptors              *)
(* (ConnectRefused, TransferEnds, TransferDone, KeepaliveEnds,              *)
(* HouseKeeping).  There is a lemma for each of the three, and one for the  *)
(* steps that leave the table alone.                                        *)
EXTENDS Client, EventTableProofs, SequenceTheorems, FiniteSetTheorems

-----------------------------------------------------------------------------
(* Type correctness. *)

\* Closing descriptors keeps the kernel's sockets well-formed.
LEMMA CloseFdsType ==
  ASSUME sock \in [Fds -> SockType], NEW S, CloseFds(S)
  PROVE  sock' \in [Fds -> SockType]
BY DEF CloseFds, ClosedSock, SockType

\* So does what the kernel does to one socket.
LEMMA SockMoveType ==
  ASSUME sock \in [Fds -> SockType], NEW f
  PROVE  /\ \A st \in {"closed", "connecting", "blocked", "writable", "dead"} :
              [sock EXCEPT ![f].st = st] \in [Fds -> SockType]
         /\ [sock EXCEPT ![f].inq = TRUE] \in [Fds -> SockType]
<1>1. ASSUME NEW g \in Fds, NEW st \in {"closed", "connecting", "blocked", "writable", "dead"}
      PROVE  [sock[g] EXCEPT !.st = st] \in SockType
  BY DEF SockType
<1>2. ASSUME NEW g \in Fds
      PROVE  [sock[g] EXCEPT !.inq = TRUE] \in SockType
  BY DEF SockType
<1> QED BY <1>1, <1>2

\* The values a jconnect takes when it is made, freed or given a stream.
LEMMA ConnTypes ==
  /\ FreeConn \in ConnType
  /\ OrphanConn \in ConnType
  /\ \A f \in Fds : NewConn(f) \in ConnType
  /\ \A c \in ConnType : WithStream(c) \in ConnType
  /\ \A c \in ConnType : \A n \in 0 .. c.left : Written(c, n) \in ConnType
  /\ \A c \in ConnType : \A alive \in BOOLEAN, status \in {"CONN_ESTAB", "CONN_CLOSE"} :
       Released(c, alive, status) \in ConnType
<1>1. FreeConn \in ConnType
  BY ClientAssumption DEF ConnType, FreeConn
<1>2. OrphanConn \in ConnType
  BY <1>1 DEF ConnType, OrphanConn
<1>3. ASSUME NEW f \in Fds PROVE NewConn(f) \in ConnType
  BY ClientAssumption DEF ConnType, NewConn
<1>4. ASSUME NEW c \in ConnType PROVE WithStream(c) \in ConnType
  BY ClientAssumption DEF ConnType, WithStream
<1>5. ASSUME NEW c \in ConnType, NEW n \in 0 .. c.left PROVE Written(c, n) \in ConnType
  BY ClientAssumption DEF ConnType, Written
<1>6. ASSUME NEW c \in ConnType, NEW alive \in BOOLEAN, NEW status \in {"CONN_ESTAB", "CONN_CLOSE"}
      PROVE  Released(c, alive, status) \in ConnType
  BY ClientAssumption DEF ConnType, Released
<1> QED BY <1>1, <1>2, <1>3, <1>4, <1>5, <1>6

\* The counter of the pool stays a uint32_t.
LEMMA CounterType ==
  ASSUME NEW n \in Int
  PROVE  n % CounterMod \in 0 .. CounterMod - 1
BY ClientAssumption

\* release_connection keeps the heap, the pool and the counter well-formed.
LEMMA ReleaseConnectionType ==
  ASSUME TypeOK, NEW j \in Conns, NEW c \in ConnType, ReleaseConnection(j, c)
  PROVE  /\ jcs' \in [Conns -> ConnType]
         /\ pool' \in Seq(Conns)
         /\ total' \in 0 .. CounterMod - 1
<1>1. CASE c.alive
  <2>1. jcs' \in [Conns -> ConnType]
    BY <1>1 DEF ReleaseConnection, TypeOK
  <2>2. pool' \in Seq(Conns)
    BY <1>1, AppendProperties DEF ReleaseConnection, TypeOK
  <2>3. total' \in 0 .. CounterMod - 1
    <3>1. total + 1 \in Int
      BY ClientAssumption DEF TypeOK
    <3>2. (total + 1) % CounterMod \in 0 .. CounterMod - 1
      BY <3>1, CounterType
    <3> QED BY <1>1, <3>2 DEF ReleaseConnection
  <2> QED BY <2>1, <2>2, <2>3
<1>2. CASE ~c.alive
  <2>1. jcs' \in [Conns -> ConnType]
    BY <1>2, ConnTypes DEF ReleaseConnection, TypeOK
  <2>2. pool' \in Seq(Conns)
    BY <1>2 DEF ReleaseConnection, TypeOK
  <2>3. total' \in 0 .. CounterMod - 1
    <3>1. total - 1 \in Int
      BY ClientAssumption DEF TypeOK
    <3>2. (total - 1) % CounterMod \in 0 .. CounterMod - 1
      BY <3>1, CounterType
    <3> QED BY <1>2, <3>2 DEF ReleaseConnection
  <2> QED BY <2>1, <2>2, <2>3
<1> QED BY <1>1, <1>2

\* release_stream_from_connect with BAD_CONNECT keeps everything well-formed.
LEMMA ReleaseBadType ==
  ASSUME TypeOK, NEW i \in Slots, ev[i].jc \in Conns, ReleaseBad(i)
  PROVE  /\ TableTypeOK'
         /\ sock' \in [Fds -> SockType]
         /\ jcs' \in [Conns -> ConnType]
         /\ pool' \in Seq(Conns)
         /\ total' \in 0 .. CounterMod - 1
<1> DEFINE c == Released(jcs[ev[i].jc], FALSE, "CONN_CLOSE")
<1>1. c \in ConnType
  BY ConnTypes DEF TypeOK
<1>2. ReleaseConnection(ev[i].jc, c) /\ EventDel({i}, {jcs[ev[i].jc].fd})
      /\ CloseFds({jcs[ev[i].jc].fd})
  BY DEF ReleaseBad
<1> HIDE DEF c
<1>3. TableTypeOK'
  BY <1>2, EventDelType DEF TypeOK
<1>4. sock' \in [Fds -> SockType]
  BY <1>2, CloseFdsType DEF TypeOK
<1> QED BY <1>1, <1>2, <1>3, <1>4, ReleaseConnectionType

\* release_stream_from_connect with OK_CONNECT does too.
LEMMA ReleaseOkType ==
  ASSUME TypeOK, NEW i \in Slots, ev[i].jc \in Conns, ReleaseOk(i)
  PROVE  /\ TableTypeOK'
         /\ sock' \in [Fds -> SockType]
         /\ jcs' \in [Conns -> ConnType]
         /\ pool' \in Seq(Conns)
         /\ total' \in 0 .. CounterMod - 1
<1> DEFINE c == Released(jcs[ev[i].jc], TRUE, "CONN_ESTAB")
           e == EventResetCb(i, "keepalive_cb")
<1>1. c \in ConnType
  BY ConnTypes DEF TypeOK
<1>2. e \in SlotType
  BY DEF TypeOK, TableTypeOK, SlotType, EventResetCb, Callbacks
<1>3. ReleaseConnection(ev[i].jc, c) /\ EventAdd(i, e, {"IN"}) /\ UNCHANGED sock
  BY DEF ReleaseOk
<1> HIDE DEF c, e
<1>4. TableTypeOK'
  BY <1>2, <1>3, EventAddType DEF TypeOK, Bits
<1>5. sock' \in [Fds -> SockType]
  BY <1>3 DEF TypeOK
<1> QED BY <1>1, <1>3, <1>4, <1>5, ReleaseConnectionType

\* A callback that is Sound has a slot and a connection to work on.
LEMMA SoundType ==
  ASSUME TypeOK, NEW e \in batch, Sound(e)
  PROVE  e.slot \in Slots /\ ev[e.slot].jc \in Conns
BY DEF TypeOK, TableTypeOK, SlotType, Sound, Usable

\* event_reset_cb gives a well-formed slot.
LEMMA ResetCbType ==
  ASSUME TypeOK, NEW i \in Slots, NEW cb \in Callbacks
  PROVE  EventResetCb(i, cb) \in SlotType
BY DEF TypeOK, TableTypeOK, SlotType, EventResetCb

\* The variables keep their types: in particular current_total remains a
\* uint32_t, the position of house-keeping remains within the table and the
\* unsent part of a stream never grows beyond the message.
THEOREM TypeCorrect == Spec => []TypeOK
<1>1. Init => TypeOK
  <2> SUFFICES ASSUME Init PROVE TypeOK
    OBVIOUS
  <2>1. TableTypeOK
    BY TableAssumption DEF Init, TableInit, TableTypeOK, SlotType, InterestType
  <2>2. /\ sock \in [Fds -> SockType]
        /\ jcs \in [Conns -> ConnType]
    BY ConnTypes DEF Init, SockType, ClosedSock
  <2>3. /\ pool \in Seq(Conns)
        /\ total \in 0 .. CounterMod - 1
        /\ checkpos \in 0 .. MaxEvents
    BY TableAssumption, ClientAssumption DEF Init
  <2> QED BY <2>1, <2>2, <2>3 DEF Init, TypeOK, Phases
<1>2. TypeOK /\ [Next]_vars => TypeOK'
  <2> SUFFICES ASSUME TypeOK, [Next]_vars PROVE TypeOK'
    OBVIOUS
  <2> USE DEF Phases, Crashes, table
  <2>1. CASE NothingDue
    BY <2>1 DEF NothingDue, TypeOK, TableTypeOK
  <2>2. CASE GetConnection
    <3>1. PICK k \in 0 .. Len(pool) :
            LET reaped == {pool[m] : m \in 1 .. k}
                fds    == {jcs[j].fd : j \in reaped}
            IN /\ cur' = IF k < Len(pool) THEN pool[k + 1] ELSE NULL
               /\ pool' = SubSeq(pool, k + 2, Len(pool))
               /\ jcs' = [j \in Conns |-> IF j \in reaped THEN FreeConn ELSE jcs[j]]
               /\ CloseFds(fds)
               /\ EventDel({}, fds)
               /\ total' = (total - k) % CounterMod
      BY <2>2 DEF GetConnection
    <3>2. Len(pool) \in Nat /\ \A m \in 1 .. Len(pool) : pool[m] \in Conns
      BY DEF TypeOK
    <3>3. TableTypeOK' /\ sock' \in [Fds -> SockType]
      BY <3>1, EventDelType, CloseFdsType DEF TypeOK
    <3>4. jcs' \in [Conns -> ConnType]
      BY <3>1, ConnTypes DEF TypeOK
    <3>5. cur' \in Conns \union {NULL}
      BY <3>1, <3>2
    <3>6. pool' \in Seq(Conns)
      <4>1. \A m \in k + 2 .. Len(pool) : pool[m] \in Conns
        BY <3>2
      <4> QED BY <4>1, <3>1, <3>2, SubSeqProperties
    <3>7. total' \in 0 .. CounterMod - 1
      <4>1. total - k \in Int
        BY <3>2, ClientAssumption DEF TypeOK
      <4> QED BY <4>1, <3>1, CounterType
    <3> QED BY <2>2, <3>3, <3>4, <3>5, <3>6, <3>7 DEF GetConnection, TypeOK
  <2>3. CASE CreateFails
    <3>1. jcs' \in [Conns -> ConnType]
      BY <2>3, ConnTypes DEF CreateFails, TypeOK
    <3>2. sock' \in [Fds -> SockType] /\ leaked' \in SUBSET Fds
      <4>1. DeadSock \in SockType /\ ClosedFds \subseteq Fds
        BY DEF DeadSock, SockType, ClosedFds
      <4> QED BY <2>3, <4>1 DEF CreateFails, TypeOK
    <3> QED BY <2>3, <3>1, <3>2 DEF CreateFails, TypeOK, TableTypeOK
  <2>4. ASSUME NEW j \in FreeConns, NEW f \in ClosedFds, Connect(j, f)
        PROVE  jcs' \in [Conns -> ConnType] /\ sock' \in [Fds -> SockType]
    BY <2>4, ConnTypes DEF Connect, TypeOK, NewSock, SockType, FreeConns, ClosedFds
  <2>5. CASE NewConnection
    <3>1. PICK j \in FreeConns, f \in ClosedFds, i \in Slots :
             Connect(j, f) /\ EventAdd(i, EventSet(f, j, "connect_cb"), {"OUT"})
      BY <2>5 DEF NewConnection
    <3>2. EventSet(f, j, "connect_cb") \in SlotType
      BY TableAssumption DEF EventSet, SlotType, Callbacks, FreeConns, ClosedFds
    <3>3. TableTypeOK'
      BY <3>1, <3>2, EventAddType DEF TypeOK, Bits
    <3> QED BY <2>5, <2>4, <3>1, <3>3 DEF NewConnection, Connect, TypeOK
  <2>6. CASE NoSlotLeft
    BY <2>6, <2>4 DEF NoSlotLeft, Connect, TypeOK, TableTypeOK
  <2>7. CASE ReuseConnection
    <3>1. PICK i \in Slots : EventAdd(i, EventResetCb(i, "data_transfer"), {"OUT"})
      BY <2>7 DEF ReuseConnection
    <3>2. TableTypeOK'
      <4>1. EventResetCb(i, "data_transfer") \in SlotType
        BY ResetCbType DEF Callbacks
      <4> QED BY <3>1, <4>1, EventAddType DEF TypeOK, Bits
    <3>3. jcs' \in [Conns -> ConnType]
      BY <2>7, ConnTypes DEF ReuseConnection, TypeOK
    <3> QED BY <2>7, <3>2, <3>3 DEF ReuseConnection, TypeOK
  <2>8. CASE ReuseCrashes
    BY <2>8 DEF ReuseCrashes, TypeOK, TableTypeOK
  <2>9. CASE HouseKeeping
    <3>1. TableTypeOK' /\ sock' \in [Fds -> SockType]
      BY <2>9, EventDelType, CloseFdsType DEF HouseKeeping, TypeOK
    <3>2. jcs' \in [Conns -> ConnType]
      <4>1. ASSUME NEW c \in ConnType PROVE [c EXCEPT !.stream = "freed"] \in ConnType
        BY DEF ConnType
      <4> QED BY <2>9, <4>1 DEF HouseKeeping, TypeOK
    <3>3. checkpos' \in 0 .. MaxEvents
      BY <2>9, TableAssumption DEF HouseKeeping, NextPos, TypeOK
    <3> QED BY <2>9, <3>1, <3>2, <3>3 DEF HouseKeeping, TypeOK
  <2>10. CASE EpollWait
    <3>1. \A f \in Ready : interest[f].slot \in Slots
      BY DEF Ready, TypeOK, TableTypeOK, InterestType
    <3>2. batch' \in SUBSET [slot : Slots, bits : SUBSET Bits]
      BY <2>10, <3>1 DEF EpollWait
    <3> QED BY <2>10, <3>2 DEF EpollWait, TypeOK, TableTypeOK
  <2>11. ASSUME NEW e \in batch, NEW cb, Handle(e, cb), Handled(e)
         PROVE  /\ batch' \in SUBSET [slot : Slots, bits : SUBSET Bits]
                /\ pc' \in Phases
    BY <2>11 DEF Handle, Handled, TypeOK
  <2>12. ASSUME NEW e \in batch, ConnectDone(e) PROVE TypeOK'
    <3>1. TableTypeOK'
      BY <2>12, SoundType, ResetCbType, EventAddType DEF ConnectDone, TypeOK, Bits, Callbacks
    <3> QED BY <2>12, <2>11, <3>1 DEF ConnectDone, TypeOK
  <2>13. ASSUME NEW e \in batch, ConnectRefused(e) PROVE TypeOK'
    BY <2>13, <2>11, SoundType, ReleaseBadType DEF ConnectRefused, TypeOK
  <2>14. ASSUME NEW e \in batch, TransferEnds(e) PROVE TypeOK'
    BY <2>14, <2>11, SoundType, ReleaseBadType DEF TransferEnds, TypeOK
  <2>15. ASSUME NEW e \in batch, TransferDone(e) PROVE TypeOK'
    BY <2>15, <2>11, SoundType, ReleaseBadType, ReleaseOkType DEF TransferDone, TypeOK
  <2>16. ASSUME NEW e \in batch, TransferMore(e) PROVE TypeOK'
    <3> DEFINE j == ev[e.slot].jc
    <3>1. e.slot \in Slots /\ j \in Conns
      BY <2>16, SoundType DEF TransferMore
    <3>2. PICK n \in Flushed(e.slot) :
            n < jcs[j].left /\ jcs' = [jcs EXCEPT ![j] = Written(jcs[j], n)]
      BY <2>16 DEF TransferMore
    <3>3. n \in 0 .. jcs[j].left
      BY <3>1, <3>2, ClientAssumption DEF Flushed, TypeOK, ConnType
    <3>4. jcs' \in [Conns -> ConnType]
      BY <3>1, <3>2, <3>3, ConnTypes DEF TypeOK
    <3>5. TableTypeOK'
      BY <2>16, <3>1, EventAddType DEF TransferMore, TypeOK, TableTypeOK, Bits
    <3>6. sock' \in [Fds -> SockType]
      BY <2>16, SockMoveType DEF TransferMore, TypeOK
    <3> QED BY <2>16, <2>11, <3>4, <3>5, <3>6 DEF TransferMore, TypeOK
  <2>17. ASSUME NEW e \in batch, KeepaliveEnds(e) PROVE TypeOK'
    <3>1. PICK k \in DOMAIN pool :
             pool' = SubSeq(pool, 1, k - 1) \o SubSeq(pool, k + 1, Len(pool))
      BY <2>17 DEF KeepaliveEnds, Unlist
    <3>2. pool' \in Seq(Conns)
      <4>1. DOMAIN pool = 1 .. Len(pool) /\ Len(pool) \in Nat
            /\ \A m \in 1 .. Len(pool) : pool[m] \in Conns
        BY DEF TypeOK
      <4>2. SubSeq(pool, 1, k - 1) \in Seq(Conns)
        BY <4>1, SubSeqProperties
      <4>3. SubSeq(pool, k + 1, Len(pool)) \in Seq(Conns)
        BY <4>1, SubSeqProperties
      <4> QED BY <3>1, <4>2, <4>3, ConcatProperties
    <3>3. jcs' \in [Conns -> ConnType]
      BY <2>17, ConnTypes DEF KeepaliveEnds, TypeOK
    <3>4. total' \in 0 .. CounterMod - 1
      <4>1. total - 1 \in Int
        BY ClientAssumption DEF TypeOK
      <4> QED BY <2>17, <4>1, CounterType DEF KeepaliveEnds
    <3>5. TableTypeOK' /\ sock' \in [Fds -> SockType]
      BY <2>17, EventDelType, CloseFdsType DEF KeepaliveEnds, TypeOK
    <3> QED BY <2>17, <2>11, <3>2, <3>3, <3>4, <3>5 DEF KeepaliveEnds, TypeOK
  <2>18. CASE Kernel
    <3>1. PICK f \in Fds : Connected(f) \/ Drained(f) \/ Reset(f) \/ PeerSpeaks(f)
      BY <2>18 DEF Kernel
    <3>2. sock' \in [Fds -> SockType]
      <4>1. \/ \E st \in {"writable", "dead"} : sock' = [sock EXCEPT ![f].st = st]
            \/ sock' = [sock EXCEPT ![f].inq = TRUE]
        BY <3>1 DEF Connected, Drained, Reset, SockMoves, PeerSpeaks
      <4>2. sock \in [Fds -> SockType]
        BY DEF TypeOK
      <4>3. ASSUME NEW st \in {"writable", "dead"}
            PROVE  [sock EXCEPT ![f].st = st] \in [Fds -> SockType]
        BY <4>2, SockMoveType
      <4>4. [sock EXCEPT ![f].inq = TRUE] \in [Fds -> SockType]
        BY <4>2, SockMoveType
      <4> QED BY <4>1, <4>3, <4>4
    <3> QED BY <3>1, <3>2 DEF Connected, Drained, Reset, SockMoves, PeerSpeaks, TypeOK, TableTypeOK
  <2>19. CASE Tick
    BY <2>19, OlderEffect DEF Tick, TypeOK, TableTypeOK
  <2>20. CASE UNCHANGED vars
    BY <2>20 DEF vars, TypeOK, TableTypeOK
  <2> QED
    BY <2>1, <2>2, <2>3, <2>5, <2>6, <2>7, <2>8, <2>9, <2>10, <2>12, <2>13, <2>14,
       <2>15, <2>16, <2>17, <2>18, <2>19, <2>20
    DEF Next, Loop, Create, Callback
<1> QED BY <1>1, <1>2, PTL DEF Spec

-----------------------------------------------------------------------------
(* Safety. *)

\* The parts of LoopInv that speak of the table.
TableInv == SlotsSound /\ IdleSound /\ NothingLost /\ InterestSound

-----------------------------------------------------------------------------
(* What follows from a slot's being bound to its connection. *)

\* No two slots are bound to one descriptor.
LEMMA BoundUnique ==
  ASSUME NEW i \in Slots, NEW k \in Slots, Bound(i), Bound(k), ev[i].fd = ev[k].fd
  PROVE  i = k
<1>1. i \in Int /\ k \in Int
  BY TableAssumption DEF Slots
<1>2. ~(i < k) /\ ~(k < i)
  BY DEF Bound
<1> QED BY <1>1, <1>2

\* Hence a descriptor, and a connection, has one owner.
LEMMA OwnersDistinct ==
  ASSUME SlotsSound, IdleSound
  PROVE  /\ \A i, k \in Live : ev[i].fd = ev[k].fd => i = k
         /\ \A i, k \in Live : ev[i].jc = ev[k].jc => i = k
         /\ \A i \in Live, j \in IdleConns : ev[i].fd = jcs[j].fd => ev[i].jc = j
         /\ \A j, k \in IdleConns : jcs[j].fd = jcs[k].fd => j = k
<1>1. \A i \in Live : i \in Slots /\ Bound(i)
  BY DEF SlotsSound, Live
<1>2. \A j \in IdleConns : \E i \in Slots : Bound(i) /\ ev[i].jc = j /\ ev[i].fd = jcs[j].fd
  BY DEF IdleSound, Bound
<1>3. \A i, k \in Live : ev[i].fd = ev[k].fd => i = k
  BY <1>1, BoundUnique
<1>4. \A i, k \in Live : ev[i].jc = ev[k].jc => i = k
  BY <1>1, <1>3 DEF Bound
<1>5. ASSUME NEW i \in Live, NEW j \in IdleConns, ev[i].fd = jcs[j].fd PROVE ev[i].jc = j
  BY <1>1, <1>2, <1>5, BoundUnique
<1>6. ASSUME NEW j \in IdleConns, NEW k \in IdleConns, jcs[j].fd = jcs[k].fd PROVE j = k
  BY <1>2, <1>6, BoundUnique
<1> QED BY <1>3, <1>4, <1>5, <1>6

\* No slot comes to name a descriptor that was open.
FoundAsBefore ==
  \A k \in Slots : ev'[k].jc # NULL =>
    \/ ev[k].jc # NULL /\ jcs'[ev'[k].jc].fd = jcs[ev[k].jc].fd
    \/ jcs'[ev'[k].jc].fd \notin OpenFds

\* Then evget finds the bound slots where it found them before.
LEMMA BoundKept ==
  ASSUME FoundAsBefore, NEW i \in Slots, Bound(i),
         ev'[i].jc = ev[i].jc, ev'[i].fd = ev[i].fd,
         jcs'[ev[i].jc].mem = jcs[ev[i].jc].mem, jcs'[ev[i].jc].fd = jcs[ev[i].jc].fd,
         ev[i].fd \in OpenFds' \ leaked'
  PROVE  Bound(i)'
<1>1. \A k \in Slots : k < i /\ ev'[k].jc # NULL => jcs'[ev'[k].jc].fd # ev'[i].fd
  BY DEF FoundAsBefore, Bound
<1> QED BY <1>1 DEF Bound

\* What a registered slot refers to.
LEMMA LiveSlot ==
  ASSUME TypeOK, SlotsSound, NEW i \in Live
  PROVE  /\ i \in Slots /\ Bound(i) /\ ev[i].status = 1
         /\ ev[i].jc \in Conns /\ ev[i].fd \in Fds
         /\ jcs[ev[i].jc].mem = "live" /\ jcs[ev[i].jc].fd = ev[i].fd
<1>1. i \in Slots /\ Bound(i) /\ ev[i].status = 1
  BY DEF SlotsSound, Live
<1>2. ev[i].jc \in Conns
  BY <1>1 DEF Bound, TypeOK, TableTypeOK, SlotType
<1> QED BY <1>1, <1>2 DEF Bound, OpenFds

\* Connections in the pool are connections.
LEMMA IdleTypes ==
  ASSUME TypeOK
  PROVE  IdleConns \subseteq Conns
<1>1. \A m \in DOMAIN pool : pool[m] \in Conns
  BY DEF TypeOK
<1> QED BY <1>1 DEF IdleConns, PooledConns, TypeOK

-----------------------------------------------------------------------------
(* Unregistering slots. *)

\* The slots S are unregistered; the descriptors of those in C are closed and
\* their connections, or only their streams, are freed.  The other slots of S
\* belong to idle connections, which remain.
LEMMA Unregister ==
  ASSUME TypeOK, TableInv, Running,
         NEW S \in SUBSET Live, NEW C \in SUBSET S, NEW fds, NEW dropped,
         fds = {ev[i].fd : i \in C}, dropped = {ev[i].jc : i \in C},
         \A i \in S \ C : ev[i].jc \in IdleConns,
         EventDel(S, fds), CloseFds(fds), leaked' = leaked,
         \A c \in dropped : jcs'[c].stream # "live" /\ jcs'[c].fd \in {jcs[c].fd, NULL},
         \A c \in Conns \ dropped : jcs'[c] = jcs[c],
         IdleConns' = IdleConns \ dropped
  PROVE  TableInv'
<1> USE DEF TableInv
<1>1. /\ Live' = Live \ S /\ \A i \in Live \ S : ev'[i] = ev[i]
      /\ \A i \in Slots : ev'[i].fd = ev[i].fd /\ ev'[i].jc = ev[i].jc /\ ev'[i].cb = ev[i].cb
  BY EventDelEffect DEF TypeOK
<1>2. OpenFds' = OpenFds \ fds
  BY DEF CloseFds, ClosedSock, OpenFds, ClosedFds
<1>3. FoundAsBefore
  <2> SUFFICES ASSUME NEW k \in Slots, ev[k].jc # NULL
               PROVE  \/ jcs'[ev[k].jc].fd = jcs[ev[k].jc].fd
                      \/ jcs'[ev[k].jc].fd \notin OpenFds
    BY <1>1 DEF FoundAsBefore
  <2>1. ev[k].jc \in Conns
    BY DEF TypeOK, TableTypeOK, SlotType
  <2> QED BY <2>1, TableAssumption DEF OpenFds
<1>4. \A i \in Live : ev[i].jc \in dropped => i \in C
  BY OwnersDistinct
<1>5. \A i \in Live : ev[i].fd \in fds => i \in C
  BY OwnersDistinct
<1>6. SlotsSound'
  <2> SUFFICES ASSUME NEW i \in Live \ S
               PROVE  (/\ Bound(i)
                       /\ \/ InTransaction(i) /\ jcs[ev[i].jc].stream = "live"
                          \/ ev[i].cb = "keepalive_cb" /\ ev[i].jc \in IdleConns)'
    BY <1>1 DEF SlotsSound
  <2>1. /\ i \in Slots /\ Bound(i) /\ ev[i].jc \in Conns
    BY LiveSlot
  <2>2. ev'[i] = ev[i] /\ jcs'[ev[i].jc] = jcs[ev[i].jc] /\ ev[i].jc \notin dropped
        /\ ev[i].fd \notin fds
    BY <1>1, <1>4, <1>5, <2>1
  <2>3. Bound(i)'
    <3>1. ev[i].fd \in OpenFds' \ leaked'
      BY <1>2, <2>1, <2>2 DEF Bound
    <3> QED BY <1>3, <2>1, <2>2, <3>1, BoundKept
  <2> QED BY <2>2, <2>3 DEF SlotsSound, InTransaction
<1>7. IdleSound'
  <2> SUFFICES ASSUME NEW j \in IdleConns, j \notin dropped
               PROVE  (/\ jcs[j].alive /\ jcs[j].stream = "none" /\ jcs[j].status = "CONN_ESTAB"
                       /\ \E i \in Slots : Bound(i) /\ ev[i].jc = j /\ ev[i].cb = "keepalive_cb")'
    BY DEF IdleSound
  <2>1. j \in Conns /\ jcs'[j] = jcs[j]
    BY IdleTypes
  <2>2. PICK i \in Slots : Bound(i) /\ ev[i].jc = j /\ ev[i].cb = "keepalive_cb"
    BY DEF IdleSound
  <2>3. ev[i].fd \notin fds
    <3> SUFFICES ASSUME NEW m \in C, ev[m].fd = ev[i].fd PROVE FALSE
      OBVIOUS
    <3>1. m \in Live /\ ev[m].fd = jcs[j].fd
      BY <2>2 DEF Bound
    <3>2. ev[m].jc = j
      BY <3>1, OwnersDistinct
    <3> QED BY <3>2
  <2>4. ev[i].fd \in OpenFds' \ leaked'
    BY <1>2, <2>2, <2>3 DEF Bound
  <2>5. Bound(i)'
    BY <1>1, <1>3, <2>1, <2>2, <2>4, BoundKept
  <2> QED BY <1>1, <2>1, <2>2, <2>5 DEF IdleSound
<1>8. NothingLost'
  <2>1. leaked \cap fds = {}
    BY DEF SlotsSound, Bound
  <2>2. leaked' \subseteq OpenFds'
    BY <2>1, <1>2 DEF NothingLost
  <2>3. ASSUME NEW f \in OpenFds' \ leaked'
        PROVE  (\E i \in Live' : ev'[i].fd = f) \/ (\E j \in IdleConns' : jcs'[j].fd = f)
    <3>1. f \in OpenFds \ leaked /\ f \notin fds
      BY <1>2
    <3>2. ASSUME NEW j \in IdleConns, jcs[j].fd = f PROVE j \in IdleConns' /\ jcs'[j].fd = f
      <4>1. j \notin dropped
        BY <3>1, <3>2 DEF SlotsSound, Bound
      <4> QED BY <3>2, <4>1, IdleTypes
    <3>3. ASSUME NEW i \in Live, ev[i].fd = f, i \in S PROVE \E j \in IdleConns : jcs[j].fd = f
      BY <3>1, <3>3 DEF SlotsSound, Bound
    <3>4. CASE \E i \in Live \ S : ev[i].fd = f
      BY <1>1, <3>4
    <3> QED BY <3>1, <3>2, <3>3, <3>4 DEF NothingLost
  <2>4. ASSUME NEW j \in Conns, jcs'[j].stream = "live" PROVE \E i \in Live' : ev'[i].jc = j
    <3>1. j \notin dropped /\ jcs[j].stream = "live"
      BY <2>4
    <3>2. PICK i \in Live : ev[i].jc = j
      BY <3>1 DEF NothingLost
    <3>3. i \notin S
      BY <3>1, <3>2 DEF IdleSound
    <3> QED BY <1>1, <3>2, <3>3
  <2> QED BY <2>2, <2>3, <2>4 DEF NothingLost
<1>9. InterestSound'
  <2> SUFFICES ASSUME NEW f \in Fds, interest'[f] # NULL
               PROVE  interest'[f].slot \in Live' /\ ev'[interest'[f].slot].fd = f
    BY DEF InterestSound
  <2>1. /\ interest'[f] = interest[f] /\ f \notin fds
        /\ \A i \in S \cap Live : ev[i].fd # f
    BY DEF EventDel
  <2>2. interest[f].slot \in Live /\ ev[interest[f].slot].fd = f
    BY <2>1 DEF InterestSound
  <2> QED BY <2>1, <2>2, <1>1
<1> QED BY <1>6, <1>7, <1>8, <1>9

\* release_stream_from_connect(ev, BAD_CONNECT) in a transaction unregisters
\* one slot and leaves the pool alone.
LEMMA ReleaseBadInv ==
  ASSUME TypeOK, TableInv, Running, NEW i \in Live, InTransaction(i), ReleaseBad(i),
         leaked' = leaked, cur' = cur
  PROVE  TableInv' /\ pool' = pool
<1> DEFINE j == ev[i].jc
           c == Released(jcs[j], FALSE, "CONN_CLOSE")
<1>1. i \in Slots /\ j \in Conns /\ jcs[j].fd = ev[i].fd
  BY LiveSlot DEF TableInv
<1>2. ~c.alive
  BY DEF Released
<1>3. jcs' = [jcs EXCEPT ![j] = FreeConn] /\ pool' = pool
  BY <1>2 DEF ReleaseBad, ReleaseConnection
<1>4. EventDel({i}, {ev[i].fd}) /\ CloseFds({ev[i].fd})
  BY <1>1 DEF ReleaseBad
<1>5. jcs'[j] = FreeConn /\ \A k \in Conns : k # j => jcs'[k] = jcs[k]
  BY <1>1, <1>3 DEF TypeOK
<1>6. FreeConn.stream = "none" /\ FreeConn.fd = NULL
  BY DEF FreeConn
<1>7. j \notin IdleConns
  BY DEF TableInv, SlotsSound, IdleSound, InTransaction
<1>8. IdleConns' = IdleConns \ {j}
  BY <1>3, <1>7 DEF IdleConns, PooledConns
<1>9. {i} \in SUBSET Live /\ {ev[i].fd} = {ev[k].fd : k \in {i}} /\ {j} = {ev[k].jc : k \in {i}}
      /\ {i} \in SUBSET {i}
  OBVIOUS
<1> HIDE DEF c, j
<1>10. /\ \A k \in {j} : jcs'[k].stream # "live" /\ jcs'[k].fd \in {jcs[k].fd, NULL}
       /\ \A k \in Conns \ {j} : jcs'[k] = jcs[k]
       /\ \A k \in {i} \ {i} : ev[k].jc \in IdleConns
  BY <1>5, <1>6
<1>11. TableInv'
  BY <1>4, <1>8, <1>9, <1>10, Unregister
<1> QED BY <1>3, <1>11

\* keepalive_cb unregisters the slot of a pooled connection.
LEMMA KeepaliveEndsInv ==
  ASSUME TypeOK, TableInv, NEW e \in batch, e.slot \in Live, KeepaliveEnds(e),
         IdleConns' = IdleConns \ {ev[e.slot].jc}
  PROVE  TableInv'
<1> DEFINE i == e.slot
           j == ev[i].jc
<1>1. i \in Slots /\ j \in Conns /\ jcs[j].fd = ev[i].fd /\ Running
  BY LiveSlot DEF TableInv, KeepaliveEnds, Handle, Running, Phases
<1>2. /\ EventDel({i}, {ev[i].fd}) /\ CloseFds({ev[i].fd}) /\ leaked' = leaked
      /\ jcs' = [jcs EXCEPT ![j] = FreeConn]
  BY <1>1 DEF KeepaliveEnds
<1>3. jcs'[j] = FreeConn /\ \A k \in Conns : k # j => jcs'[k] = jcs[k]
  BY <1>1, <1>2 DEF TypeOK
<1>4. FreeConn.stream = "none" /\ FreeConn.fd = NULL
  BY DEF FreeConn
<1>5. {i} \in SUBSET Live /\ {ev[i].fd} = {ev[k].fd : k \in {i}} /\ {j} = {ev[k].jc : k \in {i}}
      /\ {i} \in SUBSET {i} /\ IdleConns' = IdleConns \ {j}
  OBVIOUS
<1> HIDE DEF i, j
<1>6. /\ \A k \in {j} : jcs'[k].stream # "live" /\ jcs'[k].fd \in {jcs[k].fd, NULL}
      /\ \A k \in Conns \ {j} : jcs'[k] = jcs[k]
      /\ \A k \in {i} \ {i} : ev[k].jc \in IdleConns
  BY <1>3, <1>4
<1> QED BY <1>1, <1>2, <1>5, <1>6, Unregister

\* expires_house_keeping unregisters all that have expired, and closes those
\* that are in a transaction.
LEMMA HouseKeepingInv ==
  ASSUME TypeOK, TableInv, Running, HouseKeeping
  PROVE  TableInv'
<1> DEFINE expired == Expired(checkpos)
           active  == {i \in expired : ev[i].jc # NULL /\ jcs[ev[i].jc].stream # "none"}
           fds     == {ev[i].fd : i \in active}
           dropped == {ev[i].jc : i \in active}
<1>1. /\ EventDel(expired, fds)
      /\ CloseFds(fds)
      /\ jcs' = [j \in Conns |->
                   IF \E i \in active : ev[i].jc = j
                   THEN [jcs[j] EXCEPT !.stream = "freed"] ELSE jcs[j]]
      /\ UNCHANGED <<leaked, pool, cur>>
  BY DEF HouseKeeping
<1>2. expired \in SUBSET Live
  BY TableAssumption DEF Expired, Visited, Live, Slots, TypeOK
<1>3. active \in SUBSET expired
  OBVIOUS
<1>4. \A i \in expired \ active : ev[i].jc \in IdleConns
  BY <1>2 DEF TableInv, SlotsSound, Bound
<1>5. \A i \in active : ev[i].jc \in Conns /\ ev[i].jc \notin IdleConns
  BY <1>2, LiveSlot DEF TableInv, IdleSound
<1>6. ASSUME NEW c \in ConnType
      PROVE  /\ [c EXCEPT !.stream = "freed"].stream = "freed"
             /\ [c EXCEPT !.stream = "freed"].fd = c.fd
  BY DEF ConnType
<1>7. ASSUME NEW c \in dropped PROVE jcs'[c].stream # "live" /\ jcs'[c].fd \in {jcs[c].fd, NULL}
  <2>1. c \in Conns /\ jcs'[c] = [jcs[c] EXCEPT !.stream = "freed"]
    BY <1>1, <1>5
  <2>2. jcs[c] \in ConnType
    BY <2>1 DEF TypeOK
  <2> HIDE DEF dropped
  <2> QED BY <2>1, <2>2, <1>6
<1>8. \A c \in Conns \ dropped : jcs'[c] = jcs[c]
  BY <1>1
<1>9. IdleConns' = IdleConns \ dropped
  BY <1>1, <1>5 DEF IdleConns, PooledConns
<1>10. fds = {ev[i].fd : i \in active} /\ dropped = {ev[i].jc : i \in active}
  OBVIOUS
<1> HIDE DEF expired, active, fds, dropped
<1>11. EventDel(expired, fds) /\ CloseFds(fds) /\ leaked' = leaked
  BY <1>1
<1> QED BY <1>2, <1>3, <1>4, <1>7, <1>8, <1>9, <1>10, <1>11, Unregister

-----------------------------------------------------------------------------
(* Registering slots. *)

\* A bound slot is registered, or registered again, with callback cb.  What it
\* serves is afterwards a transaction, whether it was one or an idle connection,
\* or an idle connection.
LEMMA Reregister ==
  ASSUME TypeOK, TableInv, Running,
         NEW i \in Slots, NEW j, j = ev[i].jc, Bound(i),
         NEW cb \in Callbacks, NEW mask \in SUBSET Bits,
         EventAdd(i, EventResetCb(i, cb), mask), leaked' = leaked, OpenFds' = OpenFds,
         \A c \in Conns : jcs'[c].mem = jcs[c].mem /\ jcs'[c].fd = jcs[c].fd,
         \A c \in Conns : c # j => jcs'[c] = jcs[c],
         IF cb = "keepalive_cb"
         THEN /\ jcs'[j].alive /\ jcs'[j].stream = "none" /\ jcs'[j].status = "CONN_ESTAB"
              /\ IdleConns' = IdleConns \union {j}
         ELSE jcs'[j].stream = "live" /\ IdleConns' = IdleConns \ {j}
  PROVE  /\ TableInv'
         /\ Live' = Live \union {i}
         /\ \A k \in Slots : ev'[k].fd = ev[k].fd
         /\ \A f \in Fds : interest'[f] = NULL => interest[f] = NULL
<1> USE DEF TableInv
<1>1. j \in Conns /\ ev[i].fd \in Fds /\ ev[i] \in SlotType
  BY DEF Bound, TypeOK, TableTypeOK, SlotType, OpenFds
<1>2. EventResetCb(i, cb) =
        [fd |-> ev[i].fd, jc |-> j, cb |-> cb, status |-> ev[i].status, age |-> ev[i].age]
  BY <1>1 DEF EventResetCb, SlotType
<1>3. \A k \in Slots :
        ev'[k] = IF k = i THEN [fd |-> ev[i].fd, jc |-> j, cb |-> cb, status |-> 1, age |-> 0]
                 ELSE ev[k]
  BY <1>2 DEF EventAdd, Registered, TypeOK, TableTypeOK
<1>4. /\ Live' = Live \union {i}
      /\ \A k \in Slots : /\ ev'[k].fd = ev[k].fd /\ ev'[k].jc = ev[k].jc
                          /\ ev'[k].cb = IF k = i THEN cb ELSE ev[k].cb
                          /\ ev'[k].status = IF k = i THEN 1 ELSE ev[k].status
  BY <1>3 DEF Live
<1>5. FoundAsBefore
  <2> SUFFICES ASSUME NEW k \in Slots, ev[k].jc # NULL
               PROVE  jcs'[ev[k].jc].fd = jcs[ev[k].jc].fd
    BY <1>4 DEF FoundAsBefore
  <2>1. ev[k].jc \in Conns
    BY DEF TypeOK, TableTypeOK, SlotType
  <2> QED BY <2>1
<1>6. ASSUME NEW k \in Slots, Bound(k) PROVE Bound(k)' /\ ev[k].jc \in Conns
  <2>1. ev[k].jc \in Conns /\ ev[k].fd \in OpenFds \ leaked
    BY <1>6 DEF Bound, TypeOK, TableTypeOK, SlotType
  <2> QED BY <2>1, <1>4, <1>5, <1>6, BoundKept
<1>7. \A k \in Slots : Bound(k) /\ ev[k].jc = j => k = i
  BY BoundUnique DEF Bound
<1>8. SlotsSound'
  <2> SUFFICES ASSUME NEW k \in Live \union {i}
               PROVE  (/\ Bound(k)
                       /\ \/ InTransaction(k) /\ jcs[ev[k].jc].stream = "live"
                          \/ ev[k].cb = "keepalive_cb" /\ ev[k].jc \in IdleConns)'
    BY <1>4 DEF SlotsSound
  <2>1. CASE k = i
    <3>1. Bound(k)'
      BY <2>1, <1>6
    <3>2. CASE cb = "keepalive_cb"
      BY <2>1, <3>1, <3>2, <1>4
    <3>3. CASE cb # "keepalive_cb"
      BY <2>1, <3>1, <3>3, <1>4 DEF InTransaction, Callbacks
    <3> QED BY <3>2, <3>3
  <2>2. CASE k # i
    <3>1. k \in Slots /\ Bound(k) /\ Bound(k)' /\ ev[k].jc \in Conns
      BY <2>2, <1>6, LiveSlot
    <3>2. ev[k].jc # j /\ jcs'[ev[k].jc] = jcs[ev[k].jc]
      BY <2>2, <3>1, <1>7
    <3>3. \/ InTransaction(k) /\ jcs[ev[k].jc].stream = "live"
          \/ ev[k].cb = "keepalive_cb" /\ ev[k].jc \in IdleConns
      BY <2>2 DEF SlotsSound
    <3> QED BY <2>2, <3>1, <3>2, <3>3, <1>4 DEF InTransaction
  <2> QED BY <2>1, <2>2
<1>9. IdleSound'
  <2> SUFFICES ASSUME NEW c \in IdleConns'
               PROVE  (/\ jcs[c].alive /\ jcs[c].stream = "none" /\ jcs[c].status = "CONN_ESTAB"
                       /\ \E k \in Slots : Bound(k) /\ ev[k].jc = c /\ ev[k].cb = "keepalive_cb")'
    BY DEF IdleSound
  <2>1. CASE c = j
    <3>1. cb = "keepalive_cb"
      BY <2>1
    <3> QED BY <2>1, <3>1, <1>4, <1>6
  <2>2. CASE c # j
    <3>1. c \in IdleConns /\ c \in Conns
      BY <2>2, IdleTypes
    <3>2. PICK k \in Slots : Bound(k) /\ ev[k].jc = c /\ ev[k].cb = "keepalive_cb"
      BY <3>1 DEF IdleSound
    <3>3. jcs'[c] = jcs[c] /\ k # i
      BY <2>2, <3>1, <3>2
    <3> QED BY <3>1, <3>2, <3>3, <1>4, <1>6 DEF IdleSound
  <2> QED BY <2>1, <2>2
<1>10. NothingLost'
  <2>1. leaked' \subseteq OpenFds'
    BY DEF NothingLost
  <2>2. ASSUME NEW f \in OpenFds' \ leaked'
        PROVE  (\E k \in Live' : ev'[k].fd = f) \/ (\E c \in IdleConns' : jcs'[c].fd = f)
    <3>1. CASE \E k \in Live : ev[k].fd = f
      BY <3>1, <1>4, LiveSlot
    <3>2. CASE \E c \in IdleConns : jcs[c].fd = f
      <4>1. PICK c \in IdleConns : jcs[c].fd = f
        BY <3>2
      <4>2. CASE c = j
        BY <4>1, <4>2, <1>4 DEF Bound
      <4>3. CASE c # j
        BY <4>1, <4>3, IdleTypes
      <4> QED BY <4>2, <4>3
    <3> QED BY <2>2, <3>1, <3>2 DEF NothingLost
  <2>3. ASSUME NEW c \in Conns, jcs'[c].stream = "live" PROVE \E k \in Live' : ev'[k].jc = c
    <3>1. CASE c = j
      BY <3>1, <1>4
    <3>2. CASE c # j
      <4>1. PICK k \in Live : ev[k].jc = c
        BY <2>3, <3>2 DEF NothingLost
      <4> QED BY <4>1, <1>4, LiveSlot
    <3> QED BY <3>1, <3>2
  <2> QED BY <2>1, <2>2, <2>3 DEF NothingLost
<1>11. /\ \A f \in Fds : \/ interest'[f] = interest[f]
                         \/ interest'[f] = [slot |-> i, mask |-> mask] /\ f = ev[i].fd
       /\ \A f \in Fds : interest'[f] = NULL => interest[f] = NULL
  <2>1. [slot |-> i, mask |-> mask] # NULL
    BY TableAssumption DEF Bits, Slots
  <2>2. EpollMod(i, ev[i].fd, mask) \/ EpollAdd(i, ev[i].fd, mask)
    BY <1>2 DEF EventAdd
  <2> QED BY <2>1, <2>2, <1>1 DEF EpollMod, EpollAdd, TypeOK, TableTypeOK
<1>12. InterestSound'
  <2> SUFFICES ASSUME NEW f \in Fds, interest'[f] # NULL
               PROVE  interest'[f].slot \in Live' /\ ev'[interest'[f].slot].fd = f
    BY DEF InterestSound
  <2>1. CASE interest'[f] = interest[f]
    BY <2>1, <1>4 DEF InterestSound, Live
  <2>2. CASE interest'[f] = [slot |-> i, mask |-> mask] /\ f = ev[i].fd
    BY <2>2, <1>4
  <2> QED BY <2>1, <2>2, <1>11
<1> QED BY <1>4, <1>8, <1>9, <1>10, <1>11, <1>12

\* A fresh connection on a fresh descriptor gets a fresh slot: there is no idle
\* connection whose slot it could be.
LEMMA NewConnectionInv ==
  ASSUME TypeOK, TableInv, PoolQueue, NewConnection
  PROVE  TableInv'
<1> USE DEF TableInv
<1>1. PICK j \in FreeConns, f \in ClosedFds, i \in Slots :
         /\ Connect(j, f)
         /\ FirstFree(i)
         /\ EventAdd(i, EventSet(f, j, "connect_cb"), {"OUT"})
  BY DEF NewConnection
<1>2. j \in Conns /\ jcs[j].mem = "free" /\ f \in Fds /\ f \notin OpenFds /\ i \notin Live
  BY <1>1 DEF FreeConns, ClosedFds, FirstFree, Live, OpenFds
<1>3. /\ IdleConns = {} /\ IdleConns' = {} /\ leaked' = leaked /\ Running
      /\ \E st \in {"connecting", "writable"} : sock' = [sock EXCEPT ![f] = NewSock(st)]
  <2>1. /\ pc = "attach" /\ cur = NULL /\ cur' = NULL /\ pool' = pool /\ leaked' = leaked
        /\ \E st \in {"connecting", "writable"} : sock' = [sock EXCEPT ![f] = NewSock(st)]
    BY <1>1 DEF Connect
  <2>2. pool = <<>>
    BY <2>1 DEF PoolQueue
  <2>3. IdleConns = {} /\ IdleConns' = {}
    BY <2>1, <2>2 DEF IdleConns, PooledConns
  <2> QED BY <2>1, <2>3 DEF Running, Phases
<1>4. \A k \in Slots : ev'[k] = IF k = i THEN Registered(EventSet(f, j, "connect_cb")) ELSE ev[k]
  BY <1>1 DEF EventAdd, TypeOK, TableTypeOK
<1>5. /\ Live' = Live \union {i}
      /\ \A k \in Slots : k # i => ev'[k] = ev[k]
      /\ ev'[i].fd = f /\ ev'[i].jc = j /\ ev'[i].cb = "connect_cb" /\ ev'[i].status = 1
  BY <1>2, <1>4 DEF Live, Registered, EventSet
<1>6. \A k \in Conns : jcs'[k] = IF k = j THEN WithStream(NewConn(f)) ELSE jcs[k]
  BY <1>1, <1>2 DEF Connect, TypeOK
<1>7. jcs'[j].mem = "live" /\ jcs'[j].fd = f /\ jcs'[j].stream = "live" /\ j # NULL
  BY <1>2, <1>6, TableAssumption DEF WithStream, NewConn
<1>8. OpenFds' = OpenFds \union {f}
  BY <1>2, <1>3 DEF NewSock, OpenFds, ClosedFds, TypeOK
<1>9. FoundAsBefore
  <2> SUFFICES ASSUME NEW k \in Slots, ev'[k].jc # NULL
               PROVE  \/ ev[k].jc # NULL /\ jcs'[ev'[k].jc].fd = jcs[ev[k].jc].fd
                      \/ jcs'[ev'[k].jc].fd \notin OpenFds
    BY DEF FoundAsBefore
  <2>1. ev[k].jc \in Conns \union {NULL}
    BY DEF TypeOK, TableTypeOK, SlotType
  <2> QED BY <2>1, <1>2, <1>5, <1>6, <1>7
<1>10. SlotsSound'
  <2>1. ASSUME NEW k \in Live
        PROVE  (Bound(k) /\ InTransaction(k) /\ jcs[ev[k].jc].stream = "live")'
    <3>1. k \in Slots /\ Bound(k) /\ ev[k].jc \in Conns /\ ev[k].jc # j /\ k # i
          /\ ev[k].fd \in OpenFds \ leaked
      BY <1>2, LiveSlot DEF Bound
    <3>2. ev'[k] = ev[k] /\ jcs'[ev[k].jc] = jcs[ev[k].jc]
      BY <3>1, <1>5, <1>6
    <3>3. Bound(k)'
      BY <3>1, <3>2, <1>3, <1>8, <1>9, BoundKept
    <3>4. InTransaction(k) /\ jcs[ev[k].jc].stream = "live"
      BY <1>3 DEF SlotsSound
    <3> QED BY <3>2, <3>3, <3>4 DEF InTransaction
  <2>2. (Bound(i) /\ InTransaction(i) /\ jcs[ev[i].jc].stream = "live")'
    <3>1. f \notin leaked
      BY <1>2 DEF NothingLost
    <3>2. ASSUME NEW k \in Slots, k < i PROVE jcs'[ev'[k].jc].fd # f
      <4>1. i \in Int /\ k \in Int /\ k # i
        BY <3>2, TableAssumption DEF Slots
      <4>2. k \in Live
        BY <1>1, <3>2 DEF FirstFree, Live
      <4>3. /\ ev[k].jc \in Conns /\ ev[k].jc # j
            /\ jcs[ev[k].jc].fd = ev[k].fd /\ ev[k].fd \in OpenFds
        BY <1>2, <4>2, LiveSlot DEF Bound
      <4> QED BY <1>2, <1>5, <1>6, <4>1, <4>3
    <3> QED BY <3>1, <3>2, <1>3, <1>5, <1>7, <1>8 DEF Bound, InTransaction
  <2> QED BY <2>1, <2>2, <1>5 DEF SlotsSound
<1>11. IdleSound'
  BY <1>3 DEF IdleSound
<1>12. NothingLost'
  <2>1. leaked' \subseteq OpenFds'
    BY <1>3, <1>8 DEF NothingLost
  <2>2. \A g \in OpenFds' \ leaked' : \E k \in Live' : ev'[k].fd = g
    BY <1>2, <1>3, <1>5, <1>8 DEF NothingLost, Live
  <2>3. \A c \in Conns : jcs'[c].stream = "live" => \E k \in Live' : ev'[k].jc = c
    BY <1>2, <1>3, <1>5, <1>6 DEF NothingLost, Live
  <2> QED BY <2>1, <2>2, <2>3 DEF NothingLost
<1>13. InterestSound'
  <2>1. EpollAdd(i, f, {"OUT"})
    BY <1>1 DEF EventAdd, EventSet
  <2> SUFFICES ASSUME NEW g \in Fds, interest'[g] # NULL
               PROVE  interest'[g].slot \in Live' /\ ev'[interest'[g].slot].fd = g
    BY DEF InterestSound
  <2>2. CASE interest'[g] = interest[g]
    BY <2>2, <1>2, <1>5 DEF InterestSound, Live
  <2>3. CASE interest'[g] # interest[g]
    <3>1. g = f /\ interest'[g] = [slot |-> i, mask |-> {"OUT"}]
      BY <2>1, <2>3, <1>2 DEF EpollAdd, TypeOK, TableTypeOK
    <3> QED BY <3>1, <1>5
  <2> QED BY <2>2, <2>3
<1> QED BY <1>10, <1>11, <1>12, <1>13

-----------------------------------------------------------------------------
(* Steps that leave the table alone. *)

\* Nothing that a slot or a connection refers to changes.
LEMMA TableUntouched ==
  ASSUME TypeOK, TableInv,
         \A i \in Slots : /\ ev'[i].fd = ev[i].fd /\ ev'[i].jc = ev[i].jc
                          /\ ev'[i].cb = ev[i].cb /\ ev'[i].status = ev[i].status,
         UNCHANGED <<interest, jcs, leaked>>, OpenFds' = OpenFds, IdleConns' = IdleConns,
         Running' => Running
  PROVE  TableInv' /\ Live' = Live
<1> USE DEF TableInv
<1>1. Live' = Live
  BY DEF Live
<1>2. FoundAsBefore
  BY DEF FoundAsBefore
<1>3. \A i \in Slots : Bound(i) => Bound(i)'
  BY <1>2, BoundKept DEF Bound
<1>4. SlotsSound'
  BY <1>1, <1>3 DEF SlotsSound, InTransaction, Live
<1>5. IdleSound'
  BY <1>3 DEF IdleSound
<1>6. NothingLost' /\ InterestSound'
  BY <1>1 DEF NothingLost, InterestSound, Live
<1> QED BY <1>1, <1>4, <1>5, <1>6

\* A connection is made that no slot is given.
LEMMA UnownedConn ==
  ASSUME TypeOK, TableInv, NEW j \in FreeConns,
         UNCHANGED <<ev, interest>>, IdleConns' = IdleConns,
         \A c \in Conns : c # j => jcs'[c] = jcs[c],
         jcs'[j].fd \notin OpenFds,
         OpenFds \subseteq OpenFds', leaked' \subseteq OpenFds', leaked' \cap OpenFds = leaked,
         Running' => /\ Running /\ jcs'[j].stream # "live"
                     /\ OpenFds' \ leaked' \subseteq OpenFds
  PROVE  TableInv'
<1> USE DEF TableInv
<1>1. Live' = Live
  BY DEF Live
<1>2. FoundAsBefore
  <2> SUFFICES ASSUME NEW k \in Slots, ev[k].jc # NULL
               PROVE  \/ jcs'[ev[k].jc].fd = jcs[ev[k].jc].fd
                      \/ jcs'[ev[k].jc].fd \notin OpenFds
    BY DEF FoundAsBefore
  <2>1. ev[k].jc \in Conns
    BY DEF TypeOK, TableTypeOK, SlotType
  <2> QED BY <2>1
<1>3. ASSUME NEW i \in Slots, Bound(i)
      PROVE  Bound(i)' /\ ev[i].jc \in Conns /\ ev[i].jc # j
  <2>1. ev[i].jc \in Conns /\ ev[i].jc # j
    BY <1>3 DEF Bound, FreeConns, TypeOK, TableTypeOK, SlotType
  <2>2. ev[i].fd \in OpenFds' \ leaked'
    BY <1>3 DEF Bound
  <2> QED BY <1>2, <1>3, <2>1, <2>2, BoundKept
<1>4. SlotsSound'
  BY <1>1, <1>3 DEF SlotsSound, InTransaction, Live
<1>5. \A c \in IdleConns : c \in Conns /\ c # j
  BY <1>3, IdleTypes DEF IdleSound
<1>6. IdleSound'
  BY <1>3, <1>5 DEF IdleSound
<1>7. NothingLost'
  <2>1. leaked' \subseteq OpenFds'
    OBVIOUS
  <2>2. ASSUME Running', NEW f \in OpenFds' \ leaked'
        PROVE  (\E i \in Live' : ev'[i].fd = f) \/ (\E c \in IdleConns' : jcs'[c].fd = f)
    <3>1. f \in OpenFds \ leaked
      BY <2>2
    <3> QED BY <2>2, <3>1, <1>1, <1>5 DEF NothingLost
  <2>3. ASSUME Running', NEW c \in Conns, jcs'[c].stream = "live"
        PROVE  \E i \in Live' : ev'[i].jc = c
    BY <2>3, <1>1 DEF NothingLost
  <2> QED BY <2>1, <2>2, <2>3 DEF NothingLost
<1>8. InterestSound'
  BY <1>1 DEF InterestSound, Live
<1> QED BY <1>4, <1>6, <1>7, <1>8

\* The error path of create_transaction loses a jconnect, and sometimes a
\* descriptor, but disturbs no transaction.
LEMMA CreateFailsInv ==
  ASSUME TypeOK, TableInv, CreateFails
  PROVE  TableInv'
<1>1. /\ Running /\ UNCHANGED <<ev, interest>> /\ IdleConns' = IdleConns
      /\ leaked \subseteq OpenFds
  BY DEF CreateFails, Running, Phases, table, IdleConns, PooledConns, TableInv, NothingLost
<1>2. CASE UNCHANGED <<sock, jcs, leaked>>
  BY <1>1, <1>2, TableUntouched DEF OpenFds, ClosedFds
<1>3. ASSUME NEW j \in FreeConns, jcs' = [jcs EXCEPT ![j] = OrphanConn]
      PROVE  /\ \A c \in Conns : c # j => jcs'[c] = jcs[c]
             /\ jcs'[j].fd \notin OpenFds /\ jcs'[j].stream # "live"
  <2>1. OrphanConn.fd = NULL /\ OrphanConn.stream = "none"
    BY DEF OrphanConn, FreeConn
  <2> QED BY <1>3, <2>1, TableAssumption DEF TypeOK, FreeConns, OpenFds
<1>4. ASSUME NEW j \in FreeConns, NEW f \in ClosedFds, jcs' = [jcs EXCEPT ![j] = OrphanConn],
             sock' = [sock EXCEPT ![f] = DeadSock], leaked' = leaked \union {f}
      PROVE  TableInv'
  <2>1. OpenFds' = OpenFds \union {f} /\ f \notin OpenFds
    BY <1>4 DEF OpenFds, ClosedFds, DeadSock, TypeOK
  <2> QED BY <1>1, <1>3, <1>4, <2>1, UnownedConn
<1>5. ASSUME NEW j \in FreeConns, jcs' = [jcs EXCEPT ![j] = OrphanConn], UNCHANGED <<sock, leaked>>
      PROVE  TableInv'
  <2>1. OpenFds' = OpenFds
    BY <1>5 DEF OpenFds, ClosedFds
  <2> QED BY <1>1, <1>3, <1>5, <2>1, UnownedConn
<1> QED BY <1>2, <1>4, <1>5 DEF CreateFails

\* The process dies with a socket and a stream that no slot knows.
LEMMA NoSlotLeftInv ==
  ASSUME TypeOK, TableInv, NoSlotLeft
  PROVE  TableInv'
<1>1. PICK j \in FreeConns, f \in ClosedFds : Connect(j, f) /\ UNCHANGED <<ev, interest>>
  BY DEF NoSlotLeft, table
<1>2. ~Running' /\ leaked \subseteq OpenFds
  BY DEF NoSlotLeft, Running, Phases, TableInv, NothingLost
<1>3. \A k \in Conns : jcs'[k] = IF k = j THEN WithStream(NewConn(f)) ELSE jcs[k]
  BY <1>1 DEF Connect, TypeOK, FreeConns
<1>4. OpenFds' = OpenFds \union {f} /\ f \notin OpenFds /\ leaked' = leaked
  BY <1>1 DEF Connect, NewSock, OpenFds, ClosedFds, TypeOK
<1>5. jcs'[j].fd = f /\ IdleConns' = IdleConns
  BY <1>1, <1>3 DEF WithStream, NewConn, FreeConns, Connect, IdleConns, PooledConns
<1> QED BY <1>1, <1>2, <1>3, <1>4, <1>5, UnownedConn

-----------------------------------------------------------------------------
(* The list of idle connections. *)

\* The place in the second part of a list of what follows the k-th entry.
LEMMA IndexBehind ==
  ASSUME NEW n \in Nat, NEW k \in 1 .. n, NEW m \in 1 .. n - 1, ~(m < k)
  PROVE  m - (k - 1) \in 1 .. n - k /\ m - (k - 1) + k = m + 1 /\ ~(m <= k - 1)
OBVIOUS

\* An entry that is not the k-th has one place in a list without the k-th.
LEMMA SamePlace ==
  ASSUME NEW k \in Int, NEW x \in Int, NEW y \in Int,
         (IF x < k THEN x ELSE x + 1) = (IF y < k THEN y ELSE y + 1)
  PROVE  x = y
OBVIOUS

\* list_del.
LEMMA WithoutOne ==
  ASSUME NEW S, NEW s \in Seq(S), IsInjective(s), NEW k \in DOMAIN s, NEW t,
         t = SubSeq(s, 1, k - 1) \o SubSeq(s, k + 1, Len(s))
  PROVE  IsInjective(t) /\ Range(t) = Range(s) \ {s[k]}
<1> DEFINE n == Len(s)
           a == SubSeq(s, 1, k - 1)
           b == SubSeq(s, k + 1, n)
<1>1. DOMAIN s = 1 .. n /\ n \in Nat /\ k \in 1 .. n /\ \A m \in 1 .. n : s[m] \in S
  OBVIOUS
<1>2. t = a \o b
  OBVIOUS
<1> HIDE DEF n
<1>3. /\ a \in Seq(S) /\ Len(a) = k - 1
      /\ \A m \in 1 .. k - 1 : a[m] = s[m]
  <2>1. \A m \in 1 .. k - 1 : s[m] \in S
    BY <1>1
  <2>2. 1 \in Int /\ k - 1 \in Int
    BY <1>1
  <2>3. /\ a \in Seq(S) /\ Len(a) = IF 1 <= k - 1 THEN k - 1 - 1 + 1 ELSE 0
        /\ \A m \in 1 .. k - 1 - 1 + 1 : a[m] = s[1 + m - 1]
    BY <2>1, <2>2, SubSeqProperties
  <2> HIDE DEF a
  <2>4. Len(a) = k - 1
    BY <1>1, <2>3
  <2>5. \A m \in 1 .. k - 1 : 1 + m - 1 = m /\ m \in 1 .. k - 1 - 1 + 1
    BY <1>1
  <2> QED BY <2>3, <2>4, <2>5
<1>4. /\ b \in Seq(S) /\ Len(b) = n - k
      /\ \A m \in 1 .. n - k : b[m] = s[m + k]
  <2>1. \A m \in k + 1 .. n : s[m] \in S
    BY <1>1
  <2>2. k + 1 \in Int /\ n \in Int
    BY <1>1
  <2>3. /\ b \in Seq(S) /\ Len(b) = IF k + 1 <= n THEN n - (k + 1) + 1 ELSE 0
        /\ \A m \in 1 .. n - (k + 1) + 1 : b[m] = s[k + 1 + m - 1]
    BY <2>1, <2>2, SubSeqProperties
  <2> HIDE DEF b
  <2>4. Len(b) = n - k
    BY <1>1, <2>3
  <2>5. \A m \in 1 .. n - k : k + 1 + m - 1 = m + k /\ m \in 1 .. n - (k + 1) + 1
    BY <1>1
  <2> QED BY <2>3, <2>4, <2>5
<1> HIDE DEF a, b
<1>5. /\ t \in Seq(S) /\ DOMAIN t = 1 .. n - 1
      /\ \A m \in 1 .. n - 1 : t[m] = IF m < k THEN s[m] ELSE s[m + 1]
  <2>1. /\ t \in Seq(S) /\ Len(t) = Len(a) + Len(b)
        /\ \A m \in 1 .. Len(a) + Len(b) : t[m] = IF m <= Len(a) THEN a[m] ELSE b[m - Len(a)]
    <3>1. a \in Seq(S) /\ b \in Seq(S)
      BY <1>3, <1>4
    <3>2. /\ a \o b \in Seq(S) /\ Len(a \o b) = Len(a) + Len(b)
          /\ \A m \in 1 .. Len(a) + Len(b) :
               (a \o b)[m] = IF m <= Len(a) THEN a[m] ELSE b[m - Len(a)]
      BY <3>1, ConcatProperties
    <3> QED BY <1>2, <3>2, Zenon
  <2>2. Len(a) + Len(b) = n - 1
    BY <1>1, <1>3, <1>4
  <2>3. ASSUME NEW m \in 1 .. n - 1 PROVE t[m] = IF m < k THEN s[m] ELSE s[m + 1]
    <3>1. CASE m < k
      <4>1. m \in 1 .. k - 1 /\ m <= k - 1
        BY <1>1, <3>1
      <4> QED BY <1>3, <2>1, <2>2, <3>1, <4>1
    <3>2. CASE ~(m < k)
      <4>1. m - (k - 1) \in 1 .. n - k /\ m - (k - 1) + k = m + 1 /\ ~(m <= k - 1)
        BY <1>1, <3>2, IndexBehind
      <4>2. t[m] = b[m - (k - 1)]
        BY <1>3, <2>1, <2>2, <4>1
      <4> QED BY <3>2, <4>1, <4>2, <1>4
    <3> QED BY <3>1, <3>2
  <2>4. DOMAIN t = 1 .. n - 1
    <3>1. DOMAIN t = 1 .. Len(t)
      BY <2>1, LenProperties
    <3> QED BY <2>1, <2>2, <3>1
  <2> QED BY <2>1, <2>3, <2>4
<1>6. IsInjective(t)
  <2> SUFFICES ASSUME NEW x \in 1 .. n - 1, NEW y \in 1 .. n - 1, t[x] = t[y] PROVE x = y
    BY <1>5 DEF IsInjective
  <2>1. x \in 1 .. n /\ y \in 1 .. n /\ x + 1 \in 1 .. n /\ y + 1 \in 1 .. n
    BY <1>1
  <2>2. \A p, q \in 1 .. n : s[p] = s[q] => p = q
    BY <1>1 DEF IsInjective
  <2>3. (IF x < k THEN x ELSE x + 1) = (IF y < k THEN y ELSE y + 1)
    BY <1>5, <2>1, <2>2
  <2>4. x \in Int /\ y \in Int /\ k \in Int
    BY <1>1
  <2> QED BY <2>3, <2>4, SamePlace
<1>7. ASSUME NEW m \in DOMAIN t PROVE t[m] \in Range(s) \ {s[k]}
  <2>1. m \in 1 .. n /\ m + 1 \in 1 .. n /\ (m < k => m # k) /\ (~(m < k) => m + 1 # k)
        /\ m \in 1 .. n - 1
    BY <1>1, <1>5
  <2>2. \A p, q \in 1 .. n : s[p] = s[q] => p = q
    BY <1>1 DEF IsInjective
  <2> QED BY <1>1, <1>5, <2>1, <2>2 DEF Range
<1>8. ASSUME NEW m \in DOMAIN s, m # k PROVE s[m] \in Range(t)
  <2>0. m \in 1 .. n
    BY <1>1
  <2>1. CASE m < k
    <3>1. m \in 1 .. n - 1
      BY <1>1, <2>0, <2>1
    <3> QED BY <3>1, <1>5, <2>1 DEF Range
  <2>2. CASE m > k
    <3>1. m - 1 \in 1 .. n - 1 /\ ~(m - 1 < k) /\ m - 1 + 1 = m
      BY <1>1, <2>0, <2>2
    <3>2. t[m - 1] = s[m]
      BY <1>5, <3>1
    <3> QED BY <3>1, <3>2, <1>5 DEF Range
  <2> QED BY <1>1, <1>8, <2>0, <2>1, <2>2
<1>9. Range(t) \subseteq Range(s) \ {s[k]}
  BY <1>7 DEF Range
<1>10. Range(s) \ {s[k]} \subseteq Range(t)
  BY <1>8 DEF Range
<1> QED BY <1>6, <1>9, <1>10

\* get_connection takes the first.
LEMMA WithoutFirst ==
  ASSUME NEW S, NEW s \in Seq(S), IsInjective(s), Len(s) > 0
  PROVE  LET t == SubSeq(s, 2, Len(s))
         IN IsInjective(t) /\ Range(t) = Range(s) \ {s[1]}
<1> DEFINE t == SubSeq(s, 2, Len(s))
<1>1. 1 \in DOMAIN s /\ Len(s) \in Nat /\ \A m \in 2 .. Len(s) : s[m] \in S
  OBVIOUS
<1>2. t \in Seq(S)
  BY <1>1, SubSeqProperties
<1>3. SubSeq(s, 1, 0) = <<>>
  BY SubSeqEmpty
<1>4. <<>> \o t = t
  <2> HIDE DEF t
  <2> QED BY <1>2, ConcatEmptySeq
<1>5. 1 - 1 = 0 /\ 1 + 1 = 2
  OBVIOUS
<1>6. t = SubSeq(s, 1, 1 - 1) \o SubSeq(s, 1 + 1, Len(s))
  BY <1>3, <1>4, <1>5
<1> HIDE DEF t
<1>7. IsInjective(t) /\ Range(t) = Range(s) \ {s[1]}
  BY <1>1, <1>6, WithoutOne
<1> QED BY <1>7 DEF t

\* list_add_tail.
LEMMA WithOneMore ==
  ASSUME NEW S, NEW s \in Seq(S), IsInjective(s), NEW x \in S, x \notin Range(s)
  PROVE  IsInjective(Append(s, x)) /\ Range(Append(s, x)) = Range(s) \union {x}
<1>1. /\ Len(s) \in Nat /\ DOMAIN s = 1 .. Len(s)
      /\ Len(Append(s, x)) = Len(s) + 1 /\ DOMAIN Append(s, x) = 1 .. Len(s) + 1
      /\ \A m \in 1 .. Len(s) : Append(s, x)[m] = s[m]
      /\ Append(s, x)[Len(s) + 1] = x
  BY AppendProperties
<1>2. \A m \in 1 .. Len(s) : s[m] # x
  BY <1>1 DEF Range
<1>3. IsInjective(Append(s, x))
  BY <1>1, <1>2 DEF IsInjective
<1>4. Range(Append(s, x)) \subseteq Range(s) \union {x}
  BY <1>1 DEF Range
<1>5. Range(s) \union {x} \subseteq Range(Append(s, x))
  <2>1. Len(s) + 1 \in 1 .. Len(s) + 1 /\ \A m \in 1 .. Len(s) : m \in 1 .. Len(s) + 1
    BY <1>1
  <2> QED BY <1>1, <2>1 DEF Range
<1> QED BY <1>3, <1>4, <1>5

-----------------------------------------------------------------------------
(* Steps that use the pool. *)

\* evget finds the slot that is bound to a descriptor.
LEMMA EvgetFinds ==
  ASSUME NEW i \in Slots, NEW k \in Slots, Bound(k)
  PROVE  FirstWithFd(i, ev[k].fd) <=> i = k
<1>1. \A m \in Slots : m \in Int /\ 0 .. m - 1 = {n \in Slots : n < m}
  BY TableAssumption DEF Slots
<1>2. FirstWithFd(k, ev[k].fd)
  BY <1>1 DEF Bound, FirstWithFd
<1>3. ASSUME FirstWithFd(i, ev[k].fd) PROVE i = k
  <2>1. ~(i < k)
    BY <1>3 DEF Bound, FirstWithFd
  <2>2. ~(k < i)
    <3> SUFFICES ASSUME k < i PROVE FALSE
      OBVIOUS
    <3>1. k \in 0 .. i - 1
      BY <1>1
    <3> QED BY <3>1, <1>3 DEF Bound, FirstWithFd
  <2> QED BY <1>1, <2>1, <2>2
<1> QED BY <1>2, <1>3

\* The pool is a list without duplicates.
LEMMA PoolIsList ==
  ASSUME TypeOK, PoolQueue
  PROVE  /\ pool \in Seq(Conns) /\ IsInjective(pool) /\ PooledConns = Range(pool)
         /\ Len(pool) \in Nat /\ (Len(pool) = 0 <=> pool = <<>>)
<1>1. pool \in Seq(Conns)
  BY DEF TypeOK
<1>2. Len(pool) \in Nat /\ (Len(pool) = 0 <=> pool = <<>>)
  BY <1>1, EmptySeq
<1> QED BY <1>1, <1>2 DEF PoolQueue, IsInjective, PooledConns, Range

\* get_connection finds all that is in the pool alive, so it reaps nothing and
\* takes the first.
LEMMA GetConnectionInv ==
  ASSUME TypeOK, TableInv, PoolQueue, GetConnection
  PROVE  TableInv' /\ PoolQueue'
<1>1. PICK k \in 0 .. Len(pool) :
        LET reaped == {pool[m] : m \in 1 .. k}
            fds    == {jcs[j].fd : j \in reaped}
        IN /\ \A j \in reaped : ~jcs[j].alive
           /\ cur' = IF k < Len(pool) THEN pool[k + 1] ELSE NULL
           /\ pool' = SubSeq(pool, k + 2, Len(pool))
           /\ jcs' = [j \in Conns |-> IF j \in reaped THEN FreeConn ELSE jcs[j]]
           /\ CloseFds(fds)
           /\ EventDel({}, fds)
  BY DEF GetConnection
<1> DEFINE reaped == {pool[m] : m \in 1 .. k}
<1>2. /\ pc = "create" /\ pc' = "attach" /\ leaked' = leaked
      /\ Running /\ cur = NULL
  BY DEF GetConnection, PoolQueue, Running, Phases
<1>3. k = 0
  <2> SUFFICES ASSUME k # 0 PROVE FALSE
    OBVIOUS
  <2>1. 1 \in 1 .. k /\ 1 \in DOMAIN pool
    BY PoolIsList
  <2>2. pool[1] \in IdleConns /\ pool[1] \in reaped
    BY <2>1 DEF IdleConns, PooledConns
  <2> QED BY <1>1, <2>2 DEF TableInv, IdleSound
<1>4. reaped = {} /\ {jcs[j].fd : j \in reaped} = {}
  BY <1>3
<1>5. /\ cur' = IF 0 < Len(pool) THEN pool[1] ELSE NULL
      /\ pool' = SubSeq(pool, 2, Len(pool))
      /\ jcs' = [j \in Conns |-> jcs[j]]
      /\ CloseFds({}) /\ EventDel({}, {})
  <2>1. 0 + 1 = 1 /\ 0 + 2 = 2
    OBVIOUS
  <2> QED BY <1>1, <1>3, <1>4, <2>1
<1>6. UNCHANGED <<ev, interest, sock, jcs>>
  BY <1>5 DEF EventDel, CloseFds, TypeOK, TableTypeOK
<1>7. CASE Len(pool) = 0
  <2>1. pool = <<>> /\ cur' = NULL /\ pool' = <<>>
    BY <1>5, <1>7, PoolIsList, SubSeqEmpty
  <2>2. IdleConns' = IdleConns
    BY <2>1, <1>2 DEF IdleConns, PooledConns
  <2>3. TableInv'
    BY <1>2, <1>6, <2>2, TableUntouched DEF OpenFds, ClosedFds
  <2>4. PoolQueue'
    BY <2>1, <1>2 DEF PoolQueue
  <2> QED BY <2>3, <2>4
<1>8. CASE Len(pool) # 0
  <2>1. pool \in Seq(Conns) /\ IsInjective(pool) /\ Len(pool) > 0 /\ PooledConns = Range(pool)
    BY <1>8, PoolIsList
  <2>2. cur' = pool[1] /\ pool' = SubSeq(pool, 2, Len(pool)) /\ pool[1] \in Conns
        /\ pool[1] \in PooledConns
    BY <1>5, <2>1 DEF PooledConns
  <2>3. IsInjective(pool') /\ Range(pool') = Range(pool) \ {pool[1]}
    BY <2>1, <2>2, WithoutFirst
  <2>4. cur' # NULL /\ PooledConns' = PooledConns \ {pool[1]}
    BY <2>1, <2>2, <2>3, TableAssumption DEF PooledConns, Range
  <2>5. IdleConns' = IdleConns
    BY <2>2, <2>4, <1>2 DEF IdleConns
  <2>6. TableInv'
    BY <1>2, <1>6, <2>5, TableUntouched DEF OpenFds, ClosedFds
  <2>7. PoolQueue'
    BY <2>1, <2>2, <2>3, <2>4, <1>2, <1>8, PoolIsList DEF PoolQueue, IsInjective
  <2> QED BY <2>6, <2>7
<1> QED BY <1>7, <1>8

\* The connection taken out of the pool gets its own slot back.
LEMMA ReuseConnectionInv ==
  ASSUME TypeOK, TableInv, PoolQueue, ReuseConnection
  PROVE  TableInv' /\ PoolQueue'
<1>1. PICK i \in Slots :
        /\ FirstWithFd(i, jcs[cur].fd)
        /\ EventAdd(i, EventResetCb(i, "data_transfer"), {"OUT"})
  BY DEF ReuseConnection
<1>2. /\ pc = "attach" /\ pc' = "expire" /\ cur # NULL /\ cur' = NULL
      /\ UNCHANGED <<sock, pool, leaked>> /\ Running /\ KeepAlive
      /\ jcs' = [jcs EXCEPT ![cur] = WithStream(@)]
  BY ClientAssumption DEF ReuseConnection, PoolQueue, Running, Phases
<1>3. cur \in IdleConns /\ cur \in Conns /\ IdleConns' = IdleConns \ {cur}
  BY <1>2 DEF IdleConns, PooledConns, PoolQueue, TypeOK
<1>4. PICK k \in Slots : Bound(k) /\ ev[k].jc = cur
  BY <1>3 DEF TableInv, IdleSound
<1>5. i = k
  BY <1>1, <1>4, EvgetFinds DEF Bound
<1>6. \A c \in Conns : jcs'[c] = IF c = cur THEN WithStream(jcs[cur]) ELSE jcs[c]
  BY <1>2, <1>3 DEF TypeOK
<1>7. /\ \A c \in Conns : jcs'[c].mem = jcs[c].mem /\ jcs'[c].fd = jcs[c].fd
      /\ \A c \in Conns : c # cur => jcs'[c] = jcs[c]
      /\ jcs'[cur].stream = "live"
  BY <1>3, <1>6 DEF WithStream
<1>8. OpenFds' = OpenFds
  BY <1>2 DEF OpenFds, ClosedFds
<1>9. TableInv'
  BY <1>1, <1>2, <1>3, <1>4, <1>5, <1>7, <1>8, Reregister DEF Callbacks, Bits
<1>10. PoolQueue'
  BY <1>2 DEF PoolQueue
<1> QED BY <1>9, <1>10

-----------------------------------------------------------------------------
(* The kernel, the clock and epoll_wait. *)

\* The kernel does not close a descriptor on its own.
LEMMA KernelKeepsOpen ==
  ASSUME TypeOK, Kernel
  PROVE  OpenFds' = OpenFds
<1>1. PICK f \in Fds : Connected(f) \/ Drained(f) \/ Reset(f) \/ PeerSpeaks(f)
  BY DEF Kernel
<1>2. sock[f].st # "closed"
  BY <1>1 DEF Connected, Drained, Reset, SockMoves, PeerSpeaks
<1>3. ASSUME NEW s \in SockType, NEW st \in {"writable", "dead"}
      PROVE  [s EXCEPT !.st = st].st = st /\ [s EXCEPT !.inq = TRUE].st = s.st
  BY DEF SockType
<1>4. sock[f] \in SockType
  BY DEF TypeOK
<1>5. \A g \in Fds : g # f => sock'[g] = sock[g]
  BY <1>1 DEF Connected, Drained, Reset, SockMoves, PeerSpeaks, TypeOK
<1>6. sock'[f].st # "closed"
  <2>1. \/ \E st \in {"writable", "dead"} : sock'[f] = [sock[f] EXCEPT !.st = st]
        \/ sock'[f] = [sock[f] EXCEPT !.inq = TRUE]
    BY <1>1 DEF Connected, Drained, Reset, SockMoves, PeerSpeaks, TypeOK
  <2> QED BY <2>1, <1>2, <1>3, <1>4
<1> QED BY <1>2, <1>5, <1>6 DEF OpenFds, ClosedFds

\* Nor does a write that fills the send buffer.
LEMMA TransferMoreKeepsOpen ==
  ASSUME TypeOK, NEW e \in batch, TransferMore(e)
  PROVE  OpenFds' = OpenFds
<1> DEFINE f == jcs[ev[e.slot].jc].fd
<1>1. \A s \in SockType : [s EXCEPT !.st = "blocked"].st = "blocked"
  BY DEF SockType
<1>2. CASE sock[f].st = "writable"
  <2>1. sock' = [sock EXCEPT ![f].st = "blocked"]
    BY <1>2 DEF TransferMore
  <2>2. \A g \in Fds : sock'[g] = IF g = f THEN [sock[f] EXCEPT !.st = "blocked"] ELSE sock[g]
    BY <2>1 DEF TypeOK
  <2>3. ASSUME NEW g \in Fds PROVE sock'[g].st = "closed" <=> sock[g].st = "closed"
    <3>1. CASE g = f
      <4>1. sock'[g] = [sock[g] EXCEPT !.st = "blocked"] /\ sock[g] \in SockType
        BY <2>2, <3>1 DEF TypeOK
      <4>2. sock'[g].st = "blocked"
        BY <1>1, <4>1
      <4> QED BY <1>2, <3>1, <4>2
    <3>2. CASE g # f
      BY <2>2, <3>2
    <3> QED BY <3>1, <3>2
  <2> QED BY <2>3 DEF OpenFds, ClosedFds
<1>3. CASE sock[f].st # "writable"
  BY <1>3 DEF TransferMore, OpenFds, ClosedFds
<1> QED BY <1>2, <1>3

\* A tick ages the slots and changes nothing else in them.
LEMMA TickInv ==
  ASSUME TypeOK, TableInv, Tick
  PROVE  TableInv' /\ Live' = Live /\ \A i \in Slots : ev'[i].fd = ev[i].fd
<1>1. \A i \in Slots : /\ ev'[i].fd = ev[i].fd /\ ev'[i].jc = ev[i].jc
                      /\ ev'[i].cb = ev[i].cb /\ ev'[i].status = ev[i].status
  BY OlderEffect DEF Tick, TypeOK
<1>2. UNCHANGED <<interest, sock, jcs, pc, leaked, pool, cur>>
  BY DEF Tick
<1>3. OpenFds' = OpenFds /\ IdleConns' = IdleConns /\ (Running' => Running)
  BY <1>2 DEF OpenFds, ClosedFds, IdleConns, PooledConns, Running
<1> QED BY <1>1, <1>2, <1>3, TableUntouched

\* The events that epoll_wait reports are each for a slot of its own.
LEMMA EpollWaitInv ==
  ASSUME TypeOK, LoopInv, EpollWait
  PROVE  LoopInv'
<1>1. PICK report \in [Ready -> SUBSET Bits] :
        batch' = {[slot |-> interest[f].slot, bits |-> report[f]] : f \in Ready}
  BY DEF EpollWait
<1>2. \A f \in Ready : interest[f].slot \in Live /\ ev[interest[f].slot].fd = f
                       /\ interest[f] # NULL
  BY DEF Ready, LoopInv, InterestSound
<1>3. UNCHANGED <<ev, interest, sock, jcs, pool, cur, leaked>>
      /\ pc' \in {"create", "dispatch"} /\ pc = "wait"
      /\ (pc' = "create" => Ready = {})
  BY DEF EpollWait, table
<1>4. BatchFresh'
  BY <1>1, <1>2, <1>3 DEF BatchFresh, Live
<1>5. pc' # "dispatch" => batch' = {}
  BY <1>1, <1>3
<1>6. OpenFds' = OpenFds /\ IdleConns' = IdleConns /\ (Running' => Running)
  BY <1>3 DEF OpenFds, ClosedFds, IdleConns, PooledConns, Running, Phases
<1>7. TableInv'
  BY <1>3, <1>6, TableUntouched DEF LoopInv, TableInv
<1>8. PoolQueue'
  BY <1>3 DEF LoopInv, PoolQueue, PooledConns
<1> QED BY <1>4, <1>5, <1>7, <1>8 DEF LoopInv, TableInv, BatchSound

\* Before epoll_wait no event is pending.
LEMMA NoBatch ==
  ASSUME BatchSound, pc \in {"create", "attach", "expire"}, UNCHANGED batch
  PROVE  BatchSound'
BY DEF BatchSound, BatchFresh

-----------------------------------------------------------------------------
(* The callbacks. *)

\* A callback that leaves the other slots, and their interest, as they are
\* leaves the rest of the batch valid.
LEMMA BatchAfter ==
  ASSUME BatchSound, NEW e \in batch, NEW cb, Handle(e, cb), Handled(e),
         \A k \in Live \ {e.slot} :
           /\ k \in Live' /\ ev'[k].fd = ev[k].fd
           /\ interest[ev[k].fd] # NULL => interest'[ev[k].fd] # NULL
  PROVE  BatchSound'
<1>1. ASSUME NEW d \in batch' PROVE d.slot \in Live' /\ interest'[ev'[d.slot].fd] # NULL
  <2>1. d \in batch /\ d # e
    BY <1>1 DEF Handle
  <2>2. d.slot \in Live \ {e.slot} /\ interest[ev[d.slot].fd] # NULL
    BY <2>1 DEF BatchSound, BatchFresh
  <2> QED BY <2>2
<1>2. \A d1, d2 \in batch' : d1.slot = d2.slot => d1 = d2
  BY DEF Handle, BatchSound, BatchFresh
<1>3. pc' # "dispatch" => batch' = {}
  BY DEF Handle, Handled
<1> QED BY <1>1, <1>2, <1>3 DEF BatchSound, BatchFresh

\* Unregistering a slot leaves the others as they are, ...
LEMMA OthersAfterDel ==
  ASSUME TypeOK, TableInv, NEW i \in Live, EventDel({i}, {ev[i].fd})
  PROVE  \A k \in Live \ {i} :
           /\ k \in Live' /\ ev'[k].fd = ev[k].fd
           /\ interest[ev[k].fd] # NULL => interest'[ev[k].fd] # NULL
<1>1. Live' = Live \ {i} /\ \A k \in Live \ {i} : ev'[k] = ev[k]
  BY EventDelEffect DEF TypeOK
<1>2. \A k \in Live \ {i} : ev[k].fd # ev[i].fd /\ ev[k].fd \in Fds
  BY OwnersDistinct, LiveSlot DEF TableInv
<1>3. \A k \in Live \ {i} : interest'[ev[k].fd] = interest[ev[k].fd]
  BY <1>2 DEF EventDel
<1> QED BY <1>1, <1>3

\* ... and so does registering it again.
LEMMA OthersAfterAdd ==
  ASSUME TypeOK, TableInv, NEW i, Live' = Live \union {i},
         \A k \in Slots : ev'[k].fd = ev[k].fd,
         \A f \in Fds : interest'[f] = NULL => interest[f] = NULL
  PROVE  \A k \in Live \ {i} :
           /\ k \in Live' /\ ev'[k].fd = ev[k].fd
           /\ interest[ev[k].fd] # NULL => interest'[ev[k].fd] # NULL
<1>1. \A k \in Live \ {i} : k \in Slots /\ ev[k].fd \in Fds
  BY LiveSlot DEF TableInv
<1> QED BY <1>1

\* What a callback finds: its slot is registered and it is the loop's turn.
LEMMA CallbackStarts ==
  ASSUME TypeOK, LoopInv, NEW e \in batch, NEW cb, Handle(e, cb), Handled(e), cur' = cur
  PROVE  /\ TableInv /\ BatchSound /\ PoolQueue
         /\ Running /\ cur = NULL /\ pc' \in {"create", "dispatch"}
         /\ e.slot \in Live /\ ev[e.slot].cb = cb
         /\ e.slot \in Slots /\ Bound(e.slot) /\ ev[e.slot].status = 1
         /\ ev[e.slot].jc \in Conns /\ jcs[ev[e.slot].jc].fd = ev[e.slot].fd
         /\ IdleConns = PooledConns /\ IdleConns' = PooledConns'
<1>1. /\ TableInv /\ BatchSound /\ PoolQueue /\ pc = "dispatch" /\ ev[e.slot].cb = cb
      /\ pc' \in {"create", "dispatch"}
  BY DEF LoopInv, TableInv, Handle, Handled
<1>2. e.slot \in Live
  BY DEF LoopInv, BatchSound, BatchFresh
<1>3. /\ e.slot \in Slots /\ Bound(e.slot) /\ ev[e.slot].status = 1
      /\ ev[e.slot].jc \in Conns /\ jcs[ev[e.slot].jc].fd = ev[e.slot].fd
  BY <1>1, <1>2, LiveSlot DEF TableInv
<1>4. cur = NULL
  BY <1>1 DEF PoolQueue
<1>5. IdleConns = PooledConns /\ IdleConns' = PooledConns'
  BY <1>4 DEF IdleConns
<1> QED BY <1>1, <1>2, <1>3, <1>4, <1>5 DEF Running, Phases

\* A callback that gives up its transaction.
LEMMA ReleasingCallback ==
  ASSUME TypeOK, LoopInv, NEW e \in batch, NEW cb \in {"connect_cb", "data_transfer"},
         Handle(e, cb), Handled(e), ReleaseBad(e.slot), UNCHANGED <<cur, leaked>>
  PROVE  LoopInv'
<1> DEFINE i == e.slot
<1>1. /\ TableInv /\ BatchSound /\ PoolQueue /\ Running /\ cur = NULL
      /\ pc' \in {"create", "dispatch"} /\ i \in Live /\ InTransaction(i)
      /\ jcs[ev[i].jc].fd = ev[i].fd
  BY CallbackStarts DEF InTransaction
<1>2. EventDel({i}, {ev[i].fd})
  BY <1>1 DEF ReleaseBad
<1> HIDE DEF i
<1>3. TableInv' /\ pool' = pool
  BY <1>1, ReleaseBadInv DEF i
<1>4. BatchSound'
  BY <1>1, <1>2, OthersAfterDel, BatchAfter DEF i
<1>5. PoolQueue'
  BY <1>1, <1>3 DEF PoolQueue, PooledConns
<1> QED BY <1>3, <1>4, <1>5 DEF LoopInv, TableInv

\* A callback that goes on with its transaction.
LEMMA ContinuingCallback ==
  ASSUME TypeOK, LoopInv, NEW e \in batch, NEW cb \in {"connect_cb", "data_transfer"},
         NEW mask \in SUBSET Bits,
         Handle(e, cb), Handled(e),
         EventAdd(e.slot, EventResetCb(e.slot, "data_transfer"), mask),
         OpenFds' = OpenFds, UNCHANGED <<cur, leaked, pool>>,
         \A c \in Conns : /\ jcs'[c].mem = jcs[c].mem /\ jcs'[c].fd = jcs[c].fd
                          /\ jcs'[c].stream = jcs[c].stream,
         \A c \in Conns : c # ev[e.slot].jc => jcs'[c] = jcs[c]
  PROVE  LoopInv'
<1> DEFINE i == e.slot
           j == ev[i].jc
<1>1. /\ TableInv /\ BatchSound /\ PoolQueue /\ Running /\ cur = NULL
      /\ pc' \in {"create", "dispatch"} /\ i \in Live /\ ev[i].cb = cb
      /\ i \in Slots /\ Bound(i) /\ j \in Conns
  BY CallbackStarts
<1>2. jcs[j].stream = "live"
  BY <1>1 DEF TableInv, SlotsSound
<1>3. IdleConns' = IdleConns \ {j}
  <2>1. j \notin IdleConns
    BY <1>1, <1>2 DEF TableInv, IdleSound
  <2> QED BY <2>1 DEF IdleConns, PooledConns
<1>4. jcs'[j].stream = "live" /\ j = ev[i].jc
      /\ EventAdd(i, EventResetCb(i, "data_transfer"), mask)
      /\ \A c \in Conns : c # j => jcs'[c] = jcs[c]
  BY <1>1, <1>2
<1> HIDE DEF i, j
<1>5. /\ TableInv' /\ Live' = Live \union {i}
      /\ \A k \in Slots : ev'[k].fd = ev[k].fd
      /\ \A f \in Fds : interest'[f] = NULL => interest[f] = NULL
  BY <1>1, <1>3, <1>4, Reregister DEF Callbacks
<1>6. BatchSound'
  BY <1>1, <1>5, OthersAfterAdd, BatchAfter DEF i
<1>7. PoolQueue'
  BY <1>1 DEF PoolQueue, PooledConns
<1> QED BY <1>5, <1>6, <1>7 DEF LoopInv, TableInv

\* A callback that has sent its message and puts the connection in the pool.
LEMMA PoolingCallback ==
  ASSUME TypeOK, LoopInv, NEW e \in batch, Handle(e, "data_transfer"), Handled(e),
         KeepAlive, ReleaseOk(e.slot), UNCHANGED <<cur, leaked>>
  PROVE  LoopInv'
<1> DEFINE i == e.slot
           j == ev[i].jc
           c == Released(jcs[j], TRUE, "CONN_ESTAB")
<1>1. /\ TableInv /\ BatchSound /\ PoolQueue /\ Running /\ cur = NULL
      /\ pc' \in {"create", "dispatch"} /\ i \in Live /\ ev[i].cb = "data_transfer"
      /\ i \in Slots /\ Bound(i) /\ j \in Conns
      /\ IdleConns = PooledConns /\ IdleConns' = PooledConns'
  BY CallbackStarts
<1>2. jcs[j].stream = "live" /\ j \notin PooledConns /\ jcs[j].mem = "live"
  BY <1>1 DEF TableInv, SlotsSound, IdleSound, Bound
<1>3. /\ c.alive /\ c.stream = "none" /\ c.status = "CONN_ESTAB"
      /\ c.mem = jcs[j].mem /\ c.fd = jcs[j].fd
  BY DEF Released
<1>4. /\ jcs' = [jcs EXCEPT ![j] = c] /\ pool' = Append(pool, j)
      /\ EventAdd(i, EventResetCb(i, "keepalive_cb"), {"IN"}) /\ sock' = sock
  BY <1>3 DEF ReleaseOk, ReleaseConnection
<1> HIDE DEF c
<1>5. \A k \in Conns : jcs'[k] = IF k = j THEN c ELSE jcs[k]
  BY <1>1, <1>4 DEF TypeOK
<1>6. pool \in Seq(Conns) /\ IsInjective(pool) /\ PooledConns = Range(pool)
  BY <1>1, PoolIsList
<1>7. IsInjective(pool') /\ Range(pool') = PooledConns \union {j}
  BY <1>1, <1>2, <1>4, <1>6, WithOneMore
<1>8. IdleConns' = IdleConns \union {j}
  BY <1>1, <1>7 DEF PooledConns, Range
<1>9. /\ j = ev[i].jc /\ OpenFds' = OpenFds
      /\ \A k \in Conns : jcs'[k].mem = jcs[k].mem /\ jcs'[k].fd = jcs[k].fd
      /\ \A k \in Conns : k # j => jcs'[k] = jcs[k]
      /\ jcs'[j].alive /\ jcs'[j].stream = "none" /\ jcs'[j].status = "CONN_ESTAB"
  BY <1>1, <1>3, <1>4, <1>5 DEF OpenFds, ClosedFds
<1> HIDE DEF i, j
<1>10. /\ TableInv' /\ Live' = Live \union {i}
       /\ \A k \in Slots : ev'[k].fd = ev[k].fd
       /\ \A f \in Fds : interest'[f] = NULL => interest[f] = NULL
  BY <1>1, <1>4, <1>8, <1>9, Reregister DEF Callbacks, Bits
<1>11. BatchSound'
  BY <1>1, <1>10, OthersAfterAdd, BatchAfter DEF i
<1>12. PoolQueue'
  BY <1>1, <1>7 DEF PoolQueue, IsInjective
<1> QED BY <1>10, <1>11, <1>12 DEF LoopInv, TableInv

\* keepalive_cb takes its connection out of the pool.
LEMMA KeepaliveCallback ==
  ASSUME TypeOK, LoopInv, NEW e \in batch, KeepaliveEnds(e)
  PROVE  LoopInv'
<1> DEFINE i == e.slot
           j == ev[i].jc
<1>1. /\ Handle(e, "keepalive_cb") /\ Handled(e) /\ Unlist(j) /\ UNCHANGED <<cur, leaked>>
      /\ EventDel({i}, {jcs[j].fd})
  BY DEF KeepaliveEnds
<1>2. /\ TableInv /\ BatchSound /\ PoolQueue /\ Running /\ cur = NULL /\ cur' = NULL
      /\ pc' \in {"create", "dispatch"} /\ i \in Live
      /\ i \in Slots /\ j \in Conns /\ jcs[j].fd = ev[i].fd
      /\ IdleConns = PooledConns /\ IdleConns' = PooledConns'
  BY <1>1, CallbackStarts
<1>3. PICK k \in DOMAIN pool :
         pool[k] = j /\ pool' = SubSeq(pool, 1, k - 1) \o SubSeq(pool, k + 1, Len(pool))
  BY <1>1 DEF Unlist
<1>4. pool \in Seq(Conns) /\ IsInjective(pool) /\ PooledConns = Range(pool)
  BY <1>2, PoolIsList
<1>5. IsInjective(pool') /\ Range(pool') = PooledConns \ {j}
  <2> HIDE DEF j
  <2> QED BY <1>3, <1>4, WithoutOne
<1>6. IdleConns' = IdleConns \ {j}
  BY <1>2, <1>5 DEF PooledConns, Range
<1>7. TableInv'
  BY <1>2, <1>6, KeepaliveEndsInv
<1>8. BatchSound'
  <2>1. EventDel({i}, {ev[i].fd})
    BY <1>1, <1>2
  <2> HIDE DEF i, j
  <2> QED BY <1>1, <1>2, <2>1, OthersAfterDel, BatchAfter DEF i
<1>9. PoolQueue'
  <2>1. KeepAlive
    BY <1>2, <1>3 DEF PoolQueue
  <2> QED BY <1>2, <1>5, <2>1 DEF PoolQueue, IsInjective
<1> QED BY <1>7, <1>8, <1>9 DEF LoopInv, TableInv

-----------------------------------------------------------------------------
(* The invariant. *)

\* In every state, with the pool or without: slots, connections, descriptors,
\* the kernel's interest list, the events already fetched and the pool agree
\* with each other.
THEOREM LoopInvariant == Spec => []LoopInv
<1>1. Init => LoopInv
  <2> SUFFICES ASSUME Init PROVE LoopInv
    OBVIOUS
  <2>1. Live = {} /\ OpenFds = {} /\ IdleConns = {}
    BY DEF Init, TableInit, Live, OpenFds, ClosedFds, ClosedSock, IdleConns, PooledConns
  <2>2. PoolQueue /\ BatchSound
    BY DEF Init, PoolQueue, BatchSound, BatchFresh
  <2>3. InterestSound
    BY DEF Init, TableInit, InterestSound
  <2>4. SlotsSound /\ IdleSound /\ NothingLost
    BY <2>1 DEF Init, SlotsSound, IdleSound, NothingLost, FreeConn
  <2> QED BY <2>2, <2>3, <2>4 DEF LoopInv
<1>2. TypeOK /\ LoopInv /\ [Next]_vars => LoopInv'
  <2> SUFFICES ASSUME TypeOK, LoopInv, [Next]_vars PROVE LoopInv'
    OBVIOUS
  <2>1. TableInv /\ PoolQueue /\ BatchSound
    BY DEF LoopInv, TableInv
  <2>2. TableInv' /\ PoolQueue' /\ BatchSound' => LoopInv'
    BY DEF LoopInv, TableInv
  <2> USE DEF table
  <2>3. ASSUME UNCHANGED <<ev, interest, sock, jcs, pool, cur, leaked>>, Running' => Running
        PROVE  TableInv' /\ Live' = Live
    <3>1. OpenFds' = OpenFds /\ IdleConns' = IdleConns
      BY <2>3 DEF OpenFds, ClosedFds, IdleConns, PooledConns
    <3> QED BY <2>1, <2>3, <3>1, TableUntouched
  <2>4. CASE NothingDue
    <3>1. TableInv'
      BY <2>3, <2>4 DEF NothingDue, Running, Phases
    <3> QED BY <2>1, <2>2, <2>4, <3>1, NoBatch DEF NothingDue, PoolQueue, PooledConns
  <2>5. CASE GetConnection
    BY <2>1, <2>2, <2>5, GetConnectionInv, NoBatch DEF GetConnection
  <2>6. CASE CreateFails
    <3>1. PoolQueue' /\ BatchSound'
      BY <2>1, <2>6, NoBatch DEF CreateFails, PoolQueue, PooledConns
    <3> QED BY <2>1, <2>2, <2>6, <3>1, CreateFailsInv
  <2>7. CASE NewConnection
    <3>1. PoolQueue' /\ BatchSound'
      BY <2>1, <2>7, NoBatch DEF NewConnection, Connect, PoolQueue, PooledConns
    <3> QED BY <2>1, <2>2, <2>7, <3>1, NewConnectionInv
  <2>8. CASE NoSlotLeft
    <3>1. PoolQueue' /\ BatchSound'
      BY <2>1, <2>8, NoBatch DEF NoSlotLeft, Connect, PoolQueue, PooledConns
    <3> QED BY <2>1, <2>2, <2>8, <3>1, NoSlotLeftInv
  <2>9. CASE ReuseConnection
    BY <2>1, <2>2, <2>9, ReuseConnectionInv, NoBatch DEF ReuseConnection
  <2>10. CASE ReuseCrashes
    <3>1. TableInv'
      BY <2>3, <2>10 DEF ReuseCrashes, Running, Phases
    <3>2. PoolQueue'
      BY <2>1, <2>10 DEF ReuseCrashes, PoolQueue, PooledConns
    <3> QED BY <2>1, <2>2, <2>10, <3>1, <3>2, NoBatch DEF ReuseCrashes
  <2>11. CASE HouseKeeping
    <3>1. TableInv'
      BY <2>1, <2>11, HouseKeepingInv DEF HouseKeeping, AtExpiry, Running, Phases
    <3> QED BY <2>1, <2>2, <2>11, <3>1, NoBatch DEF HouseKeeping, AtExpiry, PoolQueue, PooledConns
  <2>12. CASE EpollWait
    BY <2>12, EpollWaitInv
  <2>13. ASSUME NEW e \in batch, ConnectDone(e) PROVE LoopInv'
    BY <2>13, ContinuingCallback DEF ConnectDone, Bits, OpenFds, ClosedFds
  <2>14. ASSUME NEW e \in batch, ConnectRefused(e) PROVE LoopInv'
    BY <2>14, ReleasingCallback DEF ConnectRefused
  <2>15. ASSUME NEW e \in batch, TransferEnds(e) PROVE LoopInv'
    BY <2>15, ReleasingCallback DEF TransferEnds
  <2>16. ASSUME NEW e \in batch, TransferDone(e) PROVE LoopInv'
    BY <2>16, ReleasingCallback, PoolingCallback DEF TransferDone
  <2>17. ASSUME NEW e \in batch, TransferMore(e) PROVE LoopInv'
    <3> DEFINE j == ev[e.slot].jc
    <3>1. e.slot \in Slots /\ j \in Conns
      BY <2>17, SoundType DEF TransferMore
    <3>2. PICK n : jcs' = [jcs EXCEPT ![j] = Written(jcs[j], n)]
      BY <2>17 DEF TransferMore
    <3>3. /\ \A k \in Conns : /\ jcs'[k].mem = jcs[k].mem
                              /\ jcs'[k].fd = jcs[k].fd
                              /\ jcs'[k].stream = jcs[k].stream
          /\ \A k \in Conns : k # j => jcs'[k] = jcs[k]
      BY <3>1, <3>2 DEF Written, TypeOK
    <3>4. Handle(e, "data_transfer") /\ Handled(e) /\ UNCHANGED <<cur, leaked, pool>>
          /\ EventAdd(e.slot, ev[e.slot], {"IN", "OUT"})
      BY <2>17 DEF TransferMore
    <3>5. ev[e.slot] = EventResetCb(e.slot, "data_transfer")
      BY <3>1, <3>4 DEF EventResetCb, Handle, TypeOK, TableTypeOK, SlotType
    <3>6. OpenFds' = OpenFds
      BY <2>17, TransferMoreKeepsOpen
    <3> QED BY <3>3, <3>4, <3>5, <3>6, ContinuingCallback DEF Bits
  <2>18. ASSUME NEW e \in batch, KeepaliveEnds(e) PROVE LoopInv'
    BY <2>18, KeepaliveCallback
  <2>19. CASE Kernel
    <3>1. UNCHANGED <<ev, interest, jcs, pool, pc, cur, batch, leaked>>
      BY <2>19 DEF Kernel, Connected, Drained, Reset, SockMoves, PeerSpeaks
    <3>2. OpenFds' = OpenFds /\ IdleConns' = IdleConns /\ (Running' => Running)
      BY <2>19, <3>1, KernelKeepsOpen DEF IdleConns, PooledConns, Running
    <3>3. TableInv' /\ Live' = Live
      BY <2>1, <3>1, <3>2, TableUntouched
    <3> QED BY <2>1, <2>2, <3>1, <3>3 DEF BatchSound, BatchFresh, PoolQueue, PooledConns
  <2>20. CASE Tick
    <3>1. UNCHANGED <<interest, pool, pc, cur, batch>>
      BY <2>20 DEF Tick
    <3>2. TableInv' /\ Live' = Live /\ \A i \in Slots : ev'[i].fd = ev[i].fd
      BY <2>1, <2>20, TickInv
    <3>3. BatchSound'
      BY <2>1, <3>1, <3>2 DEF BatchSound, BatchFresh, Live
    <3>4. PoolQueue'
      BY <2>1, <3>1 DEF PoolQueue, PooledConns
    <3> QED BY <2>2, <3>2, <3>3, <3>4
  <2>21. CASE UNCHANGED vars
    <3>1. TableInv' /\ Live' = Live
      BY <2>3, <2>21 DEF vars, Running
    <3> QED BY <2>1, <2>2, <2>21, <3>1 DEF vars, BatchSound, BatchFresh, PoolQueue, PooledConns
  <2> QED
    BY <2>4, <2>5, <2>6, <2>7, <2>8, <2>9, <2>10, <2>11, <2>12, <2>13, <2>14, <2>15, <2>16,
       <2>17, <2>18, <2>19, <2>20, <2>21
    DEF Next, Loop, Create, Callback
<1> QED BY <1>1, <1>2, TypeCorrect, PTL DEF Spec

-----------------------------------------------------------------------------
(* What follows from the invariant. *)

\* What the lemmas above say of the table holds wherever LoopInv does.
LEMMA OwnersOf ==
  ASSUME LoopInv
  PROVE  /\ \A i, k \in Live : ev[i].fd = ev[k].fd => i = k
         /\ \A i, k \in Live : ev[i].jc = ev[k].jc => i = k
         /\ \A i \in Live, j \in IdleConns : ev[i].fd = jcs[j].fd => ev[i].jc = j
         /\ \A j, k \in IdleConns : jcs[j].fd = jcs[k].fd => j = k
BY OwnersDistinct DEF LoopInv

\* No callback and no house-keeping pass follows a pointer into freed memory or
\* trips over assert(sock == s->server_sock), although close_stream leaves
\* jc->stream dangling and eventdel leaves ev->jc behind.
THEOREM PointersStayValid == Spec => []PointersValid
<1>1. TypeOK /\ LoopInv => PointersValid
  <2> SUFFICES ASSUME TypeOK, LoopInv PROVE PointersValid
    OBVIOUS
  <2>1. ASSUME NEW e \in batch
        PROVE  IF ev[e.slot].cb = "keepalive_cb" THEN KeepaliveSound(e) ELSE Sound(e)
    <3>1. e.slot \in Live /\ pc = "dispatch"
      BY DEF LoopInv, BatchSound, BatchFresh
    <3>2. IdleConns = PooledConns
      BY <3>1 DEF LoopInv, PoolQueue, IdleConns
    <3>3. Bound(e.slot)
      BY <3>1 DEF LoopInv, SlotsSound
    <3>4. \/ InTransaction(e.slot) /\ jcs[ev[e.slot].jc].stream = "live"
          \/ ev[e.slot].cb = "keepalive_cb" /\ ev[e.slot].jc \in IdleConns
      BY <3>1 DEF LoopInv, SlotsSound
    <3> QED BY <3>2, <3>3, <3>4 DEF InTransaction, KeepaliveSound, Sound, Usable, Bound
  <2>2. ASSUME NEW i \in Expired(checkpos) PROVE ~ReadsFreed(i)
    <3>1. i \in Live
      BY TableAssumption DEF Expired, Visited, Live, Slots, TypeOK
    <3> QED BY <3>1 DEF LoopInv, SlotsSound, IdleSound, Bound, ReadsFreed
  <2> QED BY <2>1, <2>2 DEF PointersValid
<1> QED BY <1>1, TypeCorrect, LoopInvariant, PTL

\* Every open socket is held by exactly one slot or pooled connection, or was
\* lost on the error path of create_transaction, and epoll delivers to the slot
\* that holds the descriptor.
THEOREM DescriptorsAccounted == Spec => [](FdAccounting /\ InterestSound)
<1>1. LoopInv => FdAccounting /\ InterestSound
  <2> SUFFICES ASSUME LoopInv, Running PROVE FdAccounting
    BY DEF LoopInv, FdAccounting
  <2>1. OpenFds \subseteq {ev[i].fd : i \in Live} \union {jcs[j].fd : j \in IdleConns} \union leaked
    BY DEF LoopInv, NothingLost
  <2>2. \A i \in Live : ev[i].fd \in OpenFds \ leaked
    BY DEF LoopInv, SlotsSound, Bound
  <2>3. \A j \in IdleConns : jcs[j].fd \in OpenFds
    BY DEF LoopInv, IdleSound, Bound
  <2>4. leaked \subseteq OpenFds
    BY DEF LoopInv, NothingLost
  <2> QED BY <2>1, <2>2, <2>3, <2>4, OwnersOf DEF FdAccounting
<1> QED BY <1>1, LoopInvariant, PTL

\* Every stream is held by exactly one slot, which will release it by one of
\* its two release paths.
THEOREM StreamsOwned == Spec => []StreamOwned
<1>1. LoopInv => StreamOwned
  <2> SUFFICES ASSUME LoopInv PROVE StreamOwned
    OBVIOUS
  <2>1. ASSUME Running, NEW j \in Conns, jcs[j].stream = "live"
        PROVE  \E i \in Slots : InTransaction(i) /\ ev[i].jc = j
    <3>1. PICK i \in Live : ev[i].jc = j
      BY <2>1 DEF LoopInv, NothingLost
    <3>2. j \notin IdleConns
      BY <2>1 DEF LoopInv, IdleSound
    <3> QED BY <3>1, <3>2 DEF LoopInv, SlotsSound, Live
  <2>2. \A i \in Slots : InTransaction(i) => i \in Live
    BY DEF InTransaction, Live
  <2>3. \A i \in Slots : InTransaction(i) => Usable(i)
    BY <2>2 DEF LoopInv, SlotsSound, Bound, Usable, InTransaction
  <2>4. \A i, k \in Slots : InTransaction(i) /\ InTransaction(k) /\ ev[i].jc = ev[k].jc => i = k
    BY <2>2, OwnersOf
  <2> QED BY <2>1, <2>3, <2>4 DEF StreamOwned
<1> QED BY <1>1, LoopInvariant, PTL

\* The events of a batch stay valid while the callbacks before them run.
THEOREM BatchesFresh == Spec => []BatchFresh
<1>1. LoopInv => BatchFresh
  BY DEF LoopInv, BatchSound
<1> QED BY <1>1, LoopInvariant, PTL

\* A connection that waits to be used again is live, established and without a
\* stream, is in the pool once and has a descriptor of its own, and the slot
\* that still watches it calls keepalive_cb.
THEOREM PooledConnsSound == Spec => []PoolSound
<1>1. LoopInv => PoolSound
  <2> SUFFICES ASSUME LoopInv PROVE PoolSound
    OBVIOUS
  <2>1. \A m, n \in DOMAIN pool : jcs[pool[m]].fd = jcs[pool[n]].fd => m = n
    BY OwnersOf DEF LoopInv, PoolQueue, IdleConns, PooledConns
  <2>2. ASSUME NEW j \in IdleConns
        PROVE  /\ jcs[j].mem = "live" /\ jcs[j].alive /\ jcs[j].stream = "none"
               /\ jcs[j].status = "CONN_ESTAB"
               /\ jcs[j].fd \in OpenFds
    BY DEF LoopInv, IdleSound, Bound
  <2>3. ASSUME NEW j \in IdleConns, NEW i \in Live, ev[i].fd = jcs[j].fd
        PROVE  ev[i].jc = j /\ ev[i].cb = "keepalive_cb"
    <3>1. ev[i].jc = j
      BY <2>3, OwnersOf
    <3> QED BY <2>2, <3>1 DEF LoopInv, SlotsSound
  <2> QED BY <2>1, <2>2, <2>3 DEF PoolSound
<1> QED BY <1>1, LoopInvariant, PTL

\* evget finds a pooled connection's own slot, and never one that an older
\* connection with the same descriptor left behind.
THEOREM ReuseFinds == Spec => []ReuseFindsSlot
<1>1. LoopInv => ReuseFindsSlot
  <2> SUFFICES ASSUME LoopInv, cur # NULL
               PROVE  \E i \in Slots : FirstWithFd(i, jcs[cur].fd) /\ ev[i].jc = cur
    BY DEF ReuseFindsSlot
  <2>1. PICK i \in Slots : Bound(i) /\ ev[i].jc = cur
    BY DEF LoopInv, IdleSound, IdleConns
  <2> QED BY <2>1, EvgetFinds DEF Bound
<1> QED BY <1>1, LoopInvariant, PTL

\* As the program is built, the pool is never used, and evget is never asked to
\* read a connection that has been freed.
THEOREM PoolUnused ==
  ASSUME KeepAlive = FALSE
  PROVE  Spec => [](pool = <<>> /\ cur = NULL /\ pc # "use_after_free")
<1>1. LoopInv => pool = <<>> /\ cur = NULL /\ pc # "use_after_free"
  BY DEF LoopInv, PoolQueue
<1> QED BY <1>1, LoopInvariant, PTL

\* There are MAX_EVENTS slots.
LEMMA SlotCount == IsFiniteSet(Slots) /\ Cardinality(Slots) = MaxEvents
<1>1. 0 \in Int /\ MaxEvents - 1 \in Int /\ ~(0 > MaxEvents - 1)
  BY TableAssumption
<1>2. IsFiniteSet(0 .. MaxEvents - 1) /\ Cardinality(0 .. MaxEvents - 1) = MaxEvents - 1 - 0 + 1
  BY <1>1, FS_Interval
<1> QED BY <1>2, TableAssumption DEF Slots

\* What a step does to pc, when it comes to a full table.
LEMMA NullSlotSteps ==
  ASSUME TypeOK, [Next]_vars, pc' = "null_slot"
  PROVE  \/ NoSlotLeft
         \/ pc = "null_slot" /\ ev' = ev
<1>1. ASSUME NEW e \in batch,
             \/ ConnectDone(e) \/ ConnectRefused(e) \/ TransferEnds(e)
             \/ TransferDone(e) \/ TransferMore(e) \/ KeepaliveEnds(e)
      PROVE  pc' # "null_slot"
  <2>1. Handled(e)
    BY <1>1 DEF ConnectDone, ConnectRefused, TransferEnds, TransferDone, TransferMore,
                KeepaliveEnds
  <2> QED BY <2>1 DEF Handled
<1>2. ASSUME Tick PROVE pc' # "null_slot"
  BY <1>2 DEF Tick
<1>3. ASSUME HouseKeeping \/ EpollWait PROVE pc' # "null_slot"
  BY <1>3 DEF HouseKeeping, EpollWait
<1>4. ASSUME Create, ~NoSlotLeft PROVE pc' # "null_slot"
  BY <1>4 DEF Create, NothingDue, GetConnection, CreateFails, NewConnection, ReuseConnection,
              ReuseCrashes
<1>5. ASSUME Kernel \/ UNCHANGED vars PROVE pc' = pc /\ ev' = ev
  BY <1>5 DEF Kernel, Connected, Drained, Reset, SockMoves, PeerSpeaks, vars, table
<1> QED BY <1>1, <1>2, <1>3, <1>4, <1>5 DEF Next, Loop, Callback

\* A slot is never missing while there are at least as many slots as
\* descriptors: the unchecked result of evget is then never NULL.
THEOREM NeverNullSlot ==
  ASSUME IsFiniteSet(Fds), Cardinality(Fds) <= MaxEvents
  PROVE  Spec => []NoNullSlot
<1>1. Init => NoNullSlot
  BY DEF Init, NoNullSlot
<1>2. TypeOK /\ LoopInv /\ NoNullSlot /\ [Next]_vars => NoNullSlot'
  <2> SUFFICES ASSUME TypeOK, LoopInv, NoNullSlot, [Next]_vars PROVE NoNullSlot'
    OBVIOUS
  <2>1. ~NoSlotLeft
    <3> SUFFICES ASSUME NoSlotLeft PROVE FALSE
      OBVIOUS
    <3>1. PICK f \in ClosedFds : TableFull
      BY DEF NoSlotLeft
    <3> DEFINE slotFd == [i \in Slots |-> ev[i].fd]
               others == Fds \ {f}
    <3>2. Live = Slots
      BY <3>1 DEF TableFull, Live
    <3>3. f \in Fds /\ f \notin OpenFds
      BY DEF ClosedFds, OpenFds
    <3>4. slotFd \in [Slots -> others]
      BY <3>2, <3>3 DEF LoopInv, SlotsSound, Bound, OpenFds
    <3>5. IsFiniteSet(others) /\ Cardinality(others) = Cardinality(Fds) - 1
      BY <3>3, FS_RemoveElement
    <3>6. IsFiniteSet(Slots) /\ Cardinality(Slots) = MaxEvents
      BY SlotCount
    <3>7. Cardinality(others) < Cardinality(Slots)
      <4>1. Cardinality(Fds) \in Nat
        BY FS_CardinalityType
      <4> QED BY <4>1, <3>5, <3>6, TableAssumption
    <3> HIDE DEF slotFd, others
    <3>8. PICK x, y \in Slots : x # y /\ slotFd[x] = slotFd[y]
      BY <3>4, <3>5, <3>6, <3>7, FS_PigeonHole
    <3>9. ev[x].fd = ev[y].fd
      BY <3>8 DEF slotFd
    <3> QED BY <3>2, <3>8, <3>9, OwnersOf
  <2> QED BY <2>1, NullSlotSteps DEF NoNullSlot
<1> QED BY <1>1, <1>2, TypeCorrect, LoopInvariant, PTL DEF Spec

\* When evget finds no slot, every slot really serves a transaction of its own.
THEOREM OverflowIsGenuine == Spec => []OverflowGenuine
<1> DEFINE Full == pc = "null_slot" => TableFull
<1>1. Init => Full
  BY DEF Init
<1>2. TypeOK /\ Full /\ [Next]_vars => Full'
  <2> SUFFICES ASSUME TypeOK, Full, [Next]_vars, pc' = "null_slot" PROVE TableFull'
    OBVIOUS
  <2>1. TableFull /\ ev' = ev
    BY NullSlotSteps DEF NoSlotLeft, table
  <2> QED BY <2>1 DEF TableFull
<1>3. LoopInv /\ Full => OverflowGenuine
  <2> SUFFICES ASSUME LoopInv, pc = "null_slot", TableFull
               PROVE  /\ \A i \in Slots : InTransaction(i) /\ Usable(i) /\ ev[i].fd \in OpenFds
                      /\ Cardinality({ev[i].fd : i \in Slots}) = MaxEvents
    BY DEF OverflowGenuine
  <2>1. Live = Slots
    BY DEF TableFull, Live
  <2>2. \A i \in Slots : InTransaction(i) /\ Usable(i) /\ ev[i].fd \in OpenFds
    <3>1. IdleConns = {}
      BY DEF LoopInv, PoolQueue, IdleConns, PooledConns
    <3> QED BY <2>1, <3>1 DEF LoopInv, SlotsSound, Bound, Usable
  <2> DEFINE fds == {ev[i].fd : i \in Slots}
             slotFd == [i \in Slots |-> ev[i].fd]
  <2>3. slotFd \in Bijection(Slots, fds)
    BY <2>1, OwnersOf DEF Bijection, Injection, Surjection, IsInjective
  <2>4. ExistsBijection(Slots, fds)
    BY <2>3 DEF ExistsBijection
  <2>5. Cardinality(fds) = Cardinality(Slots)
    <3> HIDE DEF fds
    <3> QED BY <2>4, SlotCount, FS_Bijection
  <2> QED BY <2>2, <2>5, SlotCount
<1> QED BY <1>1, <1>2, <1>3, TypeCorrect, LoopInvariant, PTL DEF Spec

-----------------------------------------------------------------------------
(* House-keeping. *)

\* One house-keeping pass unregisters exactly the slots that have been silent
\* for the whole time-out, wherever the previous pass stopped.
THEOREM ExpiryIsExact == Spec => ExpiryExact
<1>1. TypeOK /\ [Next]_vars =>
        [pc = "expire" /\ pc' = "wait" =>
           {i \in Slots : ev'[i].status = 1} = {i \in Live : ev[i].age < Timeout}]_vars
  <2> SUFFICES ASSUME TypeOK, [Next]_vars, pc = "expire", pc' = "wait"
               PROVE  {i \in Slots : ev'[i].status = 1} = {i \in Live : ev[i].age < Timeout}
    OBVIOUS
  <2>1. HouseKeeping
    <3>1. ~Create
      BY DEF Create, NothingDue, GetConnection, CreateFails, NewConnection, NoSlotLeft, Connect,
             ReuseConnection, ReuseCrashes
    <3>2. ~EpollWait /\ ~Tick /\ ~(UNCHANGED vars)
      BY DEF EpollWait, Tick, vars
    <3>3. ~Callback
      BY DEF Callback, ConnectDone, ConnectRefused, TransferEnds, TransferDone, TransferMore,
             KeepaliveEnds, Handle
    <3>4. ~Kernel
      BY DEF Kernel, Connected, Drained, Reset, SockMoves, PeerSpeaks
    <3> QED BY <3>1, <3>2, <3>3, <3>4 DEF Next, Loop
  <2>2. PICK fds : EventDel(Expired(checkpos), fds)
    BY <2>1 DEF HouseKeeping
  <2>3. Expired(checkpos) = {i \in Live : ev[i].age >= Timeout}
    <3>1. Visited(checkpos) = Slots
      BY VisitsAll DEF TypeOK
    <3> QED BY <3>1 DEF Expired, Live
  <2>4. {i \in Slots : ev'[i].status = 1} = Live \ Expired(checkpos)
    <3>1. Expired(checkpos) \in SUBSET Live
      BY <2>3
    <3>2. Live' = {i \in Slots : ev'[i].status = 1}
      BY DEF Live
    <3> QED BY <2>2, <3>1, <3>2, EventDelEffect DEF TypeOK
  <2>5. \A i \in Live : ev[i].age >= Timeout <=> ~(ev[i].age < Timeout)
    <3>1. \A i \in Live : ev[i].age \in Int /\ Timeout \in Int
      BY TableAssumption DEF Live, TypeOK, TableTypeOK, SlotType
    <3> QED BY <3>1
  <2> QED BY <2>3, <2>4, <2>5
<1> QED BY <1>1, TypeCorrect, PTL DEF Spec, ExpiryExact

=============================================================================
