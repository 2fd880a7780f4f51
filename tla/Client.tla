------------------------------- MODULE Client -------------------------------
(***************************************************************************)
(* The jujube client: the event loop of client.c, the transactions it      *)
(* starts, the callbacks that drive them (client.c), the output half of    *)
(* their streams (stream.c), their time-out (event.c) and the pool of      *)
(* reusable connections (connection.c).                                    *)
(*                                                                         *)
(* One thread runs the loop                                                *)
(*                                                                         *)
(*     create_transaction ; expires_house_keeping ; epoll_wait ; call-backs*)
(*                                                                         *)
(* and `pc' says where it is.  Around it the kernel changes the sockets    *)
(* and the clock ticks.  epoll_wait takes a snapshot of what is ready, so  *)
(* a callback may see a socket that has changed since.                     *)
(*                                                                         *)
(* KeepAlive selects between the two calls on lines 229 and 230 of         *)
(* client.c.  FALSE is the program as built: a connection is closed once   *)
(* its message has been sent.  TRUE is the call left as a comment, which   *)
(* returns the connection to the pool: it makes the code of the pool run,  *)
(* all of which is compiled but never entered otherwise.                   *)
(***************************************************************************)
EXTENDS EventTable, Sequences

CONSTANTS
  MsgLen,      \* units of output in a transaction: length prefix and message
  CounterMod,  \* 2^32 in the code: current_total is a uint32_t
  KeepAlive

ASSUME ClientAssumption ==
  /\ MsgLen \in Nat \ {0}
  /\ CounterMod \in Nat \ {0}
  /\ KeepAlive \in BOOLEAN

VARIABLES
  sock,        \* the kernel's side of every descriptor
  jcs,         \* the heap of jconnect structures, each with its stream
  pool,        \* g_jconnect, the list of connections free for reuse
  total,       \* g_connect_pool.current_total
  checkpos,    \* where the next expires_house_keeping starts
  due,         \* now >= next_time: a transaction is to be started
  pc,          \* where the loop is, or how the process died
  cur,         \* what get_connection returned
  batch,       \* events returned by epoll_wait and not yet handled
  leaked       \* history: descriptors create_connect_socket lost

table == <<ev, interest>>
vars == <<ev, interest, sock, jcs, pool, total, checkpos, due, pc, cur,
          batch, leaked>>

Crashes == {"null_slot", "use_after_free"}
Phases  == {"create", "attach", "expire", "wait", "dispatch"}

-----------------------------------------------------------------------------
(* Sockets, connections and streams. *)

\* "blocked" is an established connection whose send buffer is full; `inq'
\* says that data or the end of the stream has arrived from the peer.
SockType == [st : {"closed", "connecting", "blocked", "writable", "dead"},
             inq : BOOLEAN]

ClosedSock == [st |-> "closed", inq |-> FALSE]
DeadSock   == [st |-> "dead", inq |-> FALSE]
NewSock(st) == [st |-> st, inq |-> FALSE]

ClosedFds == {f \in Fds : sock[f].st = "closed"}
OpenFds   == Fds \ ClosedFds

\* A jconnect and the stream it points to.  `stream' is "none" for a NULL
\* pointer and "freed" for a pointer to a stream that has been freed; `left'
\* is buf_data_size(s->in_buf), the output not yet written.
ConnType ==
  [mem : {"free", "live"}, fd : Fds \union {NULL}, alive : BOOLEAN,
   status : {"BEGIN_CONN", "CONN_ESTAB", "CONN_CLOSE"},
   stream : {"none", "live", "freed"}, left : 0 .. MsgLen]

FreeConn == [mem |-> "free", fd |-> NULL, alive |-> FALSE,
             status |-> "CONN_CLOSE", stream |-> "none", left |-> 0]

\* malloc'ed by create_transaction and dropped on its error path.
OrphanConn == [FreeConn EXCEPT !.mem = "live"]

PooledConns == {pool[k] : k \in DOMAIN pool}

FreeConns == {j \in Conns : jcs[j].mem = "free"}

\* ... and on its other path, once it has a descriptor.
NewConn(f) == [mem |-> "live", fd |-> f, alive |-> FALSE,
               status |-> "BEGIN_CONN", stream |-> "none", left |-> 0]

\* Connection c given a stream holding one message, ...
WithStream(c) == [mem |-> c.mem, fd |-> c.fd, alive |-> c.alive,
                  status |-> c.status, stream |-> "live", left |-> MsgLen]

\* ... after n units of it have been written, ...
Written(c, n) == [mem |-> c.mem, fd |-> c.fd, alive |-> TRUE,
                  status |-> "CONN_ESTAB", stream |-> c.stream, left |-> c.left - n]

\* ... and after the stream has been freed.
Released(c, alive, status) == [mem |-> c.mem, fd |-> c.fd, alive |-> alive,
                               status |-> status, stream |-> "none", left |-> 0]

\* ev->jc and ev->jc->stream may be followed.
Usable(i) ==
  /\ ev[i].jc # NULL
  /\ jcs[ev[i].jc].mem = "live"
  /\ jcs[ev[i].jc].stream = "live"

\* close_stream on slot i follows a pointer to freed memory.
ReadsFreed(i) ==
  /\ ev[i].jc # NULL
  /\ jcs[ev[i].jc].mem = "free" \/ jcs[ev[i].jc].stream = "freed"

\* close(), and a fault: close() forgotten.
CloseForgotten(S) == sock' = sock
CloseFds(S) == sock' = [f \in Fds |-> IF f \in S THEN ClosedSock ELSE sock[f]]

Init ==
  /\ TableInit
  /\ sock = [f \in Fds |-> ClosedSock]
  /\ jcs = [j \in Conns |-> FreeConn]
  /\ pool = <<>>
  /\ total = 0
  /\ checkpos = 0
  /\ due = TRUE
  /\ pc = "create"
  /\ cur = NULL
  /\ batch = {}
  /\ leaked = {}

-----------------------------------------------------------------------------
(* create_transaction and what it calls. *)

NothingDue ==
  /\ pc = "create"
  /\ ~due
  /\ pc' = "expire"
  /\ UNCHANGED <<table, sock, jcs, pool, total, checkpos, due, cur, batch, leaked>>

\* get_connection: entries at the head of the pool that are no longer alive
\* are closed and freed, the first live one is returned, NULL if there is none.
GetConnection ==
  /\ pc = "create"
  /\ due
  /\ \E k \in 0 .. Len(pool) :
       LET reaped == {pool[m] : m \in 1 .. k}
           fds    == {jcs[j].fd : j \in reaped}
       IN /\ \A j \in reaped : ~jcs[j].alive
          /\ k < Len(pool) => jcs[pool[k + 1]].alive
          /\ cur' = IF k < Len(pool) THEN pool[k + 1] ELSE NULL
          /\ pool' = SubSeq(pool, k + 2, Len(pool))
          /\ jcs' = [j \in Conns |-> IF j \in reaped THEN FreeConn ELSE jcs[j]]
          /\ CloseFds(fds)
          /\ EventDel({}, fds)
          /\ total' = (total - k) % CounterMod
  /\ due' = FALSE
  /\ pc' = "attach"
  /\ UNCHANGED <<checkpos, batch, leaked>>

\* malloc fails, or create_connect_socket does: socket() itself, or a later
\* step, which loses the descriptor.  The error path frees neither.
CreateFails ==
  /\ pc = "attach"
  /\ cur = NULL
  /\ \/ UNCHANGED <<sock, jcs, leaked>>
     \/ \E j \in FreeConns :
          /\ jcs' = [jcs EXCEPT ![j] = OrphanConn]
          /\ \/ UNCHANGED <<sock, leaked>>
             \/ \E f \in ClosedFds :
                  /\ sock' = [sock EXCEPT ![f] = DeadSock]
                  /\ leaked' = leaked \union {f}
  /\ pc' = "expire"
  /\ UNCHANGED <<table, pool, total, checkpos, due, cur, batch>>

\* A new connection j on descriptor f, whose connect() is under way or, to a
\* local peer, already done.
Connect(j, f) ==
  /\ pc = "attach"
  /\ cur = NULL
  /\ jcs' = [jcs EXCEPT ![j] = WithStream(NewConn(f))]
  /\ \E st \in {"connecting", "writable"} : sock' = [sock EXCEPT ![f] = NewSock(st)]
  /\ UNCHANGED <<pool, total, checkpos, due, cur, batch, leaked>>

\* attach_stream_to_connect, first branch: the new connection gets a slot.
NewConnection ==
  \E j \in FreeConns, f \in ClosedFds, i \in Slots :
    /\ Connect(j, f)
    /\ FirstFree(i)
    /\ EventAdd(i, EventSet(f, j, "connect_cb"), {"OUT"})
    /\ pc' = "expire"

\* evget's result is used unchecked, so a full table kills the process.
NoSlotLeft ==
  \E j \in FreeConns, f \in ClosedFds :
    /\ Connect(j, f)
    /\ TableFull
    /\ pc' = "null_slot"
    /\ UNCHANGED table

\* evget(g_events, fd): slots are tried in order, the connection of each one
\* is read, whether or not it has been freed, and the first match is returned.
\* A fault: the scan goes on and the last match is returned.
LastWithFd(i, fd) ==
  /\ ev[i].jc # NULL
  /\ jcs[ev[i].jc].fd = fd
  /\ \A k \in i + 1 .. MaxEvents - 1 : ev[k].jc # NULL => jcs[ev[k].jc].fd # fd
FirstWithFd(i, fd) ==
  /\ ev[i].jc # NULL
  /\ jcs[ev[i].jc].fd = fd
  /\ \A k \in 0 .. i - 1 : ev[k].jc # NULL => jcs[ev[k].jc].fd # fd

ReadsFreedConn(fd) ==
  \E i \in Slots :
    /\ ev[i].jc # NULL
    /\ jcs[ev[i].jc].mem = "free"
    /\ \A k \in 0 .. i - 1 : ~FirstWithFd(k, fd)

\* attach_stream_to_connect, second branch: a pooled connection is already
\* watched by the slot that evget finds by its descriptor.
ReuseConnection ==
  /\ pc = "attach"
  /\ cur # NULL
  /\ ~ReadsFreedConn(jcs[cur].fd)
  /\ jcs' = [jcs EXCEPT ![cur] = WithStream(@)]
  /\ \E i \in Slots :
       /\ FirstWithFd(i, jcs[cur].fd)
       /\ EventAdd(i, EventResetCb(i, "data_transfer"), {"OUT"})
  /\ cur' = NULL
  /\ pc' = "expire"
  /\ UNCHANGED <<sock, pool, total, checkpos, due, batch, leaked>>

\* evget reads a connection that has been freed: anything may happen next.
ReuseCrashes ==
  /\ pc = "attach"
  /\ cur # NULL
  /\ ReadsFreedConn(jcs[cur].fd)
  /\ pc' = "use_after_free"
  /\ UNCHANGED <<table, sock, jcs, pool, total, checkpos, due, cur, batch, leaked>>

-----------------------------------------------------------------------------
(* expires_house_keeping and close_stream. *)

\* main_loop runs house-keeping before epoll_wait; a fault: also after it.
AtExpiryAlsoLate == pc \in {"expire", "dispatch"}
AtExpiry == pc = "expire"

\* Every expired slot is unregistered.  If its connection has a stream, the
\* descriptor is closed and the stream freed; the connection is not freed and
\* keeps its pointer to the stream.  A pooled connection has no stream.
HouseKeeping ==
  LET expired == Expired(checkpos)
      active  == {i \in expired : ev[i].jc # NULL /\ jcs[ev[i].jc].stream # "none"}
      fds     == {ev[i].fd : i \in active}
  IN /\ AtExpiry
     /\ checkpos' = NextPos(checkpos)
     /\ EventDel(expired, fds)
     /\ CloseFds(fds)
     /\ jcs' = [j \in Conns |->
                  IF \E i \in active : ev[i].jc = j
                  THEN [jcs[j] EXCEPT !.stream = "freed"] ELSE jcs[j]]
     /\ pc' = "wait"
     /\ UNCHANGED <<pool, total, due, cur, batch, leaked>>

-----------------------------------------------------------------------------
(* epoll_wait. *)

\* What epoll reports of a descriptor.  Errors and hang-ups are reported
\* whether asked for or not, and may come with or without the other events.
Reports(f) ==
  LET asked == interest[f].mask IN
  IF sock[f].st = "dead" THEN SUBSET asked
  ELSE {{b \in asked : \/ b = "OUT" /\ sock[f].st = "writable"
                       \/ b = "IN"  /\ sock[f].inq}}

Ready == {f \in Fds : interest[f] # NULL /\ (sock[f].st = "dead" \/ {} \notin Reports(f))}

\* All that is ready is returned at once; with nothing ready the call times
\* out after a second, or is interrupted.
EpollWait ==
  /\ pc = "wait"
  /\ \E report \in [Ready -> SUBSET Bits] :
       /\ \A f \in Ready : report[f] \in Reports(f)
       /\ batch' = {[slot |-> interest[f].slot, bits |-> report[f]] : f \in Ready}
  /\ pc' = IF Ready = {} THEN "create" ELSE "dispatch"
  /\ UNCHANGED <<table, sock, jcs, pool, total, checkpos, due, cur, leaked>>

-----------------------------------------------------------------------------
(* Callbacks.  Each handles one event of the batch. *)

\* The loop takes event e of the batch, whose slot has the callback cb, and
\* after the last one starts over.
Handle(e, cb) ==
  /\ pc = "dispatch"
  /\ e \in batch
  /\ ev[e.slot].cb = cb
  /\ batch' = batch \ {e}

Handled(e) == pc' = IF batch = {e} THEN "create" ELSE "dispatch"

\* The callback can follow its pointers and assert(sock == s->server_sock);
\* keepalive_cb needs the connection only, in the list of the pool.
Sound(e) == Usable(e.slot) /\ ev[e.slot].fd = jcs[ev[e.slot].jc].fd
KeepaliveSound(e) ==
  /\ ev[e.slot].jc \in PooledConns
  /\ jcs[ev[e.slot].jc].mem = "live"

\* A fault: a counter that is not confined to 32 bits.
ReleaseConnectionWide(j, c) ==
  /\ jcs' = [jcs EXCEPT ![j] = IF c.alive THEN c ELSE FreeConn]
  /\ pool' = IF c.alive THEN Append(pool, j) ELSE pool
  /\ total' = IF c.alive THEN total + 1 ELSE total - 1

\* release_connection, for a connection the caller left as c: one that is not
\* alive is closed and freed and counted out, any other goes to the pool.
ReleaseConnection(j, c) ==
  IF c.alive
  THEN /\ jcs' = [jcs EXCEPT ![j] = c]
       /\ pool' = Append(pool, j)
       /\ total' = (total + 1) % CounterMod
  ELSE /\ jcs' = [jcs EXCEPT ![j] = FreeConn]
       /\ total' = (total - 1) % CounterMod
       /\ UNCHANGED pool

\* A fault: release_stream_from_connect without eventdel.
ReleaseBadNoDel(i) ==
  LET j == ev[i].jc IN
  /\ ReleaseConnection(j, Released(jcs[j], FALSE, "CONN_CLOSE"))
  /\ EventDel({}, {jcs[j].fd})
  /\ CloseFds({jcs[j].fd})

\* release_stream_from_connect(ev, BAD_CONNECT): the stream is freed, the slot
\* unregistered, the connection closed.
ReleaseBad(i) ==
  LET j == ev[i].jc IN
  /\ ReleaseConnection(j, Released(jcs[j], FALSE, "CONN_CLOSE"))
  /\ EventDel({i}, {jcs[j].fd})
  /\ CloseFds({jcs[j].fd})

\* release_stream_from_connect(ev, OK_CONNECT), for a connection that
\* data_transfer has just marked alive: from now on the slot watches for the
\* peer to close it.
ReleaseOk(i) ==
  LET j == ev[i].jc IN
  /\ ReleaseConnection(j, Released(jcs[j], TRUE, "CONN_ESTAB"))
  /\ EventAdd(i, EventResetCb(i, "keepalive_cb"), {"IN"})
  /\ UNCHANGED sock

\* connect_cb when the descriptor is writable: the outcome of connect() is
\* left for the first write to find out.
ConnectDone(e) ==
  /\ Handle(e, "connect_cb")
  /\ Sound(e)
  /\ "OUT" \in e.bits
  /\ EventAdd(e.slot, EventResetCb(e.slot, "data_transfer"), {"OUT"})
  /\ Handled(e)
  /\ UNCHANGED <<sock, jcs, pool, total, checkpos, due, cur, leaked>>

ConnectRefused(e) ==
  /\ Handle(e, "connect_cb")
  /\ Sound(e)
  /\ "OUT" \notin e.bits
  /\ ReleaseBad(e.slot)
  /\ Handled(e)
  /\ UNCHANGED <<checkpos, due, cur, leaked>>

\* stream_flush_out: how much the write loop gets rid of before it has sent
\* everything or the send buffer is full.  "OUT" was reported for a buffer
\* with room, which only this process fills, so something is written.
Flushed(i) ==
  LET c == jcs[ev[i].jc] IN
  IF sock[c.fd].st = "writable" THEN 1 .. c.left ELSE {0}

\* data_transfer, the outcomes that end the transaction with BAD_CONNECT:
\* an event that is neither readable nor writable, a failed write, and any
\* input (whatever stream_feed_out reads, the stream is released).
TransferEnds(e) ==
  LET c == jcs[ev[e.slot].jc] IN
  /\ Handle(e, "data_transfer")
  /\ Sound(e)
  /\ \/ e.bits = {}
     \/ "OUT" \in e.bits /\ sock[c.fd].st = "dead"
     \/ "IN" \in e.bits /\ ("OUT" \in e.bits => \E n \in Flushed(e.slot) : n < c.left)
  /\ ReleaseBad(e.slot)
  /\ Handled(e)
  /\ UNCHANGED <<checkpos, due, cur, leaked>>

\* data_transfer writes the rest of the message.
TransferDone(e) ==
  LET i == e.slot
      c == jcs[ev[i].jc]
  IN /\ Handle(e, "data_transfer")
     /\ Sound(e)
     /\ "OUT" \in e.bits
     /\ sock[c.fd].st # "dead"
     /\ c.left \in Flushed(i)
     /\ IF KeepAlive THEN ReleaseOk(i) ELSE ReleaseBad(i)
     /\ Handled(e)
     /\ UNCHANGED <<checkpos, due, cur, leaked>>

\* data_transfer writes a part: the connection is known to be alive, and
\* set_stream_event_in_out asks for what the buffers have room for.  out_buf
\* is always empty here, so input is always wanted.
TransferMore(e) ==
  LET i == e.slot
      j == ev[i].jc
      c == jcs[j]
  IN /\ Handle(e, "data_transfer")
     /\ Sound(e)
     /\ e.bits = {"OUT"}
     /\ sock[c.fd].st # "dead"
     /\ \E n \in Flushed(i) :
          /\ n < c.left
          /\ jcs' = [jcs EXCEPT ![j] = Written(c, n)]
     /\ sock' = IF sock[c.fd].st = "writable" THEN [sock EXCEPT ![c.fd].st = "blocked"] ELSE sock
     /\ EventAdd(i, ev[i], {"IN", "OUT"})
     /\ Handled(e)
     /\ UNCHANGED <<pool, total, checkpos, due, cur, leaked>>

\* list_del(&jc->list), and a fault: the entry left in the list.
UnlistForgotten(j) == pool' = pool
Unlist(j) ==
  \E k \in DOMAIN pool :
    /\ pool[k] = j
    /\ pool' = SubSeq(pool, 1, k - 1) \o SubSeq(pool, k + 1, Len(pool))

\* keepalive_cb: whatever happened to a pooled connection, it is closed, taken
\* out of the pool and freed (release_keepalive_connection).
KeepaliveEnds(e) ==
  LET j == ev[e.slot].jc IN
  /\ Handle(e, "keepalive_cb")
  /\ KeepaliveSound(e)
  /\ jcs' = [jcs EXCEPT ![j] = FreeConn]
  /\ Unlist(j)
  /\ total' = (total - 1) % CounterMod
  /\ EventDel({e.slot}, {jcs[j].fd})
  /\ CloseFds({jcs[j].fd})
  /\ Handled(e)
  /\ UNCHANGED <<checkpos, due, cur, leaked>>

-----------------------------------------------------------------------------
(* The kernel and the clock. *)

SockMoves(f, from, to) ==
  /\ sock[f].st \in from
  /\ sock' = [sock EXCEPT ![f].st = to]
  /\ UNCHANGED <<table, jcs, pool, total, checkpos, due, pc, cur, batch, leaked>>

Connected(f) == SockMoves(f, {"connecting"}, "writable")
Drained(f)   == SockMoves(f, {"blocked"}, "writable")
Reset(f)     == SockMoves(f, {"connecting", "blocked", "writable"}, "dead")

PeerSpeaks(f) ==
  /\ sock[f].st \in {"blocked", "writable"}
  /\ ~sock[f].inq
  /\ sock' = [sock EXCEPT ![f].inq = TRUE]
  /\ UNCHANGED <<table, jcs, pool, total, checkpos, due, pc, cur, batch, leaked>>

\* The loop reads the clock once, before create_transaction, and compares
\* with that reading until epoll_wait: a second that passes meanwhile is
\* noticed by the next turn of the loop.
Tick ==
  /\ pc \in {"wait", "dispatch"}
  /\ due' = TRUE
  /\ ev' = [i \in Slots |-> Older(i)]
  /\ UNCHANGED <<interest, sock, jcs, pool, total, checkpos, pc, cur, batch, leaked>>

-----------------------------------------------------------------------------

Create ==
  \/ NothingDue
  \/ GetConnection
  \/ CreateFails
  \/ NewConnection
  \/ NoSlotLeft
  \/ ReuseConnection
  \/ ReuseCrashes

Callback ==
  \E e \in batch :
    \/ ConnectDone(e)
    \/ ConnectRefused(e)
    \/ TransferEnds(e)
    \/ TransferDone(e)
    \/ TransferMore(e)
    \/ KeepaliveEnds(e)

Loop == Create \/ HouseKeeping \/ EpollWait \/ Callback

Kernel == \E f \in Fds : Connected(f) \/ Drained(f) \/ Reset(f) \/ PeerSpeaks(f)

Next == Loop \/ Kernel \/ Tick

Spec == Init /\ [][Next]_vars

\* The loop never waits for anything but epoll_wait, which returns after at
\* most a second, and the clock does not stop.  Nothing is asked of the peer.
FairSpec == Spec /\ WF_vars(Loop) /\ SF_vars(Tick)

-----------------------------------------------------------------------------
(* Properties. *)

Running == pc \in Phases

\* Connections that are between two transactions: in the pool, or taken out
\* of it by get_connection and not yet attached.
IdleConns == PooledConns \union ({cur} \ {NULL})

\* A slot whose callback expects its connection to have a stream.
InTransaction(i) == ev[i].status = 1 /\ ev[i].cb \in {"connect_cb", "data_transfer"}

\* The variables have their types; in particular current_total stays a
\* uint32_t and the output that is left never exceeds the message.
TypeOK ==
  /\ TableTypeOK
  /\ sock \in [Fds -> SockType]
  /\ jcs \in [Conns -> ConnType]
  /\ pool \in Seq(Conns)
  /\ total \in 0 .. CounterMod - 1
  /\ checkpos \in 0 .. MaxEvents
  /\ due \in BOOLEAN
  /\ pc \in Phases \union Crashes
  /\ cur \in Conns \union {NULL}
  /\ batch \in SUBSET [slot : Slots, bits : SUBSET Bits]
  /\ leaked \in SUBSET Fds

\* No callback about to run and no house-keeping pass follows ev->jc or
\* jc->stream into freed memory, and assert(sock == s->server_sock) holds,
\* although close_stream leaves jc->stream dangling and eventdel leaves ev->jc
\* behind.  (The actions above are undefined where this is false.)
PointersValid ==
  /\ \A e \in batch : IF ev[e.slot].cb = "keepalive_cb" THEN KeepaliveSound(e) ELSE Sound(e)
  /\ pc = "expire" => \A i \in Expired(checkpos) : ~ReadsFreed(i)

\* What epoll knows agrees with g_events: a watched descriptor is that of a
\* registered slot, and it is that slot that its events are delivered to.
\* (The converse fails when EPOLL_CTL_ADD does: eventadd does not notice.)
InterestSound ==
  \A f \in Fds : interest[f] # NULL =>
    interest[f].slot \in Live /\ ev[interest[f].slot].fd = f

\* Every open socket is held by exactly one registered slot, or by a pooled
\* connection, or was lost by create_connect_socket on an error path; no slot,
\* pooled connection or lost one refers to a descriptor that is closed.
FdAccounting ==
  Running =>
    /\ OpenFds = {ev[i].fd : i \in Live} \union {jcs[j].fd : j \in IdleConns} \union leaked
    /\ \A i, k \in Live : ev[i].fd = ev[k].fd => i = k
    /\ \A i \in Live : ev[i].fd \notin leaked

\* A stream that is allocated belongs to exactly one registered slot that will
\* release it, and such a slot has one: streams are neither lost nor shared,
\* whichever of the two release paths (release_stream_from_connect,
\* close_stream) takes them away.
StreamOwned ==
  Running =>
    /\ \A j \in Conns : jcs[j].stream = "live" =>
         \E i \in Slots : InTransaction(i) /\ ev[i].jc = j
    /\ \A i \in Slots : InTransaction(i) => Usable(i)
    /\ \A i, k \in Slots : InTransaction(i) /\ InTransaction(k) /\ ev[i].jc = ev[k].jc
         => i = k

\* Events fetched by one epoll_wait stay valid while the callbacks of the
\* earlier ones run: each is for a slot still registered, for the descriptor
\* it was reported for, and no two are for one slot.
BatchFresh ==
  /\ \A e \in batch : e.slot \in Live /\ interest[ev[e.slot].fd] # NULL
  /\ \A e1, e2 \in batch : e1.slot = e2.slot => e1 = e2

\* The table never fills up before the descriptors run out, so the unchecked
\* result of evget is not NULL.  Checked where there are at least as many
\* slots as descriptors, as with MAX_EVENTS = 1024 and the usual limit.
NoNullSlot == pc # "null_slot"

\* When evget does return NULL, it is because there really are MAX_EVENTS
\* transactions under way, each on a socket of its own: no slot has been lost
\* to a transaction that has ended.
OverflowGenuine ==
  pc = "null_slot" =>
    /\ \A i \in Slots : InTransaction(i) /\ Usable(i) /\ ev[i].fd \in OpenFds
    /\ Cardinality({ev[i].fd : i \in Slots}) = MaxEvents

\* One house-keeping pass unregisters the slots that have been silent for the
\* whole time-out and no other, wherever the previous pass stopped and
\* however its position wraps at MAX_EVENTS.
ExpiryExact ==
  [][pc = "expire" /\ pc' = "wait" =>
       {i \in Slots : ev'[i].status = 1} = {i \in Live : ev[i].age < Timeout}]_vars

\* A stream that has been attached is freed in the end, by its callbacks or by
\* its time-out, whatever the peer and the network do and even when epoll
\* never reports the descriptor.
TransactionsEnd ==
  \A j \in Conns : jcs[j].stream = "live" ~> jcs[j].stream # "live"

\* get_connection_statiscs prints the length of the list under the name
\* "pool current_total".
TotalIsPoolLength == total = Len(pool) % CounterMod

\* A pooled connection is live, established, without a stream and in the pool
\* once; its descriptor is its own and open.  The registered slot that watches
\* it, if it has not timed out, calls keepalive_cb.
PoolSound ==
  Running =>
    /\ \A m, n \in DOMAIN pool : jcs[pool[m]].fd = jcs[pool[n]].fd => m = n
    /\ \A j \in IdleConns :
         /\ jcs[j].mem = "live" /\ jcs[j].alive /\ jcs[j].stream = "none"
         /\ jcs[j].status = "CONN_ESTAB"
         /\ jcs[j].fd \in OpenFds
         /\ \A i \in Live : ev[i].fd = jcs[j].fd => ev[i].jc = j /\ ev[i].cb = "keepalive_cb"

\* evget, asked for the slot of a pooled connection by descriptor, finds the
\* slot that was last used for that very connection, even after the keep-alive
\* time-out has unregistered it, and never one left behind by an older
\* connection that had the same descriptor.
ReuseFindsSlot ==
  pc = "attach" /\ cur # NULL /\ ~ReadsFreedConn(jcs[cur].fd) =>
    \E i \in Slots : FirstWithFd(i, jcs[cur].fd) /\ ev[i].jc = cur

-----------------------------------------------------------------------------
(* Why the program is safe: the invariant that every step keeps, with the  *)
(* pool and without it.  It strengthens the properties above to what each  *)
(* step relies on.                                                         *)

\* A slot and its connection refer to each other, on a descriptor that is open,
\* and evget, asked for the descriptor, comes to this slot first.
Bound(i) ==
  /\ ev[i].jc # NULL
  /\ jcs[ev[i].jc].mem = "live"
  /\ jcs[ev[i].jc].fd = ev[i].fd
  /\ ev[i].fd \in OpenFds \ leaked
  /\ \A k \in Slots : k < i /\ ev[k].jc # NULL => jcs[ev[k].jc].fd # ev[i].fd

\* A registered slot serves a transaction or watches an idle connection.
SlotsSound ==
  \A i \in Live :
    /\ Bound(i)
    /\ \/ InTransaction(i) /\ jcs[ev[i].jc].stream = "live"
       \/ ev[i].cb = "keepalive_cb" /\ ev[i].jc \in IdleConns

\* An idle connection still has its slot, registered or not.
IdleSound ==
  \A j \in IdleConns :
    /\ jcs[j].alive /\ jcs[j].stream = "none" /\ jcs[j].status = "CONN_ESTAB"
    /\ \E i \in Slots : Bound(i) /\ ev[i].jc = j /\ ev[i].cb = "keepalive_cb"

\* A connection is in the pool at most once, and not when it has been taken out
\* of it.  One is made, on whatever slot is free, only while there is none in
\* the pool.  As built, nothing is ever put there.
PoolQueue ==
  /\ \A m, n \in DOMAIN pool : pool[m] = pool[n] => m = n
  /\ cur # NULL => cur \notin PooledConns /\ pc \in {"attach", "use_after_free"}
  /\ pc \in {"attach", "null_slot"} /\ cur = NULL => pool = <<>>
  /\ ~KeepAlive => pool = <<>> /\ cur = NULL /\ pc # "use_after_free"

\* Nothing is owned by nobody.
NothingLost ==
  /\ leaked \subseteq OpenFds
  /\ Running => \A f \in OpenFds \ leaked :
       (\E i \in Live : ev[i].fd = f) \/ (\E j \in IdleConns : jcs[j].fd = f)
  /\ Running => \A j \in Conns : jcs[j].stream = "live" => \E i \in Live : ev[i].jc = j

BatchSound == BatchFresh /\ (pc # "dispatch" => batch = {})

LoopInv ==
  /\ SlotsSound
  /\ IdleSound
  /\ PoolQueue
  /\ NothingLost
  /\ InterestSound
  /\ BatchSound

=============================================================================
