----------------------------- MODULE EventTable -----------------------------
(***************************************************************************)
(* The event table of jujube (event.c, event.h): a fixed array of slots,   *)
(* each of which watches one descriptor, together with the interest list   *)
(* that the kernel keeps for the epoll descriptor.                         *)
(*                                                                         *)
(* A slot is a myevent_s.  `jc' is the connection it serves, `cb' the name *)
(* of its callback, `status' 1 while the code believes the slot is         *)
(* registered.  The code stores last_active, a time stamp in seconds, and  *)
(* compares now - last_active with 10; the model stores that difference,   *)
(* `age', which saturates at Timeout, so time is unbounded and the state   *)
(* is not.  ev->events and ev->arg are never read back (arg is always the  *)
(* slot itself) and are left out.                                          *)
(*                                                                         *)
(* The operators below describe the functions of event.c; the modules of   *)
(* the programs that call them (Client) compose them into actions.         *)
(***************************************************************************)
EXTENDS Integers, FiniteSets

CONSTANTS
  MaxEvents,   \* MAX_EVENTS: slots that evget hands out
  Timeout,     \* seconds of silence after which a slot expires (10)
  Fds,         \* descriptors the process may have open as sockets
  Conns,       \* addresses at which a jconnect can be allocated
  NULL

ASSUME TableAssumption ==
  /\ MaxEvents \in Nat \ {0}
  /\ Timeout \in Nat \ {0}
  /\ NULL \notin Fds
  /\ NULL \notin Conns
  /\ NULL \notin [slot : Nat, mask : SUBSET {"IN", "OUT"}]

VARIABLES
  ev,          \* g_events: what each slot holds
  interest     \* the kernel's interest list, by descriptor

Slots == 0 .. MaxEvents - 1
Bits  == {"IN", "OUT"}

Callbacks == {"connect_cb", "data_transfer", "keepalive_cb"}

SlotType ==
  [fd : Fds \union {NULL}, jc : Conns \union {NULL},
   cb : Callbacks \union {NULL}, status : {0, 1}, age : 0 .. Timeout]

\* What epoll remembers for a descriptor: data.ptr and the events asked for.
InterestType == [slot : Slots, mask : SUBSET Bits] \union {NULL}

TableTypeOK ==
  /\ ev \in [Slots -> SlotType]
  /\ interest \in [Fds -> InterestType]

\* g_events is static storage: every field starts as zero.
TableInit ==
  /\ ev = [i \in Slots |-> [fd |-> NULL, jc |-> NULL, cb |-> NULL,
                            status |-> 0, age |-> 0]]
  /\ interest = [f \in Fds |-> NULL]

Live == {i \in Slots : ev[i].status = 1}

-----------------------------------------------------------------------------

\* A fault: the first slot is returned whatever its status.
FirstSlot(i) == i = 0

\* evget(g_events, -1): the lowest slot whose status is 0.
FirstFree(i) ==
  /\ ev[i].status = 0
  /\ \A k \in Slots : k < i => ev[k].status = 1

\* A fault: the scan stops one slot early.
TableFullEarly == \A i \in Slots : i < MaxEvents - 1 => ev[i].status = 1

\* evget(g_events, -1) finds nothing and returns NULL ("max fd limit").
TableFull == \A i \in Slots : ev[i].status = 1

\* eventset: a slot prepared for a connection.
EventSet(fd, jc, cb) ==
  [fd |-> fd, jc |-> jc, cb |-> cb, status |-> 0, age |-> 0]

\* event_reset_cb: the slot with another callback, all else kept.
EventResetCb(i, cb) == [ev[i] EXCEPT !.cb = cb]

\* epoll_ctl(EPOLL_CTL_ADD): refused for a descriptor already watched; it can
\* also fail for want of kernel memory.  eventadd ignores the result.
EpollAdd(i, fd, mask) ==
  \/ /\ interest[fd] = NULL
     /\ interest' = [interest EXCEPT ![fd] = [slot |-> i, mask |-> mask]]
  \/ interest' = interest

\* epoll_ctl(EPOLL_CTL_MOD): refused for a descriptor that is not watched.
EpollMod(i, fd, mask) ==
  interest' = IF interest[fd] = NULL THEN interest
              ELSE [interest EXCEPT ![fd] = [slot |-> i, mask |-> mask]]

\* A fault: status not set when the slot is added.
EventAddUnmarked(i, e, mask) ==
  /\ ev' = [ev EXCEPT ![i] = e]
  /\ IF e.status = 1 THEN EpollMod(i, e.fd, mask) ELSE EpollAdd(i, e.fd, mask)

\* A slot as eventadd leaves it.
Registered(e) == [fd |-> e.fd, jc |-> e.jc, cb |-> e.cb, status |-> 1, age |-> 0]

\* eventadd on slot i whose contents the caller has just made e.
EventAdd(i, e, mask) ==
  /\ ev' = [ev EXCEPT ![i] = Registered(e)]
  /\ IF e.status = 1 THEN EpollMod(i, e.fd, mask) ELSE EpollAdd(i, e.fd, mask)

\* eventdel on the slots S (those not registered are left alone), followed by
\* close() of the descriptors in `closed', which also ends their interest.
EventDel(S, closed) ==
  /\ ev' = [i \in Slots |->
              IF i \in S THEN [ev[i] EXCEPT !.status = 0] ELSE ev[i]]
  /\ interest' = [f \in Fds |->
              IF f \in closed \/ \E i \in S \cap Live : ev[i].fd = f
              THEN NULL ELSE interest[f]]

-----------------------------------------------------------------------------

\* Two faults: the position never wraps; only a part of the table is visited
\* by each call, as the loop commented out on line 181 did.
VisitedNoWrap(pos) == {pos + k : k \in 0 .. MaxEvents} \cap Slots
VisitedPart(pos) == {pos % MaxEvents}

\* The slots expires_house_keeping looks at when it starts at `pos': its loop
\* makes MAX_EVENTS + 1 turns and wraps at MAX_EVENTS.
Visited(pos) == {(pos + k) % MaxEvents : k \in 0 .. MaxEvents}

\* ... and the position it leaves behind for the next call.
NextPos(pos) == (pos % MaxEvents) + 1

\* The visited slots that have been silent for too long.
Expired(pos) == {i \in Visited(pos) : ev[i].status = 1 /\ ev[i].age >= Timeout}

\* One second passes.  Only a registered slot's age is ever read.
Older(i) ==
  IF ev[i].status = 1 /\ ev[i].age < Timeout
  THEN [ev[i] EXCEPT !.age = @ + 1] ELSE ev[i]

=============================================================================
