# A TLA+ verification of jujube

jujube is a small network library in C: an event table over epoll, streams of
bytes with a length prefix, a pool of connections, a memory pool, a client
program built from them and a server that receives what the client sends. This
directory holds TLA+ models of it, the TLC configurations that check them on
small instances and proofs, checked by TLAPS, that hold for every instance.

## 1. Inventory

| component | state | operations | what is hard | what makes it correct |
|---|---|---|---|---|
| event table, `event.c` | `g_events[MAX_EVENTS + 1]`: fd, callback, connection, status, last activity; the kernel's interest list | `evget`, `eventset`, `event_reset_cb`, `eventadd`, `eventdel`, `set_stream_event_in_out`, `close_stream`, `expires_house_keeping`, `init_listensocket` | slots and descriptors are reused at once; `epoll_ctl` failures are ignored; the scan wraps; `ev->jc` and `jc->stream` outlive what they point to | epoll's list and the table agree; exactly the silent slots expire; no pointer is followed after its target is gone |
| client, `client.c` | `next_time`, the batch of events being handled | `main_loop`, `create_transaction`, `attach_stream_to_connect`, `release_stream_from_connect`, `connect_cb`, `data_transfer`, `keepalive_cb` | network events between any two steps; stale events of one batch; errors in the middle of a creation; full table | descriptors, slots, connections and streams match one to one; every transaction ends |
| connection pool, `connection.c` | `g_jconnect` (a list), `current_total` | `get_connection`, `release_connection`, `release_keepalive_connection`, `get_connection_statiscs` | entries watched by the event table while idle; counter changed without the lock | a pooled connection is open, idle, listed once and watched by its own slot |
| streams, `stream.c` | input and output buffer, sockets, lengths | `stream_create`, `stream_flush_out`, `stream_feed_out`, `new_transaction_stream`, `free_transaction_stream` | partial reads and writes, end of stream, resets | owned by one slot; freed once |
| buffers, `buf.c` | `buffer`, `data_len`, `buf_len` | `buf_put`, `buf_pick`, `buf_realloc`, ... | growth, moving the rest | bytes kept in order |
| receiver, `server.c` | `reply_body_size_left`, `data_recved`, `content_len`, `work_buf` | `data_transfer`, `collect_data`, `alloc_work_buff` | messages arrive in pieces of any size; too long, too short | `do_work` gets the message, whole and once |
| accept loop, `server.c` | `g_events` with the listening slot at `MAX_EVENTS`, `g_efd` | `init_listensocket`, `accept_conn`, `main_rcv_loop` | full table, failing `accept` and `fcntl`; slots and descriptors handed out in the batch in which they were given up; the listening slot is always overdue | slots, descriptors and streams match; what is lost is what `accept_conn` drops; accepting goes on |
| memory pool, `mem.c` | a free list per size class, the used list, counters, block headers | `mem_alloc`, `mem_free`, `mem_realloc`, statistics | several threads; work outside the lock; `obj_size` is that of a block's first use | a block has one owner, one list, one class; counters agree with lists |
| sockets and wake-up pipe, `comm.c` | the pipe | `create_connect_socket`, `set_wake_up_polling`, `wake_up_poll` | errors after `socket()`; bytes written at any time, full pipe | wake-ups are not lost |
| list, `list.h` | links | `list_add`, `list_del`, ... | entries that move between lists; walks while another thread unlinks | links stand for sequences |
| IP addresses, `ip.c` | none | `check_host_ip_and_get_verion` and its parts, `ip_2_str` | a text is parsed twice, by different rules | what is checked is what is stored |
| compression, `fastlz.c` | none | compress, decompress | third-party, calls compiled out | -- |
| delivery, end to end | a message at the client, under way and at the server | a transaction, its callbacks at both ends, both time-outs | no acknowledgement; two clocks; either side may end first | at most once, whole, never after a failed transaction |

The client is one thread: `create_transaction` (at most once a second), then
`expires_house_keeping`, then `epoll_wait`, then the callback of every event
returned. The table calls the client back; the client calls the pool, which
closes and frees connections; time-outs close descriptors behind the callbacks'
back. `server.c` is written against an earlier interface of `event.c` and
`stream.c` (`evget` with one argument, `ev->stream`) and is not part of the
Makefile; it is modelled as it is written, on the parts it still shares.

## 2. Modules

| module | models | lines of reading |
|---|---|---|
| `EventTable` | `event.c`: slots, interest list, registration, expiry, as operators | every action of `Client` goes through it |
| `Client` (extends `EventTable`) | `client.c`, `connection.c`, output half of `stream.c`, outcomes of `comm.c` | state machine, properties, inductive invariant |
| `Receiver` | `server.c` callback, input half of `stream.c`, `buf.c` | state machine, properties, inductive invariant |
| `Server` (extends `EventTable`) | accept loop of `server.c`, `init_listensocket` | state machine, properties, liveness |
| `Delivery` | nothing: the abstract promise about one message | specification |
| `Transfer` (extends `Receiver`, instantiates `Delivery`) | a transaction of `client.c`, TCP and `Receiver`, composed | state machine, refinement |
| `Tickle` | turns of `main_loop`, the pipe of `comm.c`, several callers | state machine, properties, liveness |
| `MemPool` | `mem.c` with several threads | state machine, properties |
| `PrivateMemory` | nothing: what callers of the memory pool are promised | specification |
| `MemData` (extends `MemPool`, instantiates `PrivateMemory`) | contents of blocks: `memset`, `mem_realloc`'s `memcpy` | state machine, properties, refinement |
| `MemReport` (extends `MemData`) | `statistics_mem_info`, without the lock | state machine, property |
| `ListHead` | `list.h` | operators on links |
| `PoolSeq` | nothing: the abstract pool, a queue | specification |
| `PoolList` (extends `ListHead`, instantiates `PoolSeq`) | `connection.c` on links, with a second thread | state machine, refinement |
| `Ip` | `ip.c` | operators, one call |
| `MCClient`, `MCReceiver`, `MCTransfer`, `MCMemPool`, `MCIp` | small instances for TLC (`Server`, `Tickle` and `PoolList` need none) | |
| `EventTableProofs` | lemmas on the operators of `EventTable` | |
| `ClientProofs` (extends `Client`, `EventTableProofs`) | proofs that `Client` is type-correct and of its safety properties | |
| `ServerProofs` (extends `Server`, `EventTableProofs`) | proofs of the safety properties of `Server` | |
| `MemProofs` (extends `MemReport`) | proofs of all properties of `MemPool`, `MemData` and `MemReport` | |
| `ReceiverProofs` | proofs of the safety properties of `Receiver` | |
| `TransferProofs` (extends `Transfer`, `ReceiverProofs`) | proofs of the invariant of `Transfer` and that it implements `Delivery` | |
| `TickleProofs` | proofs of the safety properties of `Tickle` | |
| `PoolProofs` (extends `PoolList`) | lemmas on the operations of `ListHead`; proofs of the properties of `PoolList` and that it implements `PoolSeq` | |

Operators introduced by a comment "a fault" or "faults" are not used by the
specifications. Each is a plausible error in one definition; a property is only
kept here if one of them makes TLC find it violated.

### Client

* One action is one operation with everything it calls: `NewConnection` is
  `create_transaction` with the creation of the socket and the stream, `evget`,
  `eventset` and `eventadd`; `TransferDone` is `data_transfer` down to
  `close`, `free` and the counter. `pc` is the position in the loop.
* `get_connection` and the rest of `create_transaction` are two actions because
  the first empties the pool from the front; nothing runs between them except
  the kernel.
* The kernel's side of a descriptor is `sock`: connecting, blocked (send buffer
  full), writable, dead, and whether input has arrived. `epoll_wait` takes a
  snapshot, `batch`, and the sockets go on changing while it is handled. Events
  of one batch are handled in any order, which covers the order of the array.
  `EPOLLERR` and `EPOLLHUP` are reported without being asked for.
* `epoll_ctl(ADD)` may fail; `eventadd` does not notice, and neither does the
  model's slot.
* Memory is `jcs`: a connection is free or live, its stream pointer is NULL,
  live or dangling. Following a dangling pointer is never an action of a
  callback: `PointersValid` says that this cannot be needed. The one place where
  the code can read freed memory, `evget` by descriptor in keep-alive mode, is
  the action `ReuseCrashes`; a NULL slot is `NoSlotLeft`. Both end the process.
* Time: only `now - last_active` matters, so a slot has an `age` which stops at
  `Timeout`. The clock ticks in `wait` and `dispatch`; the loop reads it once per
  turn, so a second that passes elsewhere is noticed by the next turn anyway.
  `last_active` has a resolution of a second: a slot may be aged by a second too
  much, as in the code.
* A message is `MsgLen` units; its contents do not matter here.
* `KeepAlive` is the choice between lines 229 and 230 of `client.c`. As built it
  is FALSE: every connection is closed after its message and the pool stays
  empty. TRUE is the call left in the source as a comment, and the only way to
  enter the code of the pool. The README of jujube lists keep-alive as to do.

### Receiver

One accepted connection. Bytes are identified by their position, so "whole and
in order" can be stated; `Bytes(a, b)` is a run of them. Data arrives one byte at
a time between any two callbacks, a read takes what has arrived up to the size of
`out_buf`, so every way of cutting the stream up occurs. The peer may declare any
length, send less or more, close or reset. `EPOLLOUT` is never requested, since
`in_buf` stays empty; an event without input is a reset (`HungUp`), and the
assertion on line 166 can only fail where epoll still reports input, that is
when `out_buf` is not full. One call of `data_transfer` is one action; which one
depends on what is read and on the sign of `reply_body_size_left`.
`collect_data` is `CollectData` followed by `Settle`.

### MemPool

What `mem_alloc` and `mem_free` do under `mem_mutex` is one step, since no other
thread touches the lists then. `mem_free` up to the lock (`Unreference`), and
`mem_realloc` between its two calls, are steps of their own. `canary` is where the
byte 0xf was written, that is the class the block was malloc'ed for. Assertions
of the code set `failed`. Callers are assumed to free only what they hold.
`malloc` is assumed to succeed while there are `Blocks` left, which bounds memory.

### Server

The slots are those of `EventTable`; a slot's `jc` stands for the stream, which
`server.c` reaches without a jconnect. `lsn` is the listening slot, which is one
past the others. `close_stream` and expiry are those of the table. `accept_conn`
is three actions: `accept` returns nothing (no descriptor left, or the client has
gone), the block is left early (`AcceptDrops`: full table, or `fcntl` fails), or
the connection gets a stream and a slot. What `data_transfer` does with the bytes
is `Receiver`'s; here the connection goes on, ends, or aborts the server, as the
network has it. Of a descriptor that `accept_conn` has dropped nothing is
modelled any more: it is in no slot and epoll does not know it. `listening` is
FALSE from the start if `bind`, `listen` or `epoll_ctl` failed, which nothing
checks. That `epoll_wait` fails with anything but `EINTR` is left out here (it is
`WaitFails` in `Tickle`).

### Transfer and Delivery

`Delivery` is what the two programs promise about one message: it is handed to
`do_work` at most once, whole, after the transaction has ended with everything
written, and never after it has failed; both sides come to an end. `Transfer`
composes what implements it. The server side is `Receiver` as it stands: its
bytes arrive only after the client has written them and its end of stream only
after all of them (`Carries`, `CarriesEnd`), which is all TCP guarantees. The
client side is one transaction: connect, write as much as TCP takes, close as
soon as `in_buf` is empty (line 230 of `client.c`), fail, or time out. Either
process has its own clock. The server may be in a listen queue (`queued`), drop
the connection in `accept_conn`, or die, which other connections can make it do.

The refinement maps `log` to `works` and `over` to `Over`: the server has closed,
died or dropped the connection, or the client has given up before there was one.
The step that needs an argument is `Deliver`: nothing in the code tells the server
that the transaction has succeeded; it holds because the last byte of the
message is also the last byte of `in_buf`. A client that checked `in_buf` before
writing instead of after (`FinishedBefore`) would deliver a message whose
transaction then times out.

### Tickle

What one turn of `main_loop` reads, when: `time()` at its beginning, the pipe at
`epoll_wait` and in the drain, byte by byte. Callers of `wake_up_poll` and the
clock, which may be set back, go on at every point. `asked` stands for what a
caller wants looked at; the code that would look (`get_log_entry_from_list`) is
commented out at the beginning of the turn, and that is where the model looks.
`next_time` is an `int`, `time()` is a `long`.

### MemData, MemReport

`MemData` adds the bytes of every block to `MemPool`: zero, the holder's own, or
`stale`. `mem_alloc` clears as many bytes as a block of the class of the size asked
for has (`ClearedTo`), over whatever block is at the head of that list (`Cleared`);
like `memcpy` this may run past the end of the block, which then has more bytes
than were malloc'ed, or stop short of it. That it never does (`NoResidue`) depends
on every block being on the list of its class. Callers of `mem_realloc` pass the
size they asked for.

`PrivateMemory` is what a thread is promised, without headers, lists or classes: a
block that is given out was nobody's and is all zeros, and keeps what its holder
writes until he gives it up. `IsPrivateMemory` says that `MemData` implements it; a
holder sees as much of a block as he asked for (`Seen`). The promise about
`mem_realloc` is the one the code keeps: the contents move to the new block if they
fit in it and if the *first* use of the old block, by whichever thread, was at least
as large (`mem.c:217` compares with `obj_size`, which a later use does not change);
otherwise the new block is zeros. So a block that is reused for more loses its
contents when it grows. Nothing in the repository says that it should not, and
nothing calls `mem_realloc`; the model has the loss and no property forbids it.

`MemReport` adds the thread that runs `statistics_mem_info`: it reads one counter,
then the other, and the pool moves on in between.

### ListHead, PoolList, PoolSeq

A `list_head` is a pair of addresses, and `RingsAreSequences` says of the pool's
what the other modules take for granted of all lists, for every operation of
`list.h` that could come next, those that the pool does not use included.
`PoolList` is the pool on those links: `get_connection` is one step per entry its
search looks at (`SetAside`, `TakeFirst`, `TakeNone`), during which it holds the
mutex, and after the unlock one per connection it closes (`CloseInvalid`);
`release_keepalive_connection` is one step per assignment, since it does not take
the mutex; `get_connection_statiscs` runs in another thread and holds the mutex
from its first step to its last. Connections that are not alive are marked by
`Mark`, which the repository does only just before it withdraws them. What
`list_for_each` passes is said by `Cursor`, the position of its cursor after so
many steps, and `Passed`, the entries before it is back at the head. The
refinement maps the queue to those (`Queue`), preceded, as long as `get_connection`
searches, by what it has set aside: so taking an entry, and discarding those
before it, is one step of `PoolSeq`, the one in which the search ends.

### Ip

A text is described by what lies between its dots, blanks and other characters;
IPv6 texts are taken by what `inet_pton` makes of them. `IsDotted` and
`InetPton4` are the two parsers, `ChecksIpv4` the call which uses both.

## 3. Runs

| run | instance | shows |
|---|---|---|
| `client_built` | 3 descriptors, 3 connections, 2 slots, time-out 2, message of 2 units, symmetry | 4.1 million states. Types, ownership of streams, freshness of the batch, exactness of expiry. The table really fills up; when it does, each slot serves a transaction of its own. `LoopInv`, the invariant of the proofs, implies the other safety properties of `Client` |
| `client_keepalive` | 2 descriptors, 3 connections, 2 slots, `KeepAlive` | 2.9 million states. Soundness of the pool, pointers, accounting of descriptors; `evget` by descriptor finds the right slot whenever it survives the search |
| `client_live` | 2 descriptors, 2 connections, 2 slots, time-out 1, no symmetry | 0.7 million states. With no more descriptors than slots `evget` finds a slot; every transaction ends |
| `client_total` | as `client_built`, 2 descriptors, counter modulo 4 | **violated**, see Findings |
| `receiver` | header 2 bytes, `LOG_MAX_LEN` 3, `out_buf` 6, lengths 0 to 4, up to 14 bytes sent | 18 thousand states. Delivery, causes of the abort, invariant of the proofs (with the size of `work_buf`); every connection ends |
| `receiver_assert` | the same | **violated**, see Findings |
| `server` | 3 descriptors, 2 streams, 2 slots, time-out 1, backlog 2, no symmetry | 0.5 million states. Ownership of descriptors and streams, freshness of the batch; accepting goes on; no connection outlives a silent client |
| `transfer` | message of 5 behind a header of 2, window 5, `out_buf` 6, time-outs 2 | 15 thousand states. `Transfer` implements `Delivery`, with its fairness; `TransferInv`: in which ways a message can be lost (`LossExplained`), what aborts the server (`OnlySplitAborts`), what each end knows of the bytes |
| `tickle` | pipe of 2 bytes, 4 calls, seconds 0 to 5, `int` up to 3 | 25 thousand states. No sleep over a call, full pipe or not; a call leads to a new turn; one transaction a second until the `int` overflows |
| `poollist` | 3 connections | 22 thousand states. Links are sequences; one place for each connection; what the statistics can see; refinement of `PoolSeq` |
| `mempool` | 2 threads, 3 blocks, 2 classes with sizes at and below their limits, symmetry | 1 million states. Lists, owners, assertions, statistics, footprint, error of the report; blocks are cleared to their end and not beyond; `MemData` implements `PrivateMemory` |
| `ip` | 10 numbers in each of 1, 3 or 4 fields, at every limit; buffer of 16 bytes, `int` of 11 bits | 132 thousand states. The parsers agree, so the address stored is the one that is checked |

Bounds. Two slots are enough for a slot to be reused while another is in use, for
two events in one batch, and for the scan to start in the middle and wrap; three
connections with two descriptors let a descriptor be reused while the structure
of its previous owner is still allocated (each time-out loses one). A time-out of
two distinguishes young, old and expired. Two units of output distinguish an
untouched message, a part and all of it. `CounterMod` only has to wrap. In
`receiver` the header can be split, `out_buf` can be filled, a read can
bring more than `work_buf` has room for, and there is room for the reads
after an excess. The process may stop in `client_built` (NULL slot), in
`client_keepalive` (freed memory), in `Receiver` and `Server` (closed or aborted),
in `Transfer` (both ends done), in `Tickle` (the loop is left), in `PoolList` (the
statistics have gone astray) and after the one call of `Ip`, and only there
deadlock is not checked.

`server` has a descriptor more than slots, so that the table fills up and
connections are dropped, and two slots so that one can be closed and taken again
in a batch with the listener's event. In `transfer` the header can be split,
the message can come in several reads, and the window is smaller than header and
message together, so the client has to wait for the server; what is still
unwritten when it fails can be anything. The pipe of `tickle` can be filled
with calls to spare. Three connections let `get_connection` discard one, take the
next and leave one, with the same neighbour on both sides or with different ones.
Three blocks are enough for a thread to hold two, as `mem_realloc` does, while the
other has or frees one of the same class. The buffer of `ip` still
holds every text that passes the first parser, as the one of 20 bytes does (15
characters and the end), and cuts off longer ones.

In the runs with three `Conns`, memory runs out when three time-outs have lost
their connections; from then on `create_transaction` fails as if malloc had.
Deadlock is still checked: the loop goes on.

Fairness. `Client`: weak fairness of the loop, which waits only in `epoll_wait`
and there at most one second; strong fairness of `Tick`, because the clock does
not stop and every turn passes through a state in which it may tick. Nothing is
assumed of peer, network or of `epoll_ctl`. `Receiver`: weak fairness of the
callback (epoll is level-triggered), of expiry and of the clock. `Server`: as
`Client`. `Transfer`: weak fairness of time-outs and clocks at both ends, of
accepting and of the server's callback; nothing of TCP, not even that bytes arrive,
nor that the client gets to write. `Tickle`: weak fairness of the loop without the
return of `epoll_wait` after a second, so that only the pipe can wake it; callers
must pause (`MaxCalls`), since the loop drains until it finds the pipe empty.

Findings.

1. `TotalIsPoolLength`. `current_total` is decremented by `release_connection` for
   connections that were never counted (`connection.c:72`), is not decremented by
   `get_connection` for the one it returns, and so wraps at the first connection
   that is closed; `get_connection_statiscs` prints "pool current_total" and
   means the length of the list (`connection.c:24`). Nothing else reads it while
   the limits on line 66 are commented out.
2. `OutBufEmpty`. `server.c:166` asserts that `out_buf` is empty when input is
   reported. After a read of fewer than eight bytes of header, line 200 leaves
   them there, and the next event aborts the server. The same happens two reads
   after bytes that follow a message. `AbortGenuine` shows that these are the
   only two causes.

## 4. Proofs

Everything below is checked by `tlapm` for all values of the constants that
satisfy `TableAssumption`, `ClientAssumption`, `ServerAssumption`,
`ReceiverAssumption`, `TransferAssumption`, `TickleAssumption`, for `list.h`
`ListAssumption`, and `PoolAssumption`, of which `MemPool` (`mem.c`) and `PoolList`
(`connection.c`) have one each. They say what the header files fix (there is at least one slot,
a time-out is at least a second, lengths and limits are numbers, NULL is no
address) of `mem.c`, that every size asked for has a class and that the blocks are finite
in number, and of the lists that there are finitely many addresses and that the
two heads have different ones. Theorems with a further condition name it.

Client, for `KeepAlive` TRUE and FALSE:

* `TypeCorrect`: one lemma for each operator that several actions use.
* `LoopInvariant`. None of the safety properties is inductive by itself. A
  descriptor is known in up to four places (the slot, the jconnect, the pool, the
  kernel), slots and jconnects keep stale copies of it, and `evget` takes the
  first slot whose jconnect has the descriptor asked for. So a slot is `Bound` to
  its connection if each refers to the other, on an open descriptor, and no
  earlier slot, registered or not, leads to a connection with that descriptor.
  `SlotsSound`: registered slots are bound, and serve a live stream or watch an
  idle connection. `IdleSound`: an idle connection keeps its slot, also while the
  slot is unregistered. `NothingLost`: what is open or allocated has a slot.
  `PoolQueue`: the pool repeats nothing, and a connection is made only when the
  pool has been found empty, so the search of `evget` cannot be misled by the slot
  of a pooled one. `InterestSound`, `BatchSound`: epoll and the events already
  fetched refer to registered slots.
  The argument: a step keeps `Bound` for all other slots if it gives none of them
  a descriptor that was open (`FoundAsBefore`, `BoundKept`). A step registers a
  fresh slot, on a descriptor that was closed and hence is in nobody's slot
  (`NewConnection`); registers the same slot again (`Reregister`); gives up slots,
  descriptors, streams and interest at the same time (`Unregister`); or leaves the
  table alone (`TableUntouched`).
* From it `PointersStayValid`, `DescriptorsAccounted`, `StreamsOwned`,
  `BatchesFresh`, `PooledConnsSound`, `ReuseFinds`, `OverflowIsGenuine`, and, when
  keep-alive is off, `PoolUnused`.
* `NeverNullSlot`: with finitely many descriptors, no more than slots, `evget`
  finds a slot. If it did not, every slot would hold an open descriptor of its own
  (`SlotCount`), and the one just created would be one too many.
* `ExpiryIsExact`: the scan visits every slot for every starting position and
  table size (`VisitsAll`, arithmetic modulo `MaxEvents`), so a pass expires
  exactly the slots that are due.

Server:

* `ServerInvariant`. `Owned` does not say what epoll remembers, and events are
  handled by what epoll remembered when they were reported. `Watched` and
  `Pending` add that: epoll watches only descriptors of registered slots, each
  for its slot, and events not yet handled are of different slots, so that a
  callback takes nothing away from them but its own. From it `ServerOwned` and
  `ServerBatchFresh`.
* `ListenerStays`: no expiry reaches the listening slot, although `last_active` is
  set once and is overdue after the first time-out: the scan never comes to it.

Receiver:

* `ReceiverInvariant`: an open stream's buffers are runs of what has been read:
  nothing, or a part of the header (`split`); then `work_buf` a run that starts
  after the header, with `left = decl - recved`, and `out_buf` empty unless more
  than the message has come. `BytesJoin` and `PickBytes` are the facts about
  `buf_put` and `buf_pick`. From it `DeliveredIntact` (with the size of
  `work_buf`), `DeliveredWhenComplete` and `AbortsAreGenuine`.

Delivery, end to end:

* `TransferInvariant`: the invariant of `Receiver`, what the client knows, and how
  the two are tied: what has been read has arrived, what has arrived was written,
  and the end of the stream comes after all of it. `CallbackOutcome` is the step
  that matters: a callback goes on; or it hands over the message, and then the
  last byte it has read is the last byte of `in_buf`; or it closes the connection
  because of a reset, a split header or a client that has failed; or it aborts,
  and then the header was split, because the client sends nothing behind a message.
* `PromiseIsKept`: with that invariant each step of `Transfer` is one of `Delivery`
  or leaves its variables alone. A client may find the server gone and a server a
  client that has failed, so `Fail` and `Lose` come in either order; `Deliver`
  needs that nothing is unwritten, which is `CallbackOutcome`.

Wake-up pipe:

* `NeverSleepsOwed` rests on `CallsInPipe`: from the reading of the clock to
  `epoll_wait` a call since then is in the pipe, because only the drain takes bytes
  out. `StartsArePaced` rests on `NextIsAfter`: `next_time` is the second after the
  last start unless it has overflowed (`NextTimeFits`).

Memory pool, for any number of threads:

* `PoolInvariant`. `mem_free` finds the class of a block from `obj_size`, the size
  the block was first used for, not from the canary. `HeadersSound`: that size and
  every later one have the class in which the block was malloc'ed. Hence a
  block goes back to the list it came from (`ListsSound`), and the counters are
  the lengths of the lists. `OwnersSound`: a block in use is in one pair of hands,
  also between the part of `mem_free` outside the lock and the part under it.
  `mem_alloc`'s two ways to a block, `Malloc` and `Reuse`, are brought to one
  form (`Obtained`). From it `PoolPartition`, `PoolExclusive`, `PoolAssertions`,
  `PoolStats` and `PoolFootprint`.
* `DataUsesPool`, `ReportUsesPool`: every step of `MemData` and of `MemReport` is
  a step of `MemPool` or leaves its variables alone, so the invariant holds of
  them. On it rest `BlocksHaveNoResidue` and `ReportIsWithin`, whose invariant also
  bounds what has moved since the first counter was read.
* `BlocksHaveNoResidue` needs `ClassUnique` and `ListsSound`: the class found from
  the size asked for is that of the block at the head of its list, so what is
  cleared is the block (`ObtainedCleared`).
* `PoolIsPrivateMemory`: each step of `MemData` is one of `PrivateMemory` or leaves
  what holders see alone. An allocation gives out a block that was nobody's
  (`GivesOutBlock`, from `OwnersSound`) and records the first use (`FirstUse`); the
  part of `mem_free` before the lock gives a block up, the part under it changes
  nothing for anybody.

Connection pool on its links, for any number of connections:

* A `Ring` is what a list of `list.h` is: a sequence without repetitions of which,
  closed at both ends by the head, every two neighbours point to each other. Each
  operation turns the ring of one sequence into that of another and leaves the
  links outside it alone (`RingInit`, `RingAdd`, `RingAddTail`, `RingUnlink`,
  `RingDel`, `RingApart`, `RingShape`). That a walk passes the entries of the ring
  (`RingForward`, `RingBackward`) is proved without induction over the recursive
  function `Cursor`: the walk is written down, satisfies Cursor's equation, and two
  functions that satisfy it have no least place where they differ (`CursorIs`,
  `PathPassed`).
* `PoolInvariant`. The properties speak of what walks pass, which is not inductive.
  `LinksInv`: the pool is a ring, but for one pointer between the two assignments of
  `__list_del`; so is the local list of `get_connection` during the search, and what
  is left of it while it is closed is a path to its head. `PlacesInv`: where each
  connection is. `WalkInv`: the cursor of the statistics is on the pool's list, or at
  an entry just unlinked that still points into it, and its count plus what is ahead
  lies between the list's first length and that less what was withdrawn; only if
  its own entry was cleared is it elsewhere.
* From it `PoolPlaces`, `StatisticsCount`, `ListIsSequence` and, with `HeldAlive` (a
  connection that is held is not marked), `PoolIsQueue`: every step is one of
  `PoolSeq` or leaves the queue alone, although the entries of the queue are looked
  at one by one and withdrawn without the mutex.

Only model-checked: liveness (`TransactionsEnd`, `StreamEnds`, `AcceptsAgain`,
`SilentEnd`, `KeepsPromiseFairly`, `WokenUp`), which TLAPS cannot do under fairness;
and `ParsersAgree` of `Ip`, whose folds over texts are induction over data. `TotalIsPoolLength` and `OutBufEmpty` are
violated, as Findings says.

What the properties do not say:

* `ReuseFindsSlot` is about searches that read no freed connection. That `evget`
  can read one, with keep-alive, is a step of `Client` (`ReuseCrashes`) that ends
  the process; no property forbids it.
* `Paced` ends with the overflow of `next_time`, after which a transaction is
  started at every turn.
* `CountRight` is about the list. `current_total`, which is changed without the
  mutex, belongs to the thread of the event loop and is checked in `client_total`.
* `FdAccounting` is checked with messages of one unit; messages written in pieces
  are in `client_built`, and in the proof.
* `IsPrivateMemory` allows the loss in `mem_realloc` described in section 2.

## 5. Not modelled, and the plan

Not modelled:

* `fastlz.c`: third-party, only declared; both calls are compiled out.
* `ip_2_str` (formatting by `inet_ntop`), `mem_check_mod_count` (reads a list under
  the lock), the printed statistics and `g_qps`, `timeout_callback` (empty) and
  `event_set_timeout` (its call is a comment).
* The contents of messages; IPv6 against IPv4 sockets; the limits of the pool
  that are compiled out (`connection.c:66`, `68-69`).
* Several connections of the server with their bytes: they share the table
  (`Server`) and nothing of their streams (`Receiver`).
* The benchmark patches, the build files, and `nglog_log_entry.h`, which nothing
  includes.

Nothing of the plan is left. What could be added is a proof that `Client`'s pool,
which is a sequence there, may be replaced by `PoolList`: `PoolIsQueue` says so of
the pool alone, the two modules are not composed.
