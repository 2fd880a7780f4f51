------------------------------ MODULE Receiver ------------------------------
(***************************************************************************)
(* The receiving half of jujube: what server.c does with one connection it *)
(* has accepted (data_transfer, collect_data, alloc_work_buff), the input  *)
(* half of the stream (stream_feed_out) and the buffers (buf.c).           *)
(*                                                                         *)
(* A peer sends a length of HdrLen bytes and then a message.  TCP delivers *)
(* the bytes in order but in pieces of any size.  A byte is identified by  *)
(* its position in what the peer sends, so that a buffer is a sequence of  *)
(* positions and "the message" is the positions after the header.          *)
(*                                                                         *)
(* Connections share nothing but the process: one is modelled.  The        *)
(* callback never watches for EPOLLOUT, because nothing is ever put into   *)
(* in_buf here.                                                            *)
(***************************************************************************)
EXTENDS Integers, Sequences

CONSTANTS
  HdrLen,      \* sizeof(uint64_t)
  LogMax,      \* LOG_MAX_LEN, the initial size of work_buf
  OutLen,      \* mid_http_buf_size, the size of out_buf
  Timeout,     \* seconds of silence after which a stream is closed (10)
  Lengths,     \* lengths a peer may declare
  MaxSent      \* bound: bytes a peer sends on one connection

ASSUME ReceiverAssumption ==
  /\ HdrLen \in Nat \ {0}
  /\ LogMax \in Nat \ {0}
  /\ OutLen \in Nat /\ OutLen >= HdrLen
  /\ Timeout \in Nat \ {0}
  /\ Lengths \subseteq Nat
  /\ MaxSent \in Nat

VARIABLES
  decl,        \* the length the peer's header declares
  sent,        \* bytes that have arrived
  end,         \* "no", or how the peer ended: "fin", "reset"
  taken,       \* bytes that have been read
  s,           \* the tcp_stream
  pc,          \* "open", "closed", or "aborted" by the assertion
  age,         \* now - last_active, up to Timeout
  works,       \* history: what do_work was called with
  split        \* history: a read has returned less than the header

vars == <<decl, sent, end, taken, s, pc, age, works, split>>

\* out_buf and work_buf by their contents, cap is work_buf->buf_len.
StreamType ==
  [out : Seq(Nat), work : Seq(Nat), cap : 0 .. LogMax + OutLen,
   left : Int, recved : Nat, len : Nat]

FreshStream ==
  [out |-> <<>>, work |-> <<>>, cap |-> 0, left |-> 0, recved |-> 0, len |-> 0]

Init ==
  /\ decl \in Lengths
  /\ sent = 0
  /\ end = "no"
  /\ taken = 0
  /\ s = FreshStream
  /\ pc = "open"
  /\ age = 0
  /\ works = <<>>
  /\ split = FALSE

-----------------------------------------------------------------------------
(* Buffers and the stream. *)

\* The bytes between two positions of what the peer sends.
Bytes(from, to) == [k \in 1 .. to - from |-> from + k]

\* stream_feed_out: one read() of what has arrived, into an empty out_buf.
Chunk == IF sent - taken < OutLen THEN sent - taken ELSE OutLen
Incoming == Bytes(taken, taken + Chunk)

Filled(b) == [out |-> b, work |-> s.work, cap |-> s.cap, left |-> s.left,
              recved |-> s.recved, len |-> s.len]

\* buf_pick(b, n), and a fault: the length is reduced, the bytes not moved.
BufPickStays(b, n) == SubSeq(b, 1, Len(b) - n)
BufPick(b, n) == SubSeq(b, n + 1, Len(b))

\* buf_put makes room by n bytes when there is not enough; a fault: the room
\* taken by what is already there is forgotten.
GrownTotal(cap, used, n) == IF cap < n THEN cap + n ELSE cap
Grown(cap, used, n) == IF cap - used < n THEN cap + n ELSE cap

\* A fault of collect_data: out_buf is not cleared.
CollectDataNoClear(t) ==
  [out |-> t.out, work |-> t.work \o t.out,
   cap |-> Grown(t.cap, Len(t.work), Len(t.out)),
   left |-> t.left - Len(t.out), recved |-> t.recved + Len(t.out), len |-> t.len]

\* collect_data, up to its test of reply_body_size_left.
CollectData(t) ==
  [out |-> <<>>, work |-> t.work \o t.out,
   cap |-> Grown(t.cap, Len(t.work), Len(t.out)),
   left |-> t.left - Len(t.out), recved |-> t.recved + Len(t.out), len |-> t.len]

\* A fault: the header is left where it is.
WithHeaderKept(b, length) ==
  [out |-> b, work |-> <<>>, cap |-> LogMax,
   left |-> length, recved |-> 0, len |-> length]

\* The stream once its header, of the given length, has been taken off and
\* alloc_work_buff has been called.
WithHeader(b, length) ==
  [out |-> BufPick(b, HdrLen), work |-> <<>>, cap |-> LogMax,
   left |-> length, recved |-> 0, len |-> length]

\* Lengths that are not accepted.
Refused(length) == length > LogMax \/ length = 0

-----------------------------------------------------------------------------
(* The callback data_transfer. *)

Readable == pc = "open" /\ (taken < sent \/ end # "no")

\* close_stream: the stream is freed and the descriptor closed.
Close ==
  /\ pc' = "closed"
  /\ s' = FreshStream
  /\ UNCHANGED <<decl, sent, end, age>>

\* set_event_in_out, through eventadd, refreshes last_active.
Continue(t) ==
  /\ s' = t
  /\ age' = 0
  /\ UNCHANGED <<decl, sent, end, pc, works>>

\* assert(buf_data_size(s->out_buf) == 0) fails.  When out_buf is full,
\* set_event_in_out has not asked for input and none is reported.
Aborts ==
  /\ Readable
  /\ s.out # <<>>
  /\ Len(s.out) < OutLen
  /\ pc' = "aborted"
  /\ UNCHANGED <<decl, sent, end, taken, s, age, works, split>>

\* epoll reports a reset whether or not input is asked for, and may report it
\* alone: neither input nor output.
HungUp ==
  /\ pc = "open"
  /\ end = "reset"
  /\ Close
  /\ UNCHANGED <<taken, works, split>>

\* read() has nothing more to return, or fails; after a reset it may fail
\* while there is still data.
\* A fault: the end of the stream is taken for a read of no bytes.
ReadFailsNever ==
  /\ Readable
  /\ s.out = <<>>
  /\ taken = sent
  /\ Continue(s)
  /\ UNCHANGED <<taken, split>>
ReadFails ==
  /\ Readable
  /\ s.out = <<>>
  /\ end = "reset" \/ taken = sent
  /\ Close
  /\ UNCHANGED <<taken, works, split>>

Reads ==
  /\ Readable
  /\ s.out = <<>>
  /\ taken < sent
  /\ taken' = taken + Chunk

\* After collect_data: the message is complete, or more is needed.
Settle(t) ==
  IF t.left # 0 THEN Continue(t)
  ELSE /\ works' = IF t.recved = t.len THEN Append(works, SubSeq(t.work, 1, t.recved)) ELSE works
       /\ Close

\* Less than a header: it stays in out_buf.
HeaderShort ==
  /\ Reads
  /\ s.left = 0
  /\ Chunk < HdrLen
  /\ split' = TRUE
  /\ Continue(Filled(Incoming))

HeaderRefused ==
  /\ Reads
  /\ s.left = 0
  /\ Chunk >= HdrLen
  /\ Refused(decl)
  /\ Close
  /\ UNCHANGED <<works, split>>

\* The header, with the beginning of the message if that has arrived too.
HeaderTaken ==
  /\ Reads
  /\ s.left = 0
  /\ Chunk >= HdrLen
  /\ ~Refused(decl)
  /\ Settle(CollectData(WithHeader(Incoming, decl)))
  /\ UNCHANGED split

BodyTaken ==
  /\ Reads
  /\ s.left > 0
  /\ Settle(CollectData(Filled(Incoming)))
  /\ UNCHANGED split

\* More than the message has arrived before: reply_body_size_left is negative
\* and neither branch is taken.
ExcessKept ==
  /\ Reads
  /\ s.left < 0
  /\ Continue(Filled(Incoming))
  /\ UNCHANGED split

\* expires_house_keeping.
TimesOut ==
  /\ pc = "open"
  /\ age >= Timeout
  /\ Close
  /\ UNCHANGED <<taken, works, split>>

-----------------------------------------------------------------------------
(* The peer, the network and the clock. *)

Arrives ==
  /\ pc = "open"
  /\ end = "no"
  /\ sent < MaxSent
  /\ sent' = sent + 1
  /\ UNCHANGED <<decl, end, taken, s, pc, age, works, split>>

Ends ==
  /\ pc = "open"
  /\ end = "no"
  /\ end' \in {"fin", "reset"}
  /\ UNCHANGED <<decl, sent, taken, s, pc, age, works, split>>

Tick ==
  /\ pc = "open"
  /\ age < Timeout
  /\ age' = age + 1
  /\ UNCHANGED <<decl, sent, end, taken, s, pc, works, split>>

Callback ==
  \/ Aborts
  \/ HungUp
  \/ ReadFails
  \/ HeaderShort
  \/ HeaderRefused
  \/ HeaderTaken
  \/ BodyTaken
  \/ ExcessKept

Next == Callback \/ TimesOut \/ Arrives \/ Ends \/ Tick

Spec == Init /\ [][Next]_vars

\* The server's loop handles what epoll reports and looks for time-outs again
\* and again, and time passes.  Nothing is asked of the peer.
FairSpec == Spec /\ WF_vars(Callback) /\ WF_vars(TimesOut) /\ WF_vars(Tick)

-----------------------------------------------------------------------------
(* Properties. *)

\* The variables have their types; work_buf never grows past one out_buf more
\* than its initial size, which is far below MAX_EXT_MEM_BLOCK.
TypeOK ==
  /\ decl \in Lengths
  /\ sent \in 0 .. MaxSent
  /\ end \in {"no", "fin", "reset"}
  /\ taken \in 0 .. sent
  /\ s \in StreamType
  /\ pc \in {"open", "closed", "aborted"}
  /\ age \in 0 .. Timeout
  /\ works \in Seq(Seq(Nat))
  /\ split \in BOOLEAN

\* do_work is called at most once for a connection, with the whole message,
\* nothing but the message, in order, however TCP has cut it up.
Intact ==
  \/ works = <<>>
  \/ works = <<Bytes(HdrLen, HdrLen + decl)>> /\ ~Refused(decl)

\* A message that is accepted and has been read to its last byte and no
\* further has been passed to do_work, unless its header came in two reads.
Complete ==
  taken = HdrLen + decl /\ ~split /\ ~Refused(decl) => works # <<>>

\* What is in work_buf fits into it, and work_buf has had to be reallocated
\* ("no recommended to do this", buf.c:54) only for a peer that sends more
\* than it declares.
WorkBufFits ==
  /\ Len(s.work) <= s.cap
  /\ s.cap > LogMax => s.left < 0

\* The server is aborted only because of a header that came in two reads or of
\* bytes that follow the message.
AbortGenuine == pc = "aborted" => split \/ taken > HdrLen + decl

\* Every connection is closed in the end, or aborts the server, whatever the
\* peer does.
StreamEnds == pc = "open" ~> pc # "open"

\* The assertion of data_transfer: out_buf is empty whenever input is reported.
OutBufEmpty == pc # "aborted"

\* Why this holds: what is in the buffers are the bytes read so far, ...
Unread ==
  /\ s.len = 0 => s = Filled(Bytes(0, taken)) /\ s.left = 0 /\ s.work = <<>>
                  /\ s.cap = 0 /\ s.recved = 0 /\ taken < HdrLen /\ (taken > 0 => split)
  /\ s.len > 0 =>
       /\ s.len = decl /\ ~Refused(decl) /\ s.cap >= LogMax
       /\ s.left = decl - s.recved /\ s.left # 0
       /\ s.work = Bytes(HdrLen, HdrLen + s.recved)
       /\ taken = HdrLen + s.recved + Len(s.out)
       /\ s.out # <<>> => s.left < 0

\* ... and nothing is delivered before the connection is closed.
ReceiverInv ==
  /\ pc # "closed" => Unread /\ works = <<>>
  /\ pc = "closed" => s = FreshStream
  /\ pc = "aborted" => s.out # <<>>
  /\ Intact
  /\ Complete
  /\ WorkBufFits

=============================================================================
