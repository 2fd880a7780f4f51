------------------------------ MODULE Transfer ------------------------------
(***************************************************************************)
(* One message from end to end: a transaction of the client (client.c,     *)
(* the output half of stream.c), TCP, and the receiving half of the server *)
(* (Receiver).  Both ends time out by their own clocks, either side may    *)
(* close while bytes are under way, the network may reset the connection,  *)
(* the server may fail to serve it or die.                                 *)
(*                                                                         *)
(* What the client writes is counted: TCP keeps the bytes in order, and    *)
(* Receiver identifies them by their positions.                            *)
(***************************************************************************)
EXTENDS Receiver

CONSTANTS
  MsgLen,      \* compress_ret, the length of every message (512)
  Window       \* bytes TCP takes from the client before they have arrived

ASSUME TransferAssumption ==
  /\ MsgLen \in Lengths
  /\ ~Refused(MsgLen)
  /\ Window \in Nat \ {0}
  /\ MaxSent >= HdrLen + MsgLen

VARIABLES
  tx,          \* the transaction: "connecting", "open" or "closed"
  unsent,      \* buf_data_size(s->in_buf) at the client
  idle,        \* now - last_active of the client's slot, up to Timeout
  ending,      \* history: the transaction ended with in_buf empty, or not
  link,        \* "none", "queued" for accept(), "served", or "dropped" by it
  up           \* the server process runs

client == <<tx, unsent, idle, ending>>
tvars == <<vars, client, link, up>>

Whole == HdrLen + MsgLen
Written == Whole - unsent

TInit ==
  /\ Init
  /\ decl = MsgLen
  /\ tx = "connecting"
  /\ unsent = Whole
  /\ idle = 0
  /\ ending = "none"
  /\ link = "none"
  /\ up = TRUE

-----------------------------------------------------------------------------
(* The client. *)

\* release_stream_from_connect, close_stream: the socket is closed.
EndTransaction(how) ==
  /\ tx' = "closed"
  /\ ending' = how
  /\ idle' = idle

\* connect_cb.
Connects ==
  /\ tx = "connecting"
  /\ up
  /\ tx' = "open"
  /\ idle' = 0
  /\ link' = "queued"
  /\ UNCHANGED <<vars, unsent, ending, up>>

ConnectFails ==
  /\ tx = "connecting"
  /\ EndTransaction("failed")
  /\ UNCHANGED <<vars, unsent, link, up>>

\* Whether the transaction is finished by writing n bytes; a fault: in_buf is
\* looked at before the bytes are written.
FinishedBefore(n) == unsent = 0
Finished(n) == unsent = n

\* data_transfer with room in the socket: stream_flush_out writes what fits.
Writes ==
  /\ tx = "open"
  /\ \E n \in 1 .. unsent :
       /\ Written + n - sent <= Window
       /\ unsent' = unsent - n
       /\ IF Finished(n) THEN EndTransaction("written")
          ELSE tx' = tx /\ ending' = ending /\ idle' = 0
  /\ UNCHANGED <<vars, link, up>>

\* The server has closed the connection, or it was reset: write() fails, or
\* epoll reports input, which data_transfer takes for an error.
PeerGone ==
  /\ tx = "open"
  /\ pc # "open" \/ end = "reset" \/ ~up
  /\ EndTransaction("failed")
  /\ UNCHANGED <<vars, unsent, link, up>>

\* expires_house_keeping at the client.
ClientTimesOut ==
  /\ tx # "closed"
  /\ idle >= Timeout
  /\ EndTransaction("failed")
  /\ UNCHANGED <<vars, unsent, link, up>>

ClientTick ==
  /\ tx # "closed"
  /\ idle < Timeout
  /\ idle' = idle + 1
  /\ UNCHANGED <<vars, tx, unsent, ending, link, up>>

-----------------------------------------------------------------------------
(* TCP. *)

\* Everything the client has written, and will write, has arrived.
Drained == tx = "closed" /\ sent = Written

Carries ==
  /\ up
  /\ sent < Written
  /\ Arrives
  /\ UNCHANGED <<client, link, up>>

\* close() with bytes under way lets them arrive first.
CarriesEnd ==
  /\ up
  /\ link # "none"
  /\ Drained
  /\ Ends
  /\ end' = "fin"
  /\ UNCHANGED <<client, link, up>>

CarriesReset ==
  /\ up
  /\ link # "none"
  /\ Ends
  /\ end' = "reset"
  /\ UNCHANGED <<client, link, up>>

-----------------------------------------------------------------------------
(* The server. *)

\* accept_conn; with a full table the connection is not registered.
Accepted ==
  /\ link = "queued"
  /\ up
  /\ link' \in {"served", "dropped"}
  /\ UNCHANGED <<vars, client, up>>

Serving == up /\ link = "served"

ServerCallback == Serving /\ Callback /\ UNCHANGED <<client, link, up>>
ServerTimesOut == Serving /\ TimesOut /\ UNCHANGED <<client, link, up>>
ServerTick     == Serving /\ Tick /\ UNCHANGED <<client, link, up>>

\* The process ends, by an assertion that fails for another connection.
Dies ==
  /\ up
  /\ up' = FALSE
  /\ UNCHANGED <<vars, client, link>>

-----------------------------------------------------------------------------

ClientSteps == Connects \/ ConnectFails \/ Writes \/ PeerGone \/ ClientTimesOut

TNext ==
  \/ ClientSteps \/ ClientTick
  \/ Carries \/ CarriesEnd \/ CarriesReset
  \/ Accepted \/ ServerCallback \/ ServerTimesOut \/ ServerTick \/ Dies

TSpec == TInit /\ [][TNext]_tvars

\* Each loop handles what it is told and looks for time-outs, and each clock
\* runs.  Of TCP nothing is asked, not even that bytes arrive.
TFairSpec ==
  /\ TSpec
  /\ WF_tvars(ClientTimesOut) /\ WF_tvars(ClientTick)
  /\ WF_tvars(Accepted) /\ WF_tvars(ServerCallback)
  /\ WF_tvars(ServerTimesOut) /\ WF_tvars(ServerTick)

-----------------------------------------------------------------------------
(* Properties. *)

\* The variables have their types.
TransferTypeOK ==
  /\ TypeOK
  /\ tx \in {"connecting", "open", "closed"}
  /\ unsent \in 0 .. Whole
  /\ idle \in 0 .. Timeout
  /\ ending \in {"none", "written", "failed"}
  /\ link \in {"none", "queued", "served", "dropped"}
  /\ up \in BOOLEAN

\* Nothing more can come of the message: the server has closed the connection,
\* died, or never took it over.
Over ==
  \/ pc # "open"
  \/ ~up
  \/ link = "dropped"
  \/ link = "none" /\ tx = "closed"

Promise == INSTANCE Delivery
  WITH Message <- Bytes(HdrLen, Whole), log <- works, over <- Over

\* The two programs and TCP keep the promise: the message is handed over at
\* most once, whole, and not after its transaction has failed.
KeepsPromise == Promise!Spec

\* And both sides come to an end, whatever TCP does.
KeepsPromiseFairly == Promise!FairSpec

\* A connection that the server has left without handing the message over was
\* lost to a reset, to the server's time-out or to a header that came in two
\* pieces, unless the client had given it up: a message that was written, to a
\* server that runs and served it, is lost in no other way.
LossExplained ==
  pc # "open" /\ works = <<>> =>
    end = "reset" \/ age = Timeout \/ split \/ ending = "failed"

\* The client never sends what aborts the server, except that TCP may cut its
\* header in two; then none of its message has been taken over.
OnlySplitAborts == pc = "aborted" => split /\ s.work = <<>>

\* Each side's view of the bytes: none is read that has not arrived, and none
\* arrives that was not written; the end of the stream is seen only after all
\* of them.
EndAfterBytes ==
  /\ taken <= sent /\ sent <= Written
  /\ end = "fin" => sent = Written /\ tx = "closed"

\* The invariant from which these follow.
TransferInv ==
  /\ TransferTypeOK
  /\ ReceiverInv
  /\ decl = MsgLen
  /\ EndAfterBytes
  /\ ending = "none" <=> tx # "closed"
  /\ ending = "written" <=> unsent = 0
  /\ link = "none" => unsent = Whole /\ end = "no"
  /\ tx = "connecting" <=> link = "none" /\ tx # "closed"
  /\ link # "served" => pc = "open" /\ taken = 0
  /\ works # <<>> => unsent = 0
  /\ LossExplained
  /\ OnlySplitAborts

=============================================================================
