--------------------------- MODULE TransferProofs ---------------------------
(***************************************************************************)
(* The client, TCP and the server keep the promise of Delivery, for every  *)
(* length of a message, every window and every way in which both ends and  *)
(* the network interleave.  What the server does with the bytes is taken   *)
(* from ReceiverProofs.                                                    *)
(***************************************************************************)
EXTENDS Transfer, ReceiverProofs

\* What a callback of the server comes to: it goes on, hands the message over,
\* closes the connection without it, or aborts.
GoesOn   == pc' = "open" /\ works' = <<>>
HandsOver == pc' = "closed" /\ works' = <<Bytes(HdrLen, Whole)>> /\ unsent = 0
GivesUp  == /\ pc' = "closed" /\ works' = <<>>
            /\ end = "reset" \/ split' \/ ending = "failed"
Fails    == pc' = "aborted" /\ works' = <<>> /\ split' /\ s'.work = <<>>

-----------------------------------------------------------------------------
(* The server. *)

\* The counters are numbers, in order.
LEMMA Numbers ==
  ASSUME TransferInv
  PROVE  /\ HdrLen \in Nat \ {0} /\ MsgLen \in Nat \ {0}
         /\ Whole \in Nat /\ Whole = HdrLen + MsgLen
         /\ taken \in Nat /\ sent \in Nat /\ unsent \in 0 .. Whole
         /\ Written \in Nat /\ Written = Whole - unsent
         /\ taken <= sent /\ sent <= Written
         /\ decl = MsgLen /\ ~Refused(decl)
<1>1. HdrLen \in Nat \ {0} /\ MsgLen \in Nat \ {0} /\ ~Refused(MsgLen)
  BY TransferAssumption, ReceiverAssumption DEF Refused
<1>2. Whole \in Nat /\ Whole = HdrLen + MsgLen
  BY <1>1 DEF Whole
<1>3. sent \in Nat /\ taken \in Nat
  BY ReceiverAssumption DEF TransferInv, TransferTypeOK, TypeOK
<1>4. unsent \in 0 .. Whole
  BY DEF TransferInv, TransferTypeOK
<1>5. Written \in Nat /\ Written = Whole - unsent
  BY <1>2, <1>4 DEF Written
<1>6. taken <= sent /\ sent <= Written /\ decl = MsgLen
  BY DEF TransferInv, EndAfterBytes
<1> QED BY <1>1, <1>2, <1>3, <1>4, <1>5, <1>6

\* What Receiver does keeps its invariant.
LEMMA ReceiverKept ==
  ASSUME TransferInv, [Next]_vars
  PROVE  IInv /\ TypeOK' /\ ReceiverInv'
<1>1. IInv
  BY DEF TransferInv, TransferTypeOK, IInv
<1> QED BY <1>1, ReceiverStep DEF IInv

\* A callback that puts bytes into work_buf goes on, or hands over the message,
\* of which the client has then written the last byte.
LEMMA CollectsOutcome ==
  ASSUME TransferInv, Collects, UNCHANGED <<decl, sent>>, IInv'
  PROVE  GoesOn \/ HandsOver
<1>1. PICK t : Collected(t, taken') /\ Settle(t)
  BY DEF Collects
<1>2. pc = "open" /\ works = <<>> /\ taken' <= sent
  BY Numbers DEF Collects, TransferInv, ReceiverInv
<1>3. CASE t.left # 0
  BY <1>1, <1>2, <1>3 DEF Settle, Continue, GoesOn
<1>4. CASE t.left = 0
  <2>1. t.recved = decl /\ t.len = decl /\ taken' = HdrLen + decl
    BY <1>1, <1>4, Numbers DEF Collected
  <2>2. pc' = "closed" /\ works' # <<>>
    BY <1>1, <1>2, <1>4, <2>1 DEF Settle, Close
  <2>3. works' = <<Bytes(HdrLen, Whole)>>
    BY <2>2, Numbers DEF IInv, ReceiverInv, Intact
  <2>4. unsent = 0
    BY <1>2, <2>1, Numbers
  <2> QED BY <2>2, <2>3, <2>4 DEF HandsOver
<1> QED BY <1>3, <1>4

\* The assertion fails only for a header in two pieces: the client sends
\* nothing behind its message.
LEMMA AbortOutcome ==
  ASSUME TransferInv, Aborts
  PROVE  Fails
<1>1. Unread /\ works = <<>> /\ s.out # <<>> /\ s \in StreamType
  BY DEF TransferInv, TransferTypeOK, TypeOK, ReceiverInv, Aborts, Readable
<1>2. s.len \in Nat /\ s.recved \in Nat /\ s.out \in Seq(Nat) /\ Len(s.out) \in Nat
  BY <1>1 DEF StreamType
<1>3. s.len = 0
  <2>1. SUFFICES ASSUME s.len > 0 PROVE FALSE
    BY <1>2
  <2>2. decl - s.recved < 0 /\ taken = HdrLen + s.recved + Len(s.out)
    BY <1>1, <2>1 DEF Unread
  <2>3. taken <= sent /\ sent <= Written /\ Written <= Whole /\ Whole = HdrLen + decl
    BY Numbers
  <2>4. taken <= HdrLen + decl /\ HdrLen \in Nat /\ decl \in Nat
    BY <2>3, Numbers
  <2> QED BY <1>2, <2>2, <2>4
<1>4. s = Filled(Bytes(0, taken)) /\ s.work = <<>> /\ (taken > 0 => split)
  BY <1>1, <1>3 DEF Unread
<1>5. taken # 0
  BY <1>1, <1>4, BytesEmpty DEF Filled
<1> QED BY <1>1, <1>4, <1>5, Numbers DEF Aborts, Fails

\* The four outcomes of a callback.
LEMMA CallbackOutcome ==
  ASSUME TransferInv, Callback
  PROVE  /\ UNCHANGED <<decl, sent, end>> /\ pc = "open" /\ works = <<>>
         /\ split => split'
         /\ GoesOn \/ HandsOver \/ GivesUp \/ Fails
<1>1. pc = "open" /\ works = <<>> /\ split \in BOOLEAN
  BY DEF TransferInv, TransferTypeOK, TypeOK, ReceiverInv, Callback, Aborts, HungUp,
         ReadFails, HeaderShort, HeaderRefused, HeaderTaken, BodyTaken, ExcessKept,
         Reads, Readable
<1>2. UNCHANGED <<decl, sent, end>> /\ (split => split')
  BY DEF Callback, Aborts, HungUp, ReadFails, HeaderShort, HeaderRefused, HeaderTaken,
         BodyTaken, ExcessKept, Settle, Close, Continue
<1>3. IInv /\ IInv'
  BY ReceiverKept DEF Next, IInv
<1>4. CASE Aborts
  BY <1>1, <1>2, <1>4, AbortOutcome
<1>5. CASE HungUp
  BY <1>1, <1>2, <1>5 DEF HungUp, Close, GivesUp
<1>6. CASE ReadFails
  <2>1. pc' = "closed" /\ works' = <<>> /\ UNCHANGED split
    BY <1>1, <1>6 DEF ReadFails, Close
  <2>2. end = "reset" \/ (taken = sent /\ end = "fin")
    BY <1>6, Numbers DEF ReadFails, Readable, TransferInv, TransferTypeOK, TypeOK
  <2>3. CASE taken = sent /\ end = "fin"
    <3>1. sent = Written /\ tx = "closed"
      BY <2>3 DEF TransferInv, EndAfterBytes
    <3>2. CASE unsent = 0
      <4>1. taken = HdrLen + decl
        BY <2>3, <3>1, <3>2, Numbers
      <4>2. split
        BY <1>1, <4>1, Numbers DEF TransferInv, ReceiverInv, Complete
      <4> QED BY <1>1, <1>2, <2>1, <4>2 DEF GivesUp
    <3>3. CASE unsent # 0
      <4>1. ending = "failed"
        BY <3>1, <3>3 DEF TransferInv, TransferTypeOK
      <4> QED BY <1>1, <1>2, <2>1, <4>1 DEF GivesUp
    <3> QED BY <3>2, <3>3
  <2> QED BY <1>1, <1>2, <2>1, <2>2, <2>3 DEF GivesUp
<1>7. CASE HeaderShort
  BY <1>1, <1>7 DEF HeaderShort, Continue, GoesOn
<1>8. CASE HeaderRefused
  BY <1>8, Numbers DEF HeaderRefused
<1>9. CASE HeaderTaken
  BY <1>1, <1>2, <1>3, <1>9, HeaderCollects, CollectsOutcome
<1>10. CASE BodyTaken
  BY <1>1, <1>2, <1>3, <1>10, BodyCollects, CollectsOutcome
<1>11. CASE ExcessKept
  BY <1>1, <1>11 DEF ExcessKept, Continue, GoesOn
<1> QED BY <1>1, <1>2, <1>4, <1>5, <1>6, <1>7, <1>8, <1>9, <1>10, <1>11 DEF Callback

-----------------------------------------------------------------------------
(* The invariant. *)

\* The client does not touch the server's state.
LEMMA ServerUntouched ==
  ASSUME TransferInv, UNCHANGED vars
  PROVE  TypeOK' /\ ReceiverInv'
BY ReceiverKept

\* A transaction that ends as failed has not written everything.
LEMMA ClientOk ==
  ASSUME TransferInv, ClientSteps \/ ClientTick
  PROVE  TransferInv'
<1>1. UNCHANGED vars /\ UNCHANGED up
  BY DEF ClientSteps, ClientTick, Connects, ConnectFails, Writes, PeerGone, ClientTimesOut
<1>2. TypeOK' /\ ReceiverInv'
  BY <1>1, ServerUntouched
<1>3. UNCHANGED <<decl, sent, end, taken, s, pc, age, works, split>>
  BY <1>1 DEF vars
<1> USE Numbers, ReceiverAssumption, <1>2, <1>3
        DEF TransferInv, TransferTypeOK, EndAfterBytes, LossExplained, OnlySplitAborts,
            Written, EndTransaction
<1>4. CASE Connects
  BY <1>1, <1>4 DEF Connects
<1>5. CASE ConnectFails
  BY <1>1, <1>5 DEF ConnectFails
<1>6. CASE Writes
  <2>1. PICK n \in 1 .. unsent :
          /\ unsent' = unsent - n
          /\ IF Finished(n) THEN EndTransaction("written")
             ELSE tx' = tx /\ ending' = ending /\ idle' = 0
    BY <1>6 DEF Writes
  <2>2. tx = "open" /\ ending = "none" /\ UNCHANGED link
    BY <1>6 DEF Writes
  <2>3. unsent' \in 0 .. Whole' /\ Written' \in Nat /\ sent <= Written' /\ Whole' = Whole
    BY <2>1 DEF Whole
  <2>4. unsent = n <=> unsent' = 0
    BY <2>1
  <2>5. CASE unsent = n
    BY <1>1, <2>1, <2>2, <2>3, <2>4, <2>5 DEF Finished
  <2>6. CASE unsent # n
    BY <1>1, <2>1, <2>2, <2>3, <2>4, <2>6 DEF Finished
  <2> QED BY <2>5, <2>6
<1>7. CASE PeerGone
  BY <1>1, <1>7 DEF PeerGone
<1>8. CASE ClientTimesOut
  BY <1>1, <1>8 DEF ClientTimesOut
<1>9. CASE ClientTick
  BY <1>1, <1>9 DEF ClientTick
<1> QED BY <1>4, <1>5, <1>6, <1>7, <1>8, <1>9 DEF ClientSteps

\* No byte arrives that was not written, and the end comes after all of them.
LEMMA NetworkOk ==
  ASSUME TransferInv, Carries \/ CarriesEnd \/ CarriesReset
  PROVE  TransferInv'
<1>1. Arrives \/ Ends
  BY DEF Carries, CarriesEnd, CarriesReset
<1>2. TypeOK' /\ ReceiverInv'
  BY <1>1, ReceiverKept DEF Next
<1>3. UNCHANGED <<client, link, up>> /\ UNCHANGED <<decl, taken, s, pc, age, works, split>>
      /\ pc = "open" /\ end = "no"
  BY <1>1 DEF Carries, CarriesEnd, CarriesReset, Arrives, Ends
<1>4. UNCHANGED <<tx, unsent, idle, ending>> /\ Whole' = Whole /\ Written' = Written
  BY <1>3 DEF client, Written, Whole
<1>5. EndAfterBytes'
  <2>1. CASE Carries
    BY <1>3, <1>4, <2>1, Numbers DEF Carries, Arrives, EndAfterBytes
  <2>2. CASE CarriesEnd \/ CarriesReset
    BY <1>3, <1>4, <2>2, Numbers DEF CarriesEnd, CarriesReset, Drained, Ends, EndAfterBytes
  <2> QED BY <2>1, <2>2
<1>6. link = "none" => end' = "no"
  BY <1>3, Numbers DEF Carries, CarriesEnd, CarriesReset, Arrives
<1> QED
  BY <1>2, <1>3, <1>4, <1>5, <1>6
     DEF TransferInv, TransferTypeOK, LossExplained, OnlySplitAborts

\* What the server does with the connection and its bytes.
LEMMA ServerOk ==
  ASSUME TransferInv, Accepted \/ ServerCallback \/ ServerTimesOut \/ ServerTick \/ Dies
  PROVE  TransferInv'
<1>1. [Next]_vars
  BY DEF Accepted, ServerCallback, ServerTimesOut, ServerTick, Dies, Next
<1>2. TypeOK' /\ ReceiverInv'
  BY <1>1, ReceiverKept
<1>3. UNCHANGED <<tx, unsent, idle, ending>> /\ Whole' = Whole /\ Written' = Written
  BY DEF Accepted, ServerCallback, ServerTimesOut, ServerTick, Dies, client, Written, Whole
<1>4. CASE Accepted \/ Dies
  BY <1>2, <1>3, <1>4 DEF Accepted, Dies, vars, client, TransferInv, TransferTypeOK,
     EndAfterBytes, LossExplained, OnlySplitAborts
<1>5. CASE ServerCallback
  <2>1. Callback /\ link = "served" /\ UNCHANGED <<link, up>>
    BY <1>5 DEF ServerCallback, Serving
  <2>2. /\ UNCHANGED <<decl, sent, end>> /\ pc = "open" /\ works = <<>>
        /\ split => split'
        /\ GoesOn \/ HandsOver \/ GivesUp \/ Fails
    BY <2>1, CallbackOutcome
  <2>3. EndAfterBytes'
    <3>1. taken' <= sent'
      BY <1>2, <2>2, Numbers DEF TypeOK
    <3> QED BY <1>3, <2>2, <3>1 DEF TransferInv, EndAfterBytes
  <2>4. works' # <<>> => unsent' = 0
    BY <1>3, <2>2 DEF GoesOn, HandsOver, GivesUp, Fails
  <2>5. LossExplained'
    BY <1>3, <2>2 DEF GoesOn, HandsOver, GivesUp, Fails, LossExplained
  <2>6. OnlySplitAborts'
    BY <2>2 DEF GoesOn, HandsOver, GivesUp, Fails, OnlySplitAborts
  <2> QED BY <1>2, <1>3, <2>1, <2>2, <2>3, <2>4, <2>5, <2>6 DEF TransferInv, TransferTypeOK
<1>6. CASE ServerTimesOut
  <2>1. /\ pc' = "closed" /\ UNCHANGED <<decl, sent, end, age, taken, works, split, link, up>>
        /\ pc = "open" /\ age >= Timeout /\ link = "served"
    BY <1>6 DEF ServerTimesOut, Serving, TimesOut, Close
  <2>2. age' = Timeout
    BY <2>1, ReceiverAssumption DEF TransferInv, TransferTypeOK, TypeOK
  <2> QED BY <1>2, <1>3, <2>1, <2>2 DEF TransferInv, TransferTypeOK, EndAfterBytes,
             LossExplained, OnlySplitAborts
<1>7. CASE ServerTick
  <2>1. /\ UNCHANGED <<decl, sent, end, taken, s, pc, works, split, link, up>>
        /\ pc = "open" /\ link = "served"
    BY <1>7 DEF ServerTick, Serving, Tick
  <2> QED BY <1>2, <1>3, <2>1 DEF TransferInv, TransferTypeOK, EndAfterBytes,
             LossExplained, OnlySplitAborts
<1> QED BY <1>4, <1>5, <1>6, <1>7

\* Before anything has happened.
LEMMA TransferStart == TInit => TransferInv
<1> SUFFICES ASSUME TInit PROVE TransferInv
  OBVIOUS
<1>1. IInv /\ pc = "open" /\ works = <<>> /\ taken = 0 /\ sent = 0 /\ end = "no"
  BY ReceiverStart DEF TInit, Init
<1>2. Whole \in Nat \ {0}
  BY TransferAssumption, ReceiverAssumption DEF Whole
<1>3. unsent \in 0 .. Whole /\ unsent # 0 /\ idle \in 0 .. Timeout /\ sent <= Written
  BY <1>1, <1>2, ReceiverAssumption DEF TInit, Written
<1>4. TransferTypeOK
  BY <1>1, <1>3 DEF TransferTypeOK, IInv, TInit
<1> QED BY <1>1, <1>3, <1>4 DEF TransferInv, TInit, IInv, EndAfterBytes, LossExplained,
           OnlySplitAborts

LEMMA TransferStep == TransferInv /\ [TNext]_tvars => TransferInv'
<1> SUFFICES ASSUME TransferInv, [TNext]_tvars PROVE TransferInv'
  OBVIOUS
<1>1. CASE UNCHANGED tvars
  <2>1. UNCHANGED vars /\ UNCHANGED <<tx, unsent, idle, ending, link, up>>
    BY <1>1 DEF tvars, client
  <2>2. TypeOK' /\ ReceiverInv'
    BY <2>1, ServerUntouched
  <2> QED BY <2>1, <2>2 DEF vars, TransferInv, TransferTypeOK, EndAfterBytes, Written,
             Whole, LossExplained, OnlySplitAborts
<1> QED BY <1>1, ClientOk, NetworkOk, ServerOk DEF TNext

-----------------------------------------------------------------------------
(* The refinement: each step is one of Delivery, or leaves its variables. *)

\* A step of the client writes the message, or fails it; either may find the
\* server gone already.
LEMMA ClientRefines ==
  ASSUME TransferInv, ClientSteps \/ ClientTick
  PROVE  [Promise!Next]_(Promise!vars)
<1>1. UNCHANGED <<pc, works, up>>
  BY DEF ClientSteps, ClientTick, Connects, ConnectFails, Writes, PeerGone,
         ClientTimesOut, vars
<1>2. CASE Connects
  <2>1. link = "none" /\ link' = "queued" /\ tx # "closed" /\ UNCHANGED ending
    BY <1>2 DEF Connects, TransferInv
  <2>2. Over' = Over
    BY <1>1, <2>1 DEF Over
  <2> QED BY <1>1, <2>1, <2>2 DEF Promise!vars
<1>3. CASE Writes
  <2>1. link # "none" /\ UNCHANGED link /\ ending = "none"
    BY <1>3 DEF Writes, TransferInv
  <2>2. Over' = Over
    BY <1>1, <2>1 DEF Over
  <2>3. UNCHANGED ending \/ ending' = "written"
    BY <1>3 DEF Writes, EndTransaction
  <2> QED BY <1>1, <2>1, <2>2, <2>3 DEF Promise!vars, Promise!Next, Promise!Write
<1>4. CASE ConnectFails \/ PeerGone \/ ClientTimesOut
  <2>1. ending = "none" /\ ending' = "failed" /\ UNCHANGED link
    BY <1>4 DEF ConnectFails, PeerGone, ClientTimesOut, EndTransaction, TransferInv
  <2>2. tx' = "closed"
    BY <1>4 DEF ConnectFails, PeerGone, ClientTimesOut, EndTransaction
  <2>3. Over' \in {Over, TRUE}
    BY <1>1, <2>1, <2>2 DEF Over
  <2> QED BY <1>1, <2>1, <2>3 DEF Promise!Next, Promise!Fail
<1>5. CASE ClientTick
  BY <1>1, <1>5 DEF ClientTick, Over, Promise!vars
<1> QED BY <1>2, <1>3, <1>4, <1>5 DEF ClientSteps

\* TCP decides nothing by itself.
LEMMA NetworkRefines ==
  ASSUME TransferInv, Carries \/ CarriesEnd \/ CarriesReset
  PROVE  [Promise!Next]_(Promise!vars)
<1>1. UNCHANGED <<tx, ending, works, pc, up, link>>
  BY DEF Carries, CarriesEnd, CarriesReset, Arrives, Ends, client
<1> QED BY <1>1 DEF Over, Promise!vars

\* The server hands the message over after it has been written, or loses it.
LEMMA ServerRefines ==
  ASSUME TransferInv, Accepted \/ ServerCallback \/ ServerTimesOut \/ ServerTick \/ Dies
  PROVE  [Promise!Next]_(Promise!vars)
<1>1. UNCHANGED <<tx, ending>>
  BY DEF Accepted, ServerCallback, ServerTimesOut, ServerTick, Dies, client
<1>2. CASE Accepted
  <2>1. UNCHANGED works /\ pc = "open" /\ pc' = "open" /\ up /\ up' /\ link = "queued"
        /\ link' \in {"served", "dropped"}
    BY <1>2 DEF Accepted, TransferInv, vars
  <2>2. ~Over
    BY <2>1 DEF Over
  <2>3. CASE link' = "served"
    <3>1. ~Over'
      BY <2>1, <2>3 DEF Over
    <3> QED BY <1>1, <2>1, <2>2, <3>1 DEF Promise!vars, Over
  <2>4. CASE link' = "dropped"
    <3>1. Over'
      BY <2>4 DEF Over
    <3> QED BY <1>1, <2>1, <2>2, <3>1 DEF Promise!Next, Promise!Lose, Over
  <2> QED BY <2>1, <2>3, <2>4
<1>3. CASE ServerCallback
  <2>1. Callback /\ link = "served" /\ up /\ UNCHANGED <<link, up>>
    BY <1>3 DEF ServerCallback, Serving
  <2>2. pc = "open" /\ works = <<>> /\ (GoesOn \/ HandsOver \/ GivesUp \/ Fails)
    BY <2>1, CallbackOutcome
  <2>3. ~Over
    BY <2>1, <2>2 DEF Over
  <2>4. CASE GoesOn
    <3>1. ~Over'
      BY <2>1, <2>4 DEF GoesOn, Over
    <3> QED BY <1>1, <2>2, <2>3, <2>4, <3>1 DEF GoesOn, Promise!vars, Over
  <2>5. CASE HandsOver
    <3>1. ending = "written" /\ Over' /\ works' = <<Bytes(HdrLen, Whole)>>
      BY <2>5 DEF HandsOver, TransferInv, Over
    <3> QED BY <1>1, <2>3, <3>1 DEF Promise!Next, Promise!Deliver, Over
  <2>6. CASE GivesUp \/ Fails
    <3>1. Over' /\ works' = works
      BY <2>2, <2>6 DEF GivesUp, Fails, Over
    <3> QED BY <1>1, <2>3, <3>1 DEF Promise!Next, Promise!Lose, Over
  <2> QED BY <2>2, <2>4, <2>5, <2>6
<1>4. CASE ServerTimesOut
  <2>1. /\ UNCHANGED works /\ pc = "open" /\ pc' = "closed" /\ up /\ link = "served"
    BY <1>4 DEF ServerTimesOut, Serving, TimesOut, Close
  <2>2. ~Over /\ Over'
    BY <2>1 DEF Over
  <2> QED BY <1>1, <2>1, <2>2 DEF Promise!Next, Promise!Lose, Over
<1>5. CASE ServerTick
  <2>1. UNCHANGED <<works, pc, up, link>>
    BY <1>5 DEF ServerTick, Tick
  <2> QED BY <1>1, <2>1 DEF Over, Promise!vars
<1>6. CASE Dies
  <2>1. UNCHANGED works /\ Over' /\ Over \in BOOLEAN
    BY <1>6 DEF Dies, Over, vars
  <2> QED BY <1>1, <2>1 DEF Over, Promise!vars, Promise!Next, Promise!Lose
<1> QED BY <1>2, <1>3, <1>4, <1>5, <1>6

-----------------------------------------------------------------------------
(* The theorems. *)

\* The invariant of a message on its way from end to end: what each side knows
\* of the bytes, why a message can be lost (LossExplained), and that the
\* client's messages abort the server only when TCP cuts a header in two.
THEOREM TransferInvariant == TSpec => []TransferInv
BY TransferStart, TransferStep, PTL DEF TSpec

\* The two programs and TCP keep the promise: the message is handed to do_work
\* (server.c) at most once, whole, after its transaction (client.c) has ended
\* with everything written, and never after one that failed.
THEOREM PromiseIsKept == TSpec => KeepsPromise
<1>1. TInit => Promise!Init
  BY DEF TInit, Init, Over, Promise!Init
<1>2. TransferInv /\ [TNext]_tvars => [Promise!Next]_(Promise!vars)
  <2> SUFFICES ASSUME TransferInv, [TNext]_tvars PROVE [Promise!Next]_(Promise!vars)
    OBVIOUS
  <2>1. CASE UNCHANGED tvars
    BY <2>1 DEF tvars, client, vars, Over, Promise!vars
  <2> QED BY <2>1, ClientRefines, NetworkRefines, ServerRefines DEF TNext
<1> QED BY <1>1, <1>2, TransferInvariant, PTL DEF TSpec, KeepsPromise, Promise!Spec

=============================================================================
