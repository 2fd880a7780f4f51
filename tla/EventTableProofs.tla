-------------------------- MODULE EventTableProofs --------------------------
(* What the functions of event.c do to a well-typed table, for any number   *)
(* of slots: lemmas for the proofs about the programs that call them.       *)
EXTENDS EventTable, TLAPS

-----------------------------------------------------------------------------
(* eventadd and eventdel. *)

\* eventadd keeps the table well-typed.
LEMMA EventAddType ==
  ASSUME TableTypeOK,
         NEW i \in Slots, NEW e \in SlotType, NEW mask \in SUBSET Bits,
         EventAdd(i, e, mask)
  PROVE  TableTypeOK'
<1>1. ev' \in [Slots -> SlotType]
  <2>1. Registered(e) \in SlotType
    BY TableAssumption DEF SlotType, Registered
  <2> QED BY <2>1 DEF EventAdd, TableTypeOK
<1>2. interest' \in [Fds -> InterestType]
  <2>1. [slot |-> i, mask |-> mask] \in InterestType
    BY DEF InterestType
  <2> QED BY <2>1 DEF EventAdd, EpollAdd, EpollMod, TableTypeOK
<1> QED BY <1>1, <1>2 DEF TableTypeOK

\* So do eventdel and close.
LEMMA EventDelType ==
  ASSUME TableTypeOK, NEW S, NEW closed, EventDel(S, closed)
  PROVE  TableTypeOK'
<1>1. ASSUME NEW i \in Slots PROVE [ev[i] EXCEPT !.status = 0] \in SlotType
  BY DEF TableTypeOK, SlotType
<1>2. ev' \in [Slots -> SlotType]
  BY <1>1 DEF EventDel, TableTypeOK
<1>3. interest' \in [Fds -> InterestType]
  BY DEF EventDel, TableTypeOK, InterestType
<1> QED BY <1>2, <1>3 DEF TableTypeOK

\* What eventdel and close do when they are given slots and their descriptors.
LEMMA EventDelEffect ==
  ASSUME TableTypeOK, NEW S \in SUBSET Live, NEW fds, EventDel(S, fds)
  PROVE  /\ Live' = Live \ S
         /\ \A i \in Live \ S : ev'[i] = ev[i]
         /\ \A i \in Slots : ev'[i].fd = ev[i].fd /\ ev'[i].jc = ev[i].jc /\ ev'[i].cb = ev[i].cb
<1>1. \A i \in Slots : ev'[i] = IF i \in S THEN [ev[i] EXCEPT !.status = 0] ELSE ev[i]
  BY DEF EventDel
<1>2. ASSUME NEW i \in Slots
      PROVE  LET e == [ev[i] EXCEPT !.status = 0]
             IN e.status = 0 /\ e.fd = ev[i].fd /\ e.jc = ev[i].jc /\ e.cb = ev[i].cb
  BY DEF TableTypeOK, SlotType
<1>3. \A i \in Slots : ev'[i].status = 1 <=> i \in Live \ S
  <2> TAKE i \in Slots
  <2>1. CASE i \in S
    <3>1. ev'[i].status = 0
      BY <2>1, <1>1, <1>2
    <3> QED BY <2>1, <3>1
  <2>2. CASE i \notin S
    BY <2>2, <1>1 DEF Live
  <2> QED BY <2>1, <2>2
<1>4. \A i \in Slots : ev'[i].fd = ev[i].fd /\ ev'[i].jc = ev[i].jc /\ ev'[i].cb = ev[i].cb
  BY <1>1, <1>2
<1> QED BY <1>1, <1>3, <1>4 DEF Live

-----------------------------------------------------------------------------
(* Time. *)

\* A second that passes changes nothing of a slot but its age.
LEMMA OlderEffect ==
  ASSUME TableTypeOK, ev' = [i \in Slots |-> Older(i)]
  PROVE  /\ ev' \in [Slots -> SlotType]
         /\ \A i \in Slots : /\ ev'[i].fd = ev[i].fd /\ ev'[i].jc = ev[i].jc
                            /\ ev'[i].cb = ev[i].cb /\ ev'[i].status = ev[i].status
         /\ Live' = Live
<1>1. ASSUME NEW i \in Slots
      PROVE  /\ ev'[i] \in SlotType
             /\ ev'[i].fd = ev[i].fd /\ ev'[i].jc = ev[i].jc
             /\ ev'[i].cb = ev[i].cb /\ ev'[i].status = ev[i].status
  <2>1. ev[i] \in SlotType
    BY DEF TableTypeOK
  <2>2. CASE ev[i].age < Timeout
    <3>1. ev[i].age + 1 \in 0 .. Timeout
      BY <2>1, <2>2, TableAssumption DEF SlotType
    <3>2. ev'[i] = ev[i] \/ ev'[i] = [ev[i] EXCEPT !.age = ev[i].age + 1]
      BY DEF Older
    <3>3. CASE ev'[i] = ev[i]
      BY <2>1, <3>3
    <3>4. CASE ev'[i] = [ev[i] EXCEPT !.age = ev[i].age + 1]
      BY <2>1, <3>1, <3>4 DEF SlotType
    <3> QED BY <3>2, <3>3, <3>4
  <2>3. CASE ~(ev[i].age < Timeout)
    BY <2>1, <2>3 DEF Older
  <2> QED BY <2>2, <2>3
<1> QED BY <1>1 DEF Live

-----------------------------------------------------------------------------
(* House-keeping. *)

\* MAX_EVENTS + 1 turns from any position reach every slot.
LEMMA VisitsAll ==
  ASSUME NEW pos \in 0 .. MaxEvents
  PROVE  Visited(pos) = Slots
<1> USE TableAssumption
<1>1. \A n \in Int : n % MaxEvents \in Slots
  BY DEF Slots
<1>2. \A i \in Slots : i % MaxEvents = i /\ (i + MaxEvents) % MaxEvents = i
  BY DEF Slots
<1>3. ASSUME NEW i \in Slots PROVE \E k \in 0 .. MaxEvents : (pos + k) % MaxEvents = i
  <2>1. CASE pos <= i
    <3>1. i - pos \in 0 .. MaxEvents /\ pos + (i - pos) = i
      BY <2>1 DEF Slots
    <3> QED BY <3>1, <1>2
  <2>2. CASE pos > i
    <3>1. i + MaxEvents - pos \in 0 .. MaxEvents /\ pos + (i + MaxEvents - pos) = i + MaxEvents
      BY <2>2 DEF Slots
    <3> QED BY <3>1, <1>2
  <2> QED BY <2>1, <2>2 DEF Slots
<1>4. ASSUME NEW k \in 0 .. MaxEvents PROVE (pos + k) % MaxEvents \in Slots
  BY <1>1
<1> QED BY <1>3, <1>4 DEF Visited

=============================================================================
