---------------------------- MODULE TickleProofs ----------------------------
(***************************************************************************)
(* Proofs about the turns of the client's loop: it does not sleep over a   *)
(* call of wake_up_poll, and it starts one transaction in a second.        *)
(***************************************************************************)
EXTENDS Tickle, TLAPS

\* A call made after the turn began is in the pipe until the loop drains it.
CallsInPipe == pc \in {"due", "wait"} /\ asked => pipe > 0

\* next_time is the second after the last transaction, unless it overflowed.
NextIsAfter == started < MaxInt => next_time = started + 1

TickleInv == TypeOK /\ CallsInPipe /\ NextIsAfter

\* The conversion to an int, which line 183 of client.c leaves to the
\* compiler: a value of the type, and exact up to the last second.
LEMMA NextTimeFits ==
  ASSUME NEW t \in Nat
  PROVE  /\ NextTime(t) \in -(MaxInt + 1) .. MaxInt
         /\ t < MaxInt => NextTime(t) = t + 1
<1> DEFINE w == 2 * (MaxInt + 1)
           a == t + MaxInt + 2
<1>1. w \in Nat \ {0} /\ a \in Nat /\ MaxInt \in Nat
  BY TickleAssumption
<1>2. a % w \in 0 .. w - 1
  <2> HIDE DEF w, a
  <2> QED BY <1>1
<1>3. a < w => a % w = a
  <2> HIDE DEF w, a
  <2> QED BY <1>1
<1>4. NextTime(t) = (a % w) - (MaxInt + 1)
  BY DEF NextTime
<1>5. NextTime(t) \in -(MaxInt + 1) .. MaxInt
  <2>1. PICK r \in 0 .. w - 1 : NextTime(t) = r - (MaxInt + 1)
    BY <1>2, <1>4
  <2> QED BY <1>1, <2>1
<1>6. ASSUME t < MaxInt PROVE NextTime(t) = t + 1
  <2>1. a < w
    BY <1>1, <1>6
  <2>2. NextTime(t) = a - (MaxInt + 1)
    BY <1>3, <1>4, <2>1
  <2> QED BY <1>1, <2>2
<1> QED BY <1>5, <1>6

LEMMA TickleInit == Init => TickleInv
<1> SUFFICES ASSUME Init PROVE TickleInv
  OBVIOUS
<1> USE TickleAssumption DEF Init
<1>1. TypeOK
  <2>1. next_time \in -(MaxInt + 1) .. MaxInt
    OBVIOUS
  <2>2. read \in 0 .. MaxNow /\ pipe \in 0 .. PipeSize /\ calls \in 0 .. MaxCalls
    OBVIOUS
  <2>3. started \in -1 .. MaxNow
    OBVIOUS
  <2> QED BY <2>1, <2>2, <2>3 DEF TypeOK
<1>2. CallsInPipe
  BY DEF CallsInPipe
<1>3. NextIsAfter
  BY DEF NextIsAfter
<1> QED BY <1>1, <1>2, <1>3 DEF TickleInv

\* Every step keeps the invariant.
LEMMA TickleStep == TickleInv /\ [Next]_vars => TickleInv'
<1> SUFFICES ASSUME TickleInv, [Next]_vars PROVE TickleInv'
  OBVIOUS
<1> USE TickleAssumption DEF TickleInv, TypeOK, CallsInPipe, NextIsAfter,
                             clock, callers, turn
<1>1. CASE TurnBegins              BY <1>1 DEF TurnBegins
<1>2. CASE StartsTransaction
  <2>1. /\ NextTime(read) \in -(MaxInt + 1) .. MaxInt
        /\ read < MaxInt => NextTime(read) = read + 1
    BY NextTimeFits
  <2> QED BY <1>2, <2>1 DEF StartsTransaction
<1>3. CASE NothingDue              BY <1>3 DEF NothingDue
<1>4. CASE Wakes                   BY <1>4 DEF Wakes
<1>5. CASE WakesForNothing         BY <1>5 DEF WakesForNothing
<1>6. CASE HandlesSocket           BY <1>6 DEF HandlesSocket
<1>7. CASE HandlesTickle           BY <1>7 DEF HandlesTickle
<1>8. CASE DrainsByte              BY <1>8 DEF DrainsByte
<1>9. CASE Drained                 BY <1>9 DEF Drained
<1>10. CASE BatchDone              BY <1>10 DEF BatchDone
<1>11. CASE SetUp                  BY <1>11 DEF SetUp
<1>12. CASE WaitFails              BY <1>12 DEF WaitFails
<1>13. CASE WakeUp
  <2>1. Put(pipe) \in 1 .. PipeSize
    BY DEF Put
  <2> QED BY <1>13, <2>1 DEF WakeUp
<1>14. CASE BecomesReady           BY <1>14 DEF BecomesReady
<1>15. CASE Tick                   BY <1>15 DEF Tick
<1>16. CASE SetBack                BY <1>16 DEF SetBack
<1>17. CASE UNCHANGED vars         BY <1>17 DEF vars
<1> QED
  BY <1>1, <1>2, <1>3, <1>4, <1>5, <1>6, <1>7, <1>8, <1>9, <1>10, <1>11,
     <1>12, <1>13, <1>14, <1>15, <1>16, <1>17 DEF Next, Loop

LEMMA TickleInvariant == Spec => []TickleInv
BY TickleInit, TickleStep, PTL DEF Spec

\* The loop never sleeps over a call of wake_up_poll (comm.c:65), for every
\* size of the pipe, number of calls and threads.
THEOREM NeverSleepsOwed == Spec => []NoSleepOwed
<1>1. TickleInv => NoSleepOwed
  BY DEF TickleInv, CallsInPipe, NoSleepOwed
<1> QED BY <1>1, TickleInvariant, PTL

\* create_transaction is called at most once in a second (client.c:171-184),
\* wherever the clock is set, as long as next_time does not overflow.
THEOREM StartsArePaced == Spec => Paced
<1>1. TickleInv /\ [Next]_vars =>
        [StartsTransaction => read > started \/ started >= MaxInt]_vars
  BY TickleAssumption DEF TickleInv, TypeOK, NextIsAfter, StartsTransaction
<1> QED BY <1>1, TickleInvariant, PTL DEF Spec, Paced

=============================================================================
