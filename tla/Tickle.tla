------------------------------- MODULE Tickle -------------------------------
(***************************************************************************)
(* The turns of the client's loop: when it starts a transaction, when it   *)
(* sleeps, and the pipe by which other threads wake it up (main_loop of    *)
(* client.c; set_wake_up_polling and wake_up_poll of comm.c).              *)
(*                                                                         *)
(* A thread that has something for the loop calls wake_up_poll.  The loop  *)
(* looks for it at the beginning of a turn, so a call must not leave the   *)
(* loop asleep.  What the loop looks at is not part of the repository.     *)
(*                                                                         *)
(* Everything else the loop does in a turn is Client; here it is `ready',  *)
(* the events of its sockets.                                              *)
(***************************************************************************)
EXTENDS Integers

CONSTANTS
  PipeSize,    \* bytes the pipe holds
  MaxInt,      \* the largest value of next_time, an int (2^31 - 1)
  MaxNow,      \* bound: the last second; time() is a long
  MaxCalls     \* bound: calls of wake_up_poll

ASSUME TickleAssumption ==
  /\ PipeSize \in Nat \ {0}
  /\ MaxInt \in Nat \ {0}
  /\ MaxNow \in Nat
  /\ MaxCalls \in Nat

VARIABLES
  pc,          \* "start", "top", "due", "wait", "handle", "drain", "ended"
  now,         \* time(NULL)
  read,        \* the local variable now of the current turn
  next_time,
  pipe,        \* bytes in the pipe
  batch,       \* events returned and not handled yet
  ready,       \* the loop's sockets have events
  calls,       \* calls of wake_up_poll so far
  asked,       \* history: wake_up_poll was called since the turn began
  started      \* history: the second in which a transaction was last started

clock == <<now, ready>>
callers == <<pipe, calls, asked>>
turn == <<read, next_time, started>>
vars == <<pc, now, read, next_time, pipe, batch, ready, calls, asked, started>>

Init ==
  /\ pc = "start"
  /\ now \in 0 .. MaxNow
  /\ read = 0
  /\ next_time = 0
  /\ pipe = 0
  /\ batch = {}
  /\ ready = FALSE
  /\ calls = 0
  /\ asked = FALSE
  /\ started = -1

-----------------------------------------------------------------------------
(* The loop. *)

\* The conversion of now + 1 to an int; a fault: the second has passed already.
NextTimeNow(t) == t
NextTime(t) == ((t + MaxInt + 2) % (2 * (MaxInt + 1))) - (MaxInt + 1)

\* set_wake_up_polling, and what precedes it; nobody closes g_efd on failure.
SetUp ==
  /\ pc = "start"
  /\ pc' \in {"top", "ended"}
  /\ UNCHANGED <<clock, callers, turn, batch>>

\* time() is read once; what was asked for so far is looked at.
TurnBegins ==
  /\ pc = "top"
  /\ read' = now
  /\ asked' = FALSE
  /\ pc' = "due"
  /\ UNCHANGED <<clock, pipe, calls, next_time, started, batch>>

StartsTransaction ==
  /\ pc = "due"
  /\ read >= next_time
  /\ next_time' = NextTime(read)
  /\ started' = read
  /\ pc' = "wait"
  /\ UNCHANGED <<clock, callers, read, batch>>

NothingDue ==
  /\ pc = "due"
  /\ read < next_time
  /\ pc' = "wait"
  /\ UNCHANGED <<clock, callers, turn, batch>>

\* epoll_wait with something to report; the registration is level-triggered.
Wakes ==
  /\ pc = "wait"
  /\ batch' = (IF pipe > 0 THEN {"tickle"} ELSE {}) \union (IF ready THEN {"sock"} ELSE {})
  /\ batch' # {}
  /\ pc' = "handle"
  /\ UNCHANGED <<clock, callers, turn>>

\* A second has passed with nothing to report, or a signal interrupts the call.
WakesForNothing ==
  /\ pc = "wait"
  /\ pc' = "top"
  /\ UNCHANGED <<clock, callers, turn, batch>>

\* epoll_wait fails otherwise, and the loop is left.
WaitFails ==
  /\ pc = "wait"
  /\ pc' = "ended"
  /\ UNCHANGED <<clock, callers, turn, batch>>

\* Events are handled in any order; the callbacks of sockets do not use the
\* pipe.
HandlesSocket ==
  /\ pc = "handle"
  /\ "sock" \in batch
  /\ batch' = batch \ {"sock"}
  /\ ready' = FALSE
  /\ UNCHANGED <<pc, now, callers, turn>>

HandlesTickle ==
  /\ pc = "handle"
  /\ "tickle" \in batch
  /\ batch' = batch \ {"tickle"}
  /\ pc' = "drain"
  /\ UNCHANGED <<clock, callers, turn>>

\* while (read(...) == 1): one byte; others may be written meanwhile.
DrainsByte ==
  /\ pc = "drain"
  /\ pipe > 0
  /\ pipe' = pipe - 1
  /\ UNCHANGED <<pc, clock, calls, asked, turn, batch>>

\* A fault: the pipe is left in blocking mode.
Blocking == FALSE
NonBlocking == TRUE

\* read() of an empty pipe returns -1.
Drained ==
  /\ pc = "drain"
  /\ pipe = 0
  /\ NonBlocking
  /\ pc' = "handle"
  /\ UNCHANGED <<clock, callers, turn, batch>>

BatchDone ==
  /\ pc = "handle"
  /\ batch = {}
  /\ pc' = "top"
  /\ UNCHANGED <<clock, callers, turn, batch>>

-----------------------------------------------------------------------------
(* The other threads, the sockets and the clock. *)

\* write() of one byte, whose result is ignored: a full pipe takes no more.
\* A fault: nothing is written while the loop does not sleep.
PutIfAsleep(p) == IF pc = "wait" /\ p < PipeSize THEN p + 1 ELSE p
Put(p) == IF p < PipeSize THEN p + 1 ELSE p

\* wake_up_poll; before SetUp, tickle_fd[1] is 0 and the byte goes elsewhere.
WakeUp ==
  /\ calls < MaxCalls
  /\ calls' = calls + 1
  /\ asked' = TRUE
  /\ pipe' = IF pc = "start" THEN pipe ELSE Put(pipe)
  /\ UNCHANGED <<pc, clock, turn, batch>>

BecomesReady ==
  /\ ~ready
  /\ ready' = TRUE
  /\ UNCHANGED <<pc, now, callers, turn, batch>>

Tick ==
  /\ now < MaxNow
  /\ now' = now + 1
  /\ UNCHANGED <<pc, ready, callers, turn, batch>>

\* The clock may be set back.
SetBack ==
  /\ now > 0
  /\ now' \in 0 .. now - 1
  /\ UNCHANGED <<pc, ready, callers, turn, batch>>

Loop ==
  \/ TurnBegins \/ StartsTransaction \/ NothingDue
  \/ Wakes \/ WakesForNothing
  \/ HandlesSocket \/ HandlesTickle \/ DrainsByte \/ Drained \/ BatchDone

Next ==
  \/ Loop \/ SetUp \/ WaitFails
  \/ WakeUp \/ BecomesReady \/ Tick \/ SetBack

Spec == Init /\ [][Next]_vars

\* The loop goes on, but may sleep as long as nothing is reported: its
\* time-out is not relied upon.
Awake == Loop /\ ~WakesForNothing
FairSpec == Spec /\ WF_vars(SetUp) /\ WF_vars(Awake)

-----------------------------------------------------------------------------
(* Properties. *)

\* The variables have their types; the pipe never holds more than it can.
TypeOK ==
  /\ pc \in {"start", "top", "due", "wait", "handle", "drain", "ended"}
  /\ now \in 0 .. MaxNow /\ read \in 0 .. MaxNow
  /\ next_time \in -(MaxInt + 1) .. MaxInt
  /\ pipe \in 0 .. PipeSize
  /\ batch \subseteq {"tickle", "sock"}
  /\ ready \in BOOLEAN /\ asked \in BOOLEAN
  /\ calls \in 0 .. MaxCalls
  /\ started \in -1 .. MaxNow

\* The loop does not go to sleep, or stay asleep, over a call of wake_up_poll
\* it has not answered: however calls and turns interleave, whether or not
\* the pipe was full, whatever the loop drained before, a byte is left.  (And
\* the variables have their types.)
NoSleepOwed ==
  /\ TypeOK
  /\ pc = "wait" /\ asked => pipe > 0

\* A call of wake_up_poll leads to a new turn, though the loop may sleep for
\* ever when nothing is reported, unless the loop has been left.  (The loop
\* drains until it finds the pipe empty: callers must pause some time, as
\* MaxCalls makes them.)
WokenUp == asked ~> ~asked \/ pc = "ended"

\* At most one transaction is started in a second, however often the loop is
\* woken up and wherever the clock is set, until next_time overflows.
Paced == [][StartsTransaction => read > started \/ started >= MaxInt]_vars

=============================================================================
