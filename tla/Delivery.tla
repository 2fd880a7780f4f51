------------------------------ MODULE Delivery ------------------------------
(***************************************************************************)
(* What jujube promises about one message, from the transaction of the     *)
(* client to do_work at the server.  There is no acknowledgement: a client *)
(* that has written its message learns no more.  What is promised is that  *)
(* the message is handed over at most once, whole, and never after the     *)
(* transaction has failed, so that a message whose transaction failed may  *)
(* be sent again; and that both sides come to an end.                      *)
(***************************************************************************)
CONSTANT Message

VARIABLES
  ending,   \* how the transaction ended: "none", "written" or "failed"
  log,      \* what do_work was called with
  over      \* nothing more can come of the message

vars == <<ending, log, over>>

Init ==
  /\ ending = "none"
  /\ log = <<>>
  /\ over = FALSE

\* The transaction ends.  A message that could not even be sent is over.
Write ==
  /\ ending = "none"
  /\ ending' = "written"
  /\ UNCHANGED <<log, over>>

Fail ==
  /\ ending = "none"
  /\ ending' = "failed"
  /\ over' \in {over, TRUE}
  /\ UNCHANGED log

Deliver ==
  /\ ending = "written"
  /\ ~over
  /\ log' = <<Message>>
  /\ over' = TRUE
  /\ UNCHANGED ending

\* Possible at any time, also after the message has been written.
Lose ==
  /\ ~over
  /\ over' = TRUE
  /\ UNCHANGED <<ending, log>>

Next == Write \/ Fail \/ Deliver \/ Lose

Spec == Init /\ [][Next]_vars

FairSpec == Spec /\ WF_vars(Write \/ Fail) /\ WF_vars(Deliver \/ Lose)

=============================================================================
