----------------------------- MODULE MemReport -----------------------------
(***************************************************************************)
(* statistics_mem_info, which adds the two counters of each class without  *)
(* taking mem_mutex, beside threads that use the pool.  The classes are    *)
(* independent of each other, so one is reported at a time, in any order.  *)
(***************************************************************************)
EXTENDS MemData

VARIABLE report

rvars == <<dvars, report>>

\* Between the two reads and after them; `n' is what has been added up, and
\* `moved' the number of blocks of the class taken or put back since the first
\* read, up to the number of all blocks.
ReportType ==
  [at : {"no", "half", "done"}, class : Classes, n : Int, moved : 0 .. Cardinality(Blocks)]

RInit ==
  /\ DInit
  /\ report \in [at : {"no"}, class : Classes, n : {0}, moved : {0}]

ReadsUsed(i) ==
  /\ report.at = "no"
  /\ report' = [at |-> "half", class |-> i, n |-> stat[i].used, moved |-> 0]
  /\ UNCHANGED dvars

ReadsFree ==
  /\ report.at = "half"
  /\ report' = [report EXCEPT !.at = "done", !.n = @ + stat[report.class].free]
  /\ UNCHANGED dvars

\* The line is written, and the next class is looked at.
Printed ==
  /\ report.at = "done"
  /\ report' = [report EXCEPT !.at = "no", !.n = 0, !.moved = 0]
  /\ UNCHANGED dvars

PoolStep ==
  /\ report.at # "done"
  /\ DNext
  /\ LET i == report.class
         moves == report.at = "half" /\ stat'[i] # stat[i] /\ report.moved < Cardinality(Blocks)
     IN report' = [report EXCEPT !.moved = IF moves THEN @ + 1 ELSE @]

RNext == ReadsFree \/ Printed \/ PoolStep \/ \E i \in Classes : ReadsUsed(i)

RSpec == RInit /\ [][RNext]_rvars

-----------------------------------------------------------------------------
(* Properties. *)

\* The number of blocks reported for a class is wrong by no more than the
\* number of blocks that moved while it was being added up: it is exact when
\* the pool is left alone, although no lock is taken.
ReportWithin ==
  report.at = "done" =>
    LET actual == Cardinality(InClass(report.class))
    IN actual - report.moved <= report.n /\ report.n <= actual + report.moved

=============================================================================
