-------------------------- MODULE ExtractionLedger --------------------------
(***************************************************************************)
(* What guest extraction promises, whatever batches, polls and restarts    *)
(* carry it out: runs are opened one at a time, results accumulate in the  *)
(* name of an open run and are never taken back, and a run is closed once. *)
(***************************************************************************)
EXTENDS Naturals

CONSTANT Result     \* what can be extracted: a pass and an episode

VARIABLES
  opened,           \* how many runs were opened
  closed,           \* the runs that were closed
  results           \* what has been extracted

ledger == <<opened, closed, results>>

OpenRuns == (1..opened) \ closed

Init ==
  /\ opened = 0
  /\ closed = {}
  /\ results = {}

Open ==
  /\ opened' = opened + 1
  /\ UNCHANGED <<closed, results>>

Extract ==
  /\ OpenRuns # {}
  /\ \E x \in Result : results' = results \cup {x}
  /\ UNCHANGED <<opened, closed>>

Close ==
  /\ \E r \in OpenRuns : closed' = closed \cup {r}
  /\ UNCHANGED <<opened, results>>

Next == Open \/ Extract \/ Close

Spec == Init /\ [][Next]_ledger
=============================================================================
