------------------------- MODULE MCGuestExtraction -------------------------
(* Instances of GuestExtraction for TLC *)
EXTENDS GuestExtraction

CONSTANTS c1, c2, op, w1, d1, l1, first, second, rerun, manual

OneLabel == [c \in Coordinator |-> l1]
Once == <<1>>

\* Two coordinators, a coordinator and one other command, or three others
Costs == [p \in Proc \cup Direct |-> IF p \in Coordinator THEN 3 ELSE 2]

OwnLabels ==
  [k \in Kind |-> CASE k = "first" -> first [] k = "second" -> second
                    [] k = "rerun" -> rerun [] k = "manual" -> manual]
=============================================================================
