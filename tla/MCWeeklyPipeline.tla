-------------------------- MODULE MCWeeklyPipeline --------------------------
(* Instances of WeeklyPipeline for TLC *)
EXTENDS WeeklyPipeline

CONSTANTS e1, o1, l1

OneLabel == [p \in Process |-> l1]
=============================================================================
