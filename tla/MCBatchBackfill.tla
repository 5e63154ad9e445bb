-------------------------- MODULE MCBatchBackfill --------------------------
(* Instances of BatchBackfill for TLC *)
EXTENDS BatchBackfill

CONSTANTS c1, c2, l1, op

OneLabel == [c \in Coordinator |-> l1]

OneThenAll == <<1, 0>>
AllTwice == <<0, 0>>
=============================================================================
