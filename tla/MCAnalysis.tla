---------------------------- MODULE MCAnalysis ----------------------------
(* Three podcasts, seven people and five episodes over three weeks.  The   *)
(* newest episodes are linked first; one of an earlier week comes late.    *)
(* There are eight candidates of three different scores, some of which     *)
(* are published in the week behind the cutoff, one of the best among      *)
(* them, beside links that existed and links of hosts.                     *)
EXTENDS Analysis

CONSTANTS p1, p2, w1

ThreePodcasts == <<1, 2, 3, 1, 2>>
Dates == <<1, 2, 4, 6, 8>>
SomeGuests == <<{1, 2, 3}, {2, 3, 5, 6}, {3, 4, 6}, {2, 4, 6}, {1, 5, 6, 7}>>
SomeHosts == <<{7}, {6, 7}, {7}, {7}, {6}>>
OneLate == {{1, 2, 4, 5}}

WeeklyCommands == (p1 :> {"metrics", "evolution", "matrix"})
  @@ (p2 :> {"evolution", "reset", "predictions", "audit", "candidates", "dataset"})
OnceAndTwice == (p1 :> 1) @@ (p2 :> 2)

SomeOptions == {[bootstrap |-> FALSE, recompute |-> FALSE, max |-> 1],
                [bootstrap |-> TRUE, recompute |-> TRUE, max |-> 0]}

\* Hashes of pairs, with ties
ScoreOf(cutoff, pair) == (7 * pair[2] + pair[1] + cutoff) % 5
BucketOf(cutoff, pair) == (45 * pair[2] + cutoff) % 100

\* A classifier with ties between candidates
Linear(features) == features.neighborScore + features.other.guestRows

===========================================================================
