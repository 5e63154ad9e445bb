---------------------------- MODULE MCFeedIngest ----------------------------
(* Instances of FeedIngest for TLC *)
EXTENDS FeedIngest, TLC

CONSTANTS f1, f2, p1, r1, r2, a, b, c

OnePodcast == [f \in Feed |-> p1]

\* The first feed lists its newest entry first, the second one its oldest
Listings ==
  [f \in Feed |-> IF f = f1 THEN << <<b, a>>, <<c, b, a>> >> ELSE << <<a, b>>, <<a, b, c>> >>]

LimitTwo == [r \in Run |-> 2]
NoLimit == [r \in Run |-> 0]

\* The runs of an instance are interchangeable
RunSymmetry == Permutations(Run)
=============================================================================
