--------------------------- MODULE MCAppearances ---------------------------
(* Instances of Appearances for TLC *)
EXTENDS Appearances, TLC

CONSTANTS e1, e2, p1, ann, cher

OnePodcast == [e \in Episode |-> p1]

\* Nobody, or ann beside a single name
SomeNames == {{}, {ann, cher}}

\* Over the week's label or over all episodes, earlier promotions kept
Additive == BOOLEAN \X {FALSE}

\* The options of run_weekly_update_pipeline
Weekly == {<<TRUE, TRUE>>}

\* The episodes of an instance are interchangeable
EpisodeSymmetry == Permutations(Episode)
=============================================================================
