------------------------- MODULE MCEntityResolution -------------------------
(* Instances of EntityResolution for TLC *)
EXTENDS EntityResolution, TLC

\* Two spellings, a longer name of which one is an alias, and a group that
\* shares two tokens with them
MCTokens == [diaz |-> <<"joey", "diaz">>,
             dias |-> <<"dr", "joey", "dias">>,
             coco |-> <<"joey", "coco", "diaz">>,
             band |-> <<"joey", "diaz", "band">>]
MCName == {"diaz", "dias", "coco", "band"}
MCNoise == {"dr"}
MCArticle == {"the"}
MCGroupToken == {"band"}
MCNearToken == {{"diaz", "dias"}}
MCPrefix == [t \in {"diaz", "dias", "joey", "coco", "band"} |->
               IF t \in {"diaz", "dias"} THEN "dia" ELSE t]
MCUnsuffixed == <<>>
MCPrecedence == [coco |-> 1, band |-> 2, dias |-> 3, diaz |-> 4]

\* Any numbering will do: the pairs, in the order of a hash
MCPairId == [p \in {q \in SUBSET MCName : Cardinality(q) = 2} |->
               CASE p = {"diaz", "dias"} -> 1
                 [] p = {"diaz", "coco"} -> 2
                 [] p = {"diaz", "band"} -> 3
                 [] p = {"coco", "band"} -> 4
                 [] p = {"dias", "coco"} -> 5
                 [] p = {"dias", "band"} -> 6]

MCAppearance == 1..5
MCNameOf == <<"diaz", "dias", "dias", "coco", "band">>
MCPodcastOf == <<"a", "a", "b", "b", "b">>
MCRules == <<[alias |-> "coco", target |-> "diaz", podcast |-> "b"]>>
=============================================================================
