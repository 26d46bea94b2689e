------------------------- MODULE MCLambdaCandidates -------------------------
(* Values for the constants of LambdaCandidates: four offers whose crossings *)
(* are 0, 1, 3/2 and 2, and every order of their digests.                    *)
EXTENDS LambdaCandidates

MCOffers == {[cost |-> 1, score |-> 0], [cost |-> 1, score |-> 1],
             [cost |-> 2, score |-> 1], [cost |-> 3, score |-> 3]}

MCHashes == LET roots == {Zero, <<1, 1>>, <<3, 2>>, <<2, 1>>}
            IN {f \in [roots -> 1 .. Cardinality(roots)] : IsInjective(f)}
=============================================================================
