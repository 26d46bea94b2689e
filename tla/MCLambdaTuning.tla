--------------------------- MODULE MCLambdaTuning ---------------------------
(* Values for the constants of LambdaTuning.  The charge may miss the quote, *)
(* the score may miss the quality; the probes lie on, between and beyond all *)
(* crossings and midpoints of these offers.                                  *)
EXTENDS LambdaTuning

Offer(cost, charge, score, quality) ==
    [cost |-> cost, charge |-> charge, score |-> score, quality |-> quality]

MCOffers == {Offer(1, 2, 0, 2), Offer(2, 2, 1, 1), Offer(3, 5, 1, 3), Offer(4, 2, 5, 2)}
MCRoots  == {Zero, <<1, 2>>, <<1, 1>>, <<5, 3>>, <<2, 1>>, <<4, 1>>}
MCHashes == {[root \in MCRoots |-> (root[1] * 7 + root[2] * 5) % 13]}
MCProbes == {Fraction(n, d) : n \in 0 .. 9, d \in 1 .. 5}
=============================================================================
