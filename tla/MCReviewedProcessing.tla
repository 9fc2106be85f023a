------------------------- MODULE MCReviewedProcessing -------------------------
(* TLC instances of ReviewedProcessing.                                    *)
EXTENDS ReviewedProcessing, TLC

CONSTANTS p1, w1, v1, v2

OnePayment == {p1}
OneWorker == {w1}
TwoReviews == {v1, v2}

\* Review requests are interchangeable.
Symmetry == Permutations(Reviews)

===============================================================================
