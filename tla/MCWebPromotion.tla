--------------------------- MODULE MCWebPromotion ---------------------------
\* Two resources, each with a stored promotion; one of these has no review.
EXTENDS WebPromotion

CONSTANTS r1, r2, p1, q1

MCResourceOf == [p \in Promotions |-> IF p = q1 THEN r2 ELSE r1]

=============================================================================
