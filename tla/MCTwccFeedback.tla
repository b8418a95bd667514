--------------------------- MODULE MCTwccFeedback ---------------------------
\* An instance of TwccFeedback for TLC.
EXTENDS TwccFeedback

SmallAndLargeSizes == [p \in 1 .. 17 |-> IF p % 3 = 1 THEN 400 ELSE 900]
=============================================================================
