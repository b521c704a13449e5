--------------------------- MODULE MCGaussNewton ---------------------------
(* Model-checking instance of GaussNewton: every landscape over a few points *)
(* and costs, NaN and infinity among them.                                    *)
EXTENDS GaussNewton

MCFiniteCosts == {0, 2, 5, 9}
=============================================================================
