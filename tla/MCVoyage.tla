------------------------------ MODULE MCVoyage ------------------------------
(* Instances of Voyage for TLC.                                            *)
EXTENDS Voyage

\* In half-dollars (Scale = 2): a good of 1.50 in some ports and 2.00 in the
\* others, of which two overflow CostCap = 4, and one of 0.50 everywhere, so
\* that one costs nothing and two are sold for a dollar.
TwoGoods == <<3, 1>>
=============================================================================
