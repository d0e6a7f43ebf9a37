------------------------------- MODULE MCGame -------------------------------
(* Instances of Game for TLC.                                              *)
EXTENDS Game

TwoGoods == <<4, 2>>
=============================================================================
