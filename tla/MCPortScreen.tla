---------------------------- MODULE MCPortScreen ----------------------------
(* Instances of PortScreen for TLC.                                        *)
EXTENDS PortScreen

\* A good of two dollars (Scale = 2), of a base price that starts at one or
\* two dollars and falls, voyage by voyage, to nothing.
OneGood == <<4>>
=============================================================================
