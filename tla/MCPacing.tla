------------------------------ MODULE MCPacing ------------------------------
(***************************************************************************)
(* A small instance of Pacing: floats of five bits, so that neighbours are *)
(* one apart below 32, four apart from 64 and eight from 128; an interval  *)
(* of ten; a transmission may take more than three intervals.              *)
(***************************************************************************)
EXTENDS Pacing

MCStartTimes == {0, 19, 31, 62, 101, 127}
MCSendTimes == {0, 1, 33}
MCDelays == {0, 3}
=============================================================================
