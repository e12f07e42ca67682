--------------------------- MODULE MCOptionWalk ---------------------------
(* OptionWalk with the values at which the tests of the loops change their *)
(* outcome, and regions around the sizes of the destinations.              *)
EXTENDS OptionWalk
=============================================================================
