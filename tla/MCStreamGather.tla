--------------------------- MODULE MCStreamGather ---------------------------
(***************************************************************************)
(* Instances of StreamGather for TLC.                                      *)
(***************************************************************************)
EXTENDS StreamGather

CONSTANT MaxLoad

AllLoads == [Lanes -> 0..MaxLoad]
=============================================================================
