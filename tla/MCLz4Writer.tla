---------------------------- MODULE MCLz4Writer ----------------------------
(***************************************************************************)
(* Instances of Lz4Writer for TLC.                                         *)
(***************************************************************************)
EXTENDS Lz4Writer

CONSTANTS Space, Sizes

(* Every engine may produce any of Sizes bytes; a block that is not there  *)
(* keeps an arbitrary output index and produces nothing.                   *)
OutputOf(b, c) == [base |-> IF c = 0 THEN 0 ELSE b * Space, size |-> c, csize |-> c]
AllOutputs == {[b \in Blocks |-> OutputOf(b, c[b])] : c \in [Blocks -> Sizes]}
=============================================================================
