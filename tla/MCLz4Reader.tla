---------------------------- MODULE MCLz4Reader ----------------------------
(***************************************************************************)
(* Instances of Lz4Reader for TLC.                                         *)
(***************************************************************************)
EXTENDS Lz4Reader

CONSTANTS Room, Sizes

(* Blocks of all combinations of sizes, a fixed distance apart in memory:  *)
(* an engine without a block has size 0 and index 0.                       *)
InputOf(b, s) == [base |-> IF s = 0 THEN 0 ELSE b * Room, size |-> s]
AllInputs == {[b \in Blocks |-> InputOf(b, s[b])] : s \in [Blocks -> Sizes]}
=============================================================================
