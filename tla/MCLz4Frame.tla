---------------------------- MODULE MCLz4Frame ----------------------------
(***************************************************************************)
(* Instances of Lz4Frame for TLC.                                          *)
(***************************************************************************)
EXTENDS Lz4Frame

CONSTANT MaxInput

(* Every size up to the bound: whole and broken last blocks, last blocks   *)
(* too small to compress, whole and broken batches.                        *)
AllInputs == 1..MaxInput
=============================================================================
