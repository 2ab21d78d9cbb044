----------------------------- MODULE Lz4Records -----------------------------
(***************************************************************************)
(* boosterStream, the FIFO of records between the match finder, which      *)
(* writes it, and lz4CompressPart1, which reads it.                        *)
(***************************************************************************)
EXTENDS Lz4Format

VARIABLE recQ     \* boosterStream

Byte == 0..ByteMax
Record == [ch : Byte, len : Nat, off : Nat]
=============================================================================
