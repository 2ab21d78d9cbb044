----------------------------- MODULE WordBursts -----------------------------
(***************************************************************************)
(* What the reader and the writer of hlsLz4 have in common: the blocks     *)
(* they serve, the FIFOs to their blocks, and memory words and bursts, a   *)
(* burst being announced in bytes and consisting of words.                 *)
(***************************************************************************)
EXTENDS Integers, Sequences

CONSTANTS
    NumBlock,     \* NUM_BLOCK: parallel engines
    WordSize,     \* bytes of a memory word, c_wordSize
    BurstSize,    \* BURST_SIZE: words of a burst; a word FIFO holds two bursts
    SizeDepth,    \* depth of outStreamVSize
    ByteDepth     \* depth of the FIFOs of bytes, inStream and outStream

ASSUME WordAssumption ==
    {NumBlock, WordSize, BurstSize, SizeDepth, ByteDepth} \subseteq Nat \ {0}

Blocks == 0..NumBlock - 1

WordDepth == 2 * BurstSize

Words(bytes) == (bytes + WordSize - 1) \div WordSize

(* The words of the bursts of these sizes. *)
AnnouncedWords(sizes) ==
    LET from[k \in 1..Len(sizes) + 1] ==
            IF k > Len(sizes) THEN 0 ELSE Words(sizes[k]) + from[k + 1]
    IN  from[1]
=============================================================================
