----------------------------- MODULE Lz4Service -----------------------------
(***************************************************************************)
(* What a block compressor promises its caller: the blocks of a session    *)
(* are answered one by one and in order, and an answer is either the       *)
(* block's own size, which tells the caller to store the input unchanged   *)
(* (lz4CompressMM, mm2slz4Packer), or a shorter byte string that the       *)
(* decompressor turns back into the block's text.                          *)
(***************************************************************************)
EXTENDS Lz4Format

VARIABLES request, reply

Stored(block, a) == a.size = block.size

Compressed(block, a) ==
    /\ a.size < block.size
    /\ a.size = Len(a.bytes)
    /\ DecodesTo(a.bytes, Text(block.recs))

Init == reply = << >>

Answer ==
    /\ Len(reply') = Len(reply) + 1
    /\ SubSeq(reply', 1, Len(reply)) = reply
    /\ LET block == request[Len(reply')]
           a     == reply'[Len(reply')]
       IN  Stored(block, a) \/ Compressed(block, a)
    /\ UNCHANGED request

Next == Len(reply) < Len(request) /\ Answer

Spec == Init /\ [][Next]_<<request, reply>>
=============================================================================
