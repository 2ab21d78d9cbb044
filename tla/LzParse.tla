------------------------------ MODULE LzParse ------------------------------
(***************************************************************************)
(* What a match finder promises the encoder: a parse of the block, given   *)
(* record by record.  The records expand to the block, every match has a   *)
(* length and an offset the encoder can write, and the last LeftBytes      *)
(* bytes of the block are literals: lz4CompressPart1 reads a record ahead  *)
(* and stops at the one that starts at the last byte.                      *)
(***************************************************************************)
EXTENDS Lz4Format

CONSTANTS MaxMatchLen, MinOffset, OffsetLimit, LeftBytes

VARIABLES block, parse

Encodable(r) ==
    r.len > 0 => /\ r.len \in MinMatch..MaxMatchLen
                 /\ r.off >= MinOffset /\ r.off + 1 < OffsetLimit

(* The next record starts where the parse so far ends. *)
Continues(r) ==
    LET p == SizeOf(parse)
    IN  /\ p + RecLen(r) <= Len(block)
        /\ r.len > 0 => r.off < p /\ p + r.len <= Len(block) - LeftBytes
        /\ Extend(SubSeq(block, 1, p), r) = SubSeq(block, 1, p + RecLen(r))

Init == parse = << >>

Next ==
    /\ Len(parse') = Len(parse) + 1
    /\ SubSeq(parse', 1, Len(parse)) = parse
    /\ LET r == parse'[Len(parse')] IN Encodable(r) /\ Continues(r)
    /\ UNCHANGED block

Spec == Init /\ [][Next]_<<block, parse>>
=============================================================================
