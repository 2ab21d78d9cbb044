----------------------------- MODULE Lz4Format -----------------------------
(***************************************************************************)
(* The data that travels through the LZ4 block compressor and what it      *)
(* means.                                                                  *)
(*                                                                         *)
(* Between the match finder and the encoder a block is a sequence of       *)
(* records [ch, len, off] (the 32-bit word of lz4CompressPart1): len = 0   *)
(* is the literal ch, len > 0 copies len bytes from off + 1 bytes back.    *)
(* After the encoder it is a sequence of bytes in LZ4 block format.  The   *)
(* meaning of both is the text they stand for: Text expands records, and   *)
(* Decode is the repository's own decompressor, the byte-driven machine    *)
(* lz4Decompress followed by the copies of lzDecompress.                   *)
(*                                                                         *)
(* Field widths are constants, so that a small instance reaches every      *)
(* threshold: NibbleMax is 15, ByteMax 255, MinMatch 4 in the source.      *)
(***************************************************************************)
EXTENDS Integers, Sequences, SequencesExt

CONSTANTS
    NibbleMax,   \* largest value of half a token byte
    ByteMax,     \* largest value of a byte
    MinMatch     \* shortest match; the encoder stores len - MinMatch

ASSUME FormatAssumption ==
    /\ NibbleMax \in Nat \ {0}
    /\ ByteMax \in Nat \ {0}
    /\ MinMatch \in Nat \ {0}

TokenByte(hi, lo) == hi * (NibbleMax + 1) + lo
ByteBase == ByteMax + 1

Literal(ch) == [ch |-> ch, len |-> 0, off |-> 0]
Match(len, off) == [ch |-> 0, len |-> len, off |-> off]
RecLen(r) == IF r.len > 0 THEN r.len ELSE 1

(* n bytes copied from d bytes back; with d < n the copy overlaps itself. *)
Copy(text, d, n) ==
    text \o [k \in 1..n |-> text[Len(text) - d + 1 + ((k - 1) % d)]]

Extend(text, r) ==
    IF r.len = 0 THEN Append(text, r.ch) ELSE Copy(text, r.off + 1, r.len)

(* The text after each of the records, and after the last. *)
TextUpto(recs) ==
    LET upto[k \in 0..Len(recs)] ==
            IF k = 0 THEN << >> ELSE Extend(upto[k - 1], recs[k])
    IN  upto
Text(recs) == TextUpto(recs)[Len(recs)]

SizeOf(recs) ==
    LET upto[k \in 0..Len(recs)] == IF k = 0 THEN 0 ELSE upto[k - 1] + RecLen(recs[k])
    IN  upto[Len(recs)]

-----------------------------------------------------------------------------
(* The decoder: one step per byte of the compressed block. *)

DecodeStart ==
    [st |-> "token", lit |-> 0, match |-> 0, off |-> 0, text |-> << >>, ok |-> TRUE]

(* The match of d.match + MinMatch bytes at distance d.off is complete.  A *)
(* distance that reaches before the text marks the input as malformed.     *)
CopyMatch(d) ==
    IF d.off \in 1..Len(d.text)
    THEN [d EXCEPT !.st = "token", !.text = Copy(d.text, d.off, d.match + MinMatch)]
    ELSE [d EXCEPT !.st = "token", !.ok = FALSE]

DecodeByte(d, b) ==
    CASE d.st = "token" ->
           LET hi == b \div (NibbleMax + 1)
           IN  [d EXCEPT !.lit = hi, !.match = b % (NibbleMax + 1),
                         !.st = IF hi = NibbleMax THEN "litlen"
                                ELSE IF hi > 0 THEN "literal" ELSE "offset0"]
      [] d.st = "litlen" ->
           [d EXCEPT !.lit = @ + b, !.st = IF b = ByteMax THEN "litlen" ELSE "literal"]
      [] d.st = "literal" ->
           [d EXCEPT !.text = Append(@, b), !.lit = @ - 1,
                     !.st = IF d.lit = 1 THEN "offset0" ELSE "literal"]
      [] d.st = "offset0" -> [d EXCEPT !.off = b, !.st = "offset1"]
      [] d.st = "offset1" ->
           LET e == [d EXCEPT !.off = @ + b * ByteBase]
           IN  IF d.match = NibbleMax THEN [e EXCEPT !.st = "matchlen"] ELSE CopyMatch(e)
      [] d.st = "matchlen" ->
           LET e == [d EXCEPT !.match = @ + b]
           IN  IF b = ByteMax THEN e ELSE CopyMatch(e)

Decoded(bytes) ==
    LET upto[k \in 0..Len(bytes)] ==
            IF k = 0 THEN DecodeStart ELSE DecodeByte(upto[k - 1], bytes[k])
    IN  upto[Len(bytes)]

(* bytes is a complete LZ4 block that stands for text: its last sequence   *)
(* ends after the literals, where the decoder waits for an offset, or ends *)
(* with a whole match.                                                     *)
DecodesTo(bytes, text) ==
    LET d == Decoded(bytes)
    IN  d.ok /\ d.text = text /\ d.st \in {"token", "offset0"}
=============================================================================
