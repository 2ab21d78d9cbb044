--------------------------- MODULE Sha256Padding ---------------------------
(***************************************************************************)
(* How preProcessing cuts a message into the blocks of SHA-224 and SHA-256.*)
(* The message comes as words of w bytes (4 or 8, one overload each), the  *)
(* first byte in the low end of a word; a word is the sequence of its      *)
(* bytes here, the high end first. A block is a sequence of bytes.         *)
(***************************************************************************)
EXTENDS Integers, SequencesExt

CONSTANT BlockBytes   \* 64 in the code

LenBytes == 8         \* M[14] and M[15]

ASSUME BlockAssumption ==
    BlockBytes \in Nat /\ BlockBytes > LenBytes /\ BlockBytes % 8 = 0

Words(n, w) == (n + w - 1) \div w

(* What the digest is told to expect, before any block is sent ...         *)
BlkNumLate(len) ==
    len \div BlockBytes + 1 + IF len % BlockBytes > BlockBytes - LenBytes THEN 1 ELSE 0
BlkNum(len) ==
    len \div BlockBytes + 1 + IF len % BlockBytes > BlockBytes - LenBytes - 1 THEN 1 ELSE 0

(* ... and what the branches on left send: full blocks, then the block of  *)
(* the 1 bit, then one for the length where that block has no room left.   *)
LengthFits(len) == len % BlockBytes < BlockBytes - LenBytes
BlocksSent(len) == len \div BlockBytes + IF LengthFits(len) THEN 1 ELSE 2

(* Words of the message that go into block j: none into a block that only  *)
(* pads, and the last one only if the message ends inside it.              *)
WordsOf(len, w, j) ==
    IF j < len \div BlockBytes THEN BlockBytes \div w
    ELSE IF j = len \div BlockBytes THEN Words(len % BlockBytes, w) ELSE 0

Zeros(n) == [k \in 1..n |-> 0]
UpTo(bytes, n) == bytes \o Zeros(n - Len(bytes))

(* The length in bits, big end first; its high word is 0 for the lengths   *)
(* an instance has.                                                        *)
LengthField(len) == Zeros(4) \o [k \in 1..4 |-> ((8 * len) \div 256^(4 - k)) % 256]

(* The bytes left over, and the 1 bit behind the last of them.             *)
WithOneAfterWord(bytes, len) == bytes \o <<128>>
WithOne(bytes, len) == SubSeq(bytes, 1, len % BlockBytes) \o <<128>>

Block(len, j, words) ==
    LET bytes == FlattenSeq([k \in 1..Len(words) |-> Reverse(words[k])])
        text  == WithOne(bytes, len)
        room  == BlockBytes - LenBytes
    IN  CASE j < len \div BlockBytes                   -> bytes
          [] j = len \div BlockBytes /\ LengthFits(len) -> UpTo(text, room) \o LengthField(len)
          [] j = len \div BlockBytes /\ ~LengthFits(len) -> UpTo(text, BlockBytes)
          [] OTHER                                      -> Zeros(room) \o LengthField(len)

(* The reference, as the standard words it: a 1 bit, the least number of   *)
(* zeros that leaves room for the length at the end of a block, the length.*)
Padded(bytes) ==
    LET len   == Len(bytes)
        zeros == CHOOSE k \in 0..BlockBytes - 1 : (len + 1 + k + LenBytes) % BlockBytes = 0
        all   == bytes \o <<128>> \o Zeros(zeros) \o LengthField(len)
    IN  [b \in 1..Len(all) \div BlockBytes |->
            SubSeq(all, (b - 1) * BlockBytes + 1, b * BlockBytes)]
=============================================================================
