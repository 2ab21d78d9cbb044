----------------------------- MODULE Lz4Frame -----------------------------
(***************************************************************************)
(* From the driver's sizes to a file and back: the blocks of a call are    *)
(* packed into an LZ4 frame, either by the host (writeCompressedBlock) or  *)
(* by the packer kernel (mm2slz4Packer), and read again by                 *)
(* lz4HeaderProcessing.  The host's kernel is lz4CompressMM here; its top  *)
(* function is not in the repository.                                      *)
(***************************************************************************)
EXTENDS Lz4Blocks

CONSTANT FieldMod    \* values of the two low bytes of a size field

ASSUME FieldAssumption == FieldMod \in Nat \ {0} /\ BlockLength = FieldMod

VARIABLE frame       \* the blocks packed so far, each a size field and data

frameVars == <<vars, frame>>

FrameInit == Init /\ frame = << >>

(* The four bytes of a size field: the two low ones, the third, the top.   *)
PlainField(n) == [low |-> n % FieldMod, third |-> n \div FieldMod, top |-> 0]
StoredFieldLow(n) == [low |-> n % FieldMod, third |-> 0, top |-> 128]
StoredField(n) ==
    [low |-> n % FieldMod, third |-> IF n = FieldMod THEN 1 ELSE 0, top |-> 128]

Raw(k) == [raw |-> TRUE, from |-> FirstByte(k), bytes |-> SizeOfBlock(k)]
Encoded(k) == [raw |-> FALSE, from |-> FirstByte(k), bytes |-> sizes[k]]

(* The host stores a block that has not become smaller. *)
Shrunk(k) == sizes[k] < SizeOfBlock(k)

PackByHost ==
    LET k == Len(frame)
    IN  /\ DriverDone /\ k < NoBlocks
        /\ frame' = Append(frame,
                      IF Shrunk(k) THEN [field |-> PlainField(sizes[k]), data |-> Encoded(k)]
                      ELSE [field |-> StoredField(SizeOfBlock(k)), data |-> Raw(k)])
        /\ UNCHANGED vars

(* The kernel takes the data of a block from the input when its size is    *)
(* unchanged, and writes the size as it is.                                *)
PackByKernel ==
    LET k == Len(frame)
    IN  /\ DriverDone /\ k < NoBlocks
        /\ frame' = Append(frame,
                      [field |-> PlainField(sizes[k]),
                       data |-> IF sizes[k] = SizeOfBlock(k) THEN Raw(k) ELSE Encoded(k)])
        /\ UNCHANGED vars

Packed == DriverDone /\ Len(frame) = NoBlocks
Rest == Packed /\ UNCHANGED frameVars

DriverStep == Driver /\ UNCHANGED frame

HostNext == DriverStep \/ PackByHost \/ Rest
KernelNext == DriverStep \/ PackByKernel \/ Rest

HostSpec == FrameInit /\ [][HostNext]_frameVars
KernelSpec == FrameInit /\ [][KernelNext]_frameVars

-----------------------------------------------------------------------------
(* lz4HeaderProcessing: a top byte of 128 marks a stored block, whose size *)
(* is a full block where the third byte is 1.                              *)
IsStored(field) == field.top = 128
FieldSize(field) ==
    IF ~IsStored(field) THEN field.low + FieldMod * field.third
    ELSE IF field.third = 1 THEN BlockLength ELSE field.low

(* The entry gives back block k: the reader takes its data for what it is, *)
(* reads all of it and nothing else, and an encoding is complete.          *)
GivesBack(entry, k) ==
    /\ entry.data.from = FirstByte(k)
    /\ FieldSize(entry.field) = entry.data.bytes
    /\ IF IsStored(entry.field)
       THEN entry.data.raw /\ entry.data.bytes = SizeOfBlock(k)
       ELSE ~entry.data.raw /\ mem[k] # Untouched /\ mem[k].complete

-----------------------------------------------------------------------------
(* Properties *)

(* Whatever the engines answered, the frame read back gives the blocks of  *)
(* the input in their order.                                               *)
FrameGivesBack == \A k \in 0..Len(frame) - 1 : GivesBack(frame[k + 1], k)

(* "4th byte is always set to below and placed as uncompressed byte"       *)
(* (lz4_specs.hpp, NO_COMPRESS_BIT): a block whose data is the input       *)
(* itself carries the mark of an uncompressed block.                       *)
StoredBlocksMarked == \A e \in 1..Len(frame) : frame[e].data.raw => frame[e].field.top = 128
=============================================================================
