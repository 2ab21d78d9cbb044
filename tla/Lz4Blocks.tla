----------------------------- MODULE Lz4Blocks -----------------------------
(***************************************************************************)
(* lz4CompressMM: the driver that cuts the input into blocks, hands them   *)
(* to hlsLz4 in batches of one block per engine, and reports the size of   *)
(* every block.  Its arrays live across the batches, and the slots of a    *)
(* batch without a block keep what an earlier batch left in them.          *)
(*                                                                         *)
(* The data is abstract: a block of the input is its number, and the       *)
(* output memory holds, at a block's place, what an engine wrote there.    *)
(***************************************************************************)
EXTENDS Integers, Sequences, FiniteSets

CONSTANTS
    NumBlock,      \* NUM_BLOCK: slots of a batch, one per engine
    BlockLength,   \* block_length and max_block_size
    MinBlock,      \* MIN_B_SIZE: smaller blocks are never compressed
    WordMod,       \* values of uint32_t
    Inputs         \* the input sizes

Slots == 0..NumBlock - 1

(* The host never passes an empty input (the loop of compressEngineSeq) nor *)
(* more than its buffer, far below the width of the sizes.                 *)
ASSUME DriverAssumption ==
    /\ {NumBlock, BlockLength, MinBlock, WordMod} \subseteq Nat \ {0}
    /\ MinBlock <= BlockLength /\ BlockLength < WordMod
    /\ WordMod % BlockLength = 0
    /\ Inputs \subseteq 1..WordMod - BlockLength

VARIABLES
    inputSize,   \* input_size
    dr,          \* the counters of lz4CompressMM
    small,       \* small_block
    smallIn,     \* small_block_inSize
    inBlock,     \* input_block_size
    inIdx,       \* input_idx
    outIdx,      \* output_idx
    outBlock,    \* output_block_size
    limit,       \* max_lit_limit
    sizes,       \* compressd_size
    mem          \* out, by block: what an engine has written there

slots == <<small, smallIn, inBlock, inIdx, outIdx, outBlock, limit>>
vars == <<inputSize, dr, slots, sizes, mem>>

Junk == -1          \* an element no statement has assigned
Untouched == << >>

NoBlocks == ((inputSize - 1) % WordMod) \div BlockLength + 1
Numbers == 0..NoBlocks - 1      \* the blocks of the call

(* What the engines may answer for a block of n bytes (Lz4Service): a      *)
(* literal-limit flag and a size never above n.  An absent block is        *)
(* answered by an empty output and leaves the flag alone.                  *)
Answers(n) == IF n = 0 THEN {[limit |-> FALSE, size |-> 0]}
              ELSE [limit : BOOLEAN, size : 1..n]

Init ==
    /\ inputSize \in Inputs
    /\ dr = [pc |-> "test", i |-> 0, j |-> 0, nblocks |-> 0, read |-> 0, blockIdx |-> 0]
    /\ small = [s \in Slots |-> FALSE]
    /\ smallIn = [s \in Slots |-> Junk] /\ inBlock = [s \in Slots |-> Junk]
    /\ inIdx = [s \in Slots |-> Junk] /\ outIdx = [s \in Slots |-> Junk]
    /\ outBlock = [s \in Slots |-> Junk] /\ limit = [s \in Slots |-> FALSE]
    /\ sizes = [k \in Numbers |-> Junk]
    /\ mem = [k \in Numbers |-> Untouched]

-----------------------------------------------------------------------------
(* A batch takes the next NUM_BLOCK blocks, or those that are left. *)
Batch ==
    IF dr.i + NumBlock > NoBlocks THEN NoBlocks - dr.i ELSE NumBlock

StartBatch ==
    /\ dr.pc = "test" /\ dr.i < NoBlocks
    /\ dr' = [dr EXCEPT !.pc = "prepare", !.j = 0, !.nblocks = Batch]
    /\ UNCHANGED <<inputSize, slots, sizes, mem>>

(* The next block is a full one unless it would pass the end of the input. *)
NextBlockSizeFull == BlockLength
NextBlockSize ==
    IF (dr.read + BlockLength) % WordMod > inputSize THEN inputSize - dr.read
    ELSE BlockLength

NextSlotOr(pc) ==
    IF dr.j < NumBlock - 1 THEN [dr EXCEPT !.j = @ + 1] ELSE [dr EXCEPT !.pc = pc, !.j = 0]

(* A slot is readied for the engines: the answers of the batch before are  *)
(* cleared whether or not the slot gets a block.                           *)
Reset(s) ==
    /\ outBlock' = [outBlock EXCEPT ![s] = 0]
    /\ limit' = [limit EXCEPT ![s] = FALSE]

NoWork(s) ==
    /\ inBlock' = [inBlock EXCEPT ![s] = 0]
    /\ inIdx' = [inIdx EXCEPT ![s] = 0]

PrepareSmall(s) ==
    /\ dr.j < dr.nblocks /\ NextBlockSize < MinBlock
    /\ small' = [small EXCEPT ![s] = TRUE]
    /\ smallIn' = [smallIn EXCEPT ![s] = NextBlockSize]
    /\ NoWork(s)
    /\ dr' = NextSlotOr("call")
    /\ UNCHANGED outIdx

PlaceInBatch == dr.j * BlockLength
Place == (dr.i + dr.j) * BlockLength

PrepareBlock(s) ==
    /\ dr.j < dr.nblocks /\ NextBlockSize >= MinBlock
    /\ small' = [small EXCEPT ![s] = FALSE]
    /\ inBlock' = [inBlock EXCEPT ![s] = NextBlockSize]
    /\ inIdx' = [inIdx EXCEPT ![s] = Place]
    /\ outIdx' = [outIdx EXCEPT ![s] = Place]
    /\ dr' = [NextSlotOr("call") EXCEPT !.read = @ + NextBlockSize]
    /\ UNCHANGED smallIn

PrepareAbsent(s) ==
    /\ dr.j >= dr.nblocks
    /\ NoWork(s)
    /\ dr' = NextSlotOr("call")
    /\ UNCHANGED <<small, smallIn, outIdx>>

Prepare ==
    /\ dr.pc = "prepare"
    /\ PrepareSmall(dr.j) \/ PrepareBlock(dr.j) \/ PrepareAbsent(dr.j)
    /\ Reset(dr.j)
    /\ UNCHANGED <<inputSize, sizes, mem>>

(* The engines run and the call returns when all have answered.  A size    *)
(* below the block's, without the flag, is that of a complete encoding.    *)
Written(s, a) ==
    [from |-> inIdx[s], bytes |-> inBlock[s], size |-> a.size,
     complete |-> ~a.limit /\ a.size < inBlock[s]]

Call ==
    /\ dr.pc = "call"
    /\ \E a \in [Slots -> UNION {Answers(inBlock[s]) : s \in Slots}] :
         /\ \A s \in Slots : a[s] \in Answers(inBlock[s])
         /\ outBlock' = [s \in Slots |-> a[s].size]
         /\ limit' = [s \in Slots |-> IF inBlock[s] = 0 THEN limit[s] ELSE a[s].limit]
         /\ mem' = [k \in Numbers |->
                      LET here == {s \in Slots : a[s].size > 0
                                                 /\ outIdx[s] = k * BlockLength}
                      IN  IF here = {} THEN mem[k]
                          ELSE LET s == CHOOSE s \in here : TRUE IN Written(s, a[s])]
    /\ dr' = [dr EXCEPT !.pc = "collect", !.j = 0]
    /\ UNCHANGED <<inputSize, small, smallIn, inBlock, inIdx, outIdx, sizes>>

(* The size of a block: its own where it is to be stored unchanged. *)
ReportedIgnoringLimit(s) == IF small[s] THEN smallIn[s] ELSE outBlock[s]
Reported(s) ==
    IF small[s] THEN smallIn[s] ELSE IF limit[s] THEN inBlock[s] ELSE outBlock[s]

Collect ==
    /\ dr.pc = "collect"
    /\ sizes' = [sizes EXCEPT ![dr.blockIdx] = Reported(dr.j)]
    /\ dr' = [dr EXCEPT !.blockIdx = @ + 1, !.j = @ + 1,
                        !.pc = IF dr.j + 1 < dr.nblocks THEN @ ELSE "test",
                        !.i = IF dr.j + 1 < dr.nblocks THEN @ ELSE @ + NumBlock]
    /\ UNCHANGED <<inputSize, slots, mem>>

Driver == StartBatch \/ Prepare \/ Call \/ Collect

DriverDone == dr.pc = "test" /\ dr.i >= NoBlocks

-----------------------------------------------------------------------------
(* Properties *)

(* The block of the input at number k. *)
FirstByte(k) == k * BlockLength
SizeOfBlock(k) ==
    IF FirstByte(k) + BlockLength > inputSize THEN inputSize - FirstByte(k) ELSE BlockLength

(* When the engines are called, slot s has exactly the block that is its   *)
(* turn: the blocks of a call follow one another without gap or overlap,   *)
(* whatever the sizes, and a slot whose turn is past the end has none.     *)
SlicesTile ==
    dr.pc = "call" =>
        \A s \in Slots :
            LET k == dr.i + s
            IN  IF k \in Numbers /\ SizeOfBlock(k) >= MinBlock
                THEN inIdx[s] = FirstByte(k) /\ inBlock[s] = SizeOfBlock(k)
                ELSE inBlock[s] = 0

(* Every size reported is true of the output: it is the block's own size,  *)
(* or the output memory holds a complete encoding of that block of exactly *)
(* that many bytes, and nobody has written over it since.                  *)
TrueSize(k) ==
    \/ sizes[k] = SizeOfBlock(k)
    \/ mem[k] = [from |-> FirstByte(k), bytes |-> SizeOfBlock(k), size |-> sizes[k],
                 complete |-> TRUE]

ReportsTrue == \A k \in Numbers : k < dr.blockIdx => TrueSize(k)

(* The engines of a batch write to the places of their own blocks, once:   *)
(* no batch writes where another one did.                                  *)
WritesOwnPlace ==
    [][\A k \in Numbers :
         mem'[k] # mem[k] => mem[k] = Untouched /\ mem'[k].from = FirstByte(k)
                             /\ k \in dr.i..dr.i + dr.nblocks - 1]_vars
=============================================================================
