--------------------------- MODULE Lz4FrameProofs ---------------------------
(***************************************************************************)
(* Theorems about the block driver and the packing by the host, for every  *)
(* number of engines, block length and input the driver accepts.           *)
(***************************************************************************)
EXTENDS Lz4Frame, TLAPS

States == {"test", "prepare", "call", "collect"}

Typed ==
    /\ inputSize \in Inputs
    /\ dr \in [pc : States, i : Nat, j : Nat, nblocks : Nat, read : Int, blockIdx : Nat]
    /\ small \in [Slots -> BOOLEAN] /\ limit \in [Slots -> BOOLEAN]
    /\ smallIn \in [Slots -> Int] /\ inBlock \in [Slots -> Int]
    /\ inIdx \in [Slots -> Int] /\ outIdx \in [Slots -> Int]
    /\ outBlock \in [Slots -> Int]
    /\ sizes \in [Numbers -> Int]
    /\ mem = [k \in Numbers |-> mem[k]]

(* The blocks before the k-th have been cut off the input; after the last  *)
(* one nothing is read, and the counter does not matter.                   *)
CutBefore(k) == k \in Numbers => dr.read = FirstByte(k)

(* What the counters of the driver amount to. *)
Counters ==
    /\ dr.pc = "test" =>
         /\ CutBefore(dr.i)
         /\ dr.blockIdx = IF dr.i < NoBlocks THEN dr.i ELSE NoBlocks
    /\ dr.pc # "test" => dr.i < NoBlocks /\ dr.nblocks = Batch
    /\ dr.pc = "prepare" =>
         dr.j < NumBlock /\ dr.blockIdx = dr.i /\ CutBefore(dr.i + dr.j)
    /\ dr.pc = "call" => dr.blockIdx = dr.i /\ CutBefore(dr.i + NumBlock)
    /\ dr.pc = "collect" =>
         dr.j < dr.nblocks /\ dr.blockIdx = dr.i + dr.j /\ CutBefore(dr.i + NumBlock)

(* Slot s has the block whose turn it is, or none.                         *)
Ready(s) ==
    IF dr.i + s \in Numbers /\ SizeOfBlock(dr.i + s) >= MinBlock
    THEN /\ ~small[s] /\ inBlock[s] = SizeOfBlock(dr.i + s)
         /\ inIdx[s] = FirstByte(dr.i + s) /\ outIdx[s] = FirstByte(dr.i + s)
    ELSE /\ inBlock[s] = 0
         /\ dr.i + s \in Numbers => small[s] /\ smallIn[s] = SizeOfBlock(dr.i + s)

Prepared ==
    /\ dr.pc = "prepare" => \A s \in Slots : s < dr.j => Ready(s)
    /\ dr.pc \in {"call", "collect"} => \A s \in Slots : Ready(s)

(* Block k is encoded in size bytes.                                       *)
EncodedIn(k, size) ==
    mem[k] = [from |-> FirstByte(k), bytes |-> SizeOfBlock(k), size |-> size,
              complete |-> TRUE]

Answered ==
    dr.pc = "collect" =>
        \A s \in Slots :
            dr.i + s \in Numbers /\ ~small[s] =>
                \/ limit[s]
                \/ outBlock[s] = SizeOfBlock(dr.i + s)
                \/ EncodedIn(dr.i + s, outBlock[s])

DriverInv == Typed /\ Counters /\ Prepared /\ Answered /\ ReportsTrue

-----------------------------------------------------------------------------
(* The blocks of an input. *)

LEMMA Constants ==
    /\ NumBlock \in Nat /\ NumBlock > 0 /\ BlockLength \in Nat /\ BlockLength > 0
    /\ MinBlock \in Nat /\ MinBlock > 0 /\ MinBlock <= BlockLength
    /\ WordMod \in Nat /\ BlockLength < WordMod
    /\ \A n \in Inputs : n \in Nat /\ n > 0 /\ n + BlockLength <= WordMod
    /\ 0 \in Slots
BY DriverAssumption DEF DriverAssumption, Slots

(* The places of the blocks, apart by the length of a block.               *)
LEMMA Places ==
    ASSUME NEW j \in Nat, NEW k \in Nat
    PROVE  /\ FirstByte(j) \in Nat /\ FirstByte(0) = 0
           /\ FirstByte(j + 1) = FirstByte(j) + BlockLength
           /\ j < k => FirstByte(j) + BlockLength <= FirstByte(k)
           /\ FirstByte(j) = FirstByte(k) => j = k
<1>1. BlockLength \in Nat /\ BlockLength > 0
  BY Constants
<1>2. \A l \in Nat : j * l \in Nat /\ 0 * l = 0 /\ (j + 1) * l = j * l + l
  OBVIOUS
<1>3. \A l, a, b \in Nat : a < b => a * l + l <= b * l
  <2> SUFFICES ASSUME NEW l \in Nat, NEW a \in Nat, NEW b \in Nat, a < b
               PROVE  a * l + l <= b * l
    OBVIOUS
  <2>1. PICK d \in Nat : b = a + 1 + d
    <3>1. b - a - 1 \in Nat /\ b = a + 1 + (b - a - 1)
      OBVIOUS
    <3> QED
      BY <3>1
  <2>2. b * l = a * l + l + d * l /\ d * l >= 0 /\ a * l \in Nat /\ d * l \in Nat
    BY <2>1
  <2> QED
    BY <2>2
<1>4. j < k => FirstByte(j) + BlockLength <= FirstByte(k)
  BY <1>1, <1>3 DEF FirstByte
<1>5. k < j => FirstByte(k) + BlockLength <= FirstByte(j)
  BY <1>1, <1>3 DEF FirstByte
<1>6. FirstByte(j) \in Nat /\ FirstByte(k) \in Nat
  BY <1>1, <1>2 DEF FirstByte
<1>7. FirstByte(0) = 0 /\ FirstByte(j + 1) = FirstByte(j) + BlockLength
  BY <1>1, <1>2 DEF FirstByte
<1> QED
  BY <1>1, <1>4, <1>5, <1>6, <1>7

(* Every block starts within the input; every one but the last is full.    *)
LEMMA BlocksOfInput ==
    ASSUME inputSize \in Inputs
    PROVE  /\ NoBlocks \in Nat /\ NoBlocks > 0
           /\ \A k \in Nat : k \in Numbers <=> k < NoBlocks
           /\ \A k \in Numbers : k \in Nat /\ FirstByte(k) < inputSize
                                 /\ SizeOfBlock(k) \in 1..BlockLength
           /\ \A k \in Numbers : k + 1 \in Numbers => SizeOfBlock(k) = BlockLength
<1>1. /\ inputSize \in Nat /\ inputSize > 0 /\ inputSize + BlockLength <= WordMod
      /\ BlockLength \in Nat /\ BlockLength > 0 /\ WordMod \in Nat
  BY Constants
<1> DEFINE q == (inputSize - 1) \div BlockLength
<1>2. NoBlocks = q + 1 /\ q \in Nat
  <2>1. \A x, w \in Nat : x < w => x % w = x
    OBVIOUS
  <2>2. inputSize - 1 \in Nat /\ inputSize - 1 < WordMod
    BY <1>1
  <2>3. (inputSize - 1) % WordMod = inputSize - 1
    BY <1>1, <2>1, <2>2
  <2>4. \A x, w \in Nat : w > 0 => x \div w \in Nat
    OBVIOUS
  <2> QED
    BY <1>1, <2>2, <2>3, <2>4 DEF NoBlocks
<1>3. q * BlockLength <= inputSize - 1
  <2>1. \A x, w \in Nat : w > 0 => (x \div w) * w <= x
    OBVIOUS
  <2>2. inputSize - 1 \in Nat
    BY <1>1
  <2> QED
    BY <1>1, <2>1, <2>2
<1>4. FirstByte(q) < inputSize /\ FirstByte(q) \in Nat
  BY <1>1, <1>2, <1>3, Places DEF FirstByte
<1> HIDE DEF q
<1>5. \A k \in Nat : k \in Numbers <=> k < NoBlocks
  BY <1>2 DEF Numbers
<1>6. ASSUME NEW k \in Numbers PROVE k \in Nat /\ k <= q
  BY <1>2 DEF Numbers
<1>7. ASSUME NEW k \in Numbers
      PROVE  FirstByte(k) < inputSize /\ SizeOfBlock(k) \in 1..BlockLength
  <2>1. k \in Nat /\ k <= q
    BY <1>6
  <2>2. FirstByte(k) \in Nat
    BY <2>1, Places
  <2>3. k < q => FirstByte(k) + BlockLength <= FirstByte(q)
    BY <2>1, <1>2, Places
  <2>4. FirstByte(k) < inputSize
    <3>1. CASE k = q
      BY <3>1, <1>4
    <3>2. CASE k < q
      BY <3>2, <2>2, <2>3, <1>1, <1>4
    <3> QED
      BY <2>1, <1>2, <3>1, <3>2
  <2> QED
    BY <1>1, <2>2, <2>4 DEF SizeOfBlock
<1>8. ASSUME NEW k \in Numbers, k + 1 \in Numbers PROVE SizeOfBlock(k) = BlockLength
  <2>1. k \in Nat /\ FirstByte(k) \in Nat /\ FirstByte(k + 1) < inputSize
    BY <1>6, <1>7, <1>8, Places
  <2>2. FirstByte(k + 1) = FirstByte(k) + BlockLength
    BY <2>1, Places
  <2> QED
    BY <1>1, <2>1, <2>2 DEF SizeOfBlock
<1> QED
  BY <1>2, <1>5, <1>6, <1>7, <1>8

(* The driver's own size of the next block is that of the block whose turn *)
(* it is: the sum does not wrap.                                           *)
LEMMA NextBlock ==
    ASSUME inputSize \in Inputs, NEW k \in Numbers, dr.read = FirstByte(k)
    PROVE  NextBlockSize = SizeOfBlock(k)
<1>1. /\ inputSize \in Nat /\ inputSize + BlockLength <= WordMod
      /\ BlockLength \in Nat /\ WordMod \in Nat
  BY Constants
<1>2. FirstByte(k) < inputSize /\ FirstByte(k) \in Nat
  BY BlocksOfInput, Places
<1>3. \A x, w \in Nat : x < w => x % w = x
  OBVIOUS
<1>4. (dr.read + BlockLength) % WordMod = dr.read + BlockLength
  BY <1>1, <1>2, <1>3
<1> QED
  BY <1>4 DEF NextBlockSize, SizeOfBlock

(* The blocks stay what they are as long as the input does.                *)
LEMMA SameInput ==
    ASSUME inputSize' = inputSize
    PROVE  /\ NoBlocks' = NoBlocks /\ Numbers' = Numbers
           /\ \A k : SizeOfBlock(k)' = SizeOfBlock(k)
BY DEF NoBlocks, Numbers, SizeOfBlock

-----------------------------------------------------------------------------
(* The driver. *)

LEMMA DriverInit == Init => DriverInv
<1> SUFFICES ASSUME Init PROVE DriverInv
  OBVIOUS
<1>1. Typed
  BY Constants DEF Init, Typed, States, Junk
<1>2. CutBefore(0)
  <2>1. FirstByte(0) = 0
    BY Places
  <2> QED
    BY <2>1 DEF Init, CutBefore
<1>3. 0 < NoBlocks
  BY <1>1, BlocksOfInput DEF Typed
<1>4. Counters /\ Prepared /\ Answered
  BY <1>2, <1>3 DEF Init, Counters, Prepared, Answered
<1>5. ReportsTrue
  <2>1. dr.blockIdx = 0
    BY DEF Init
  <2>2. \A k \in Numbers : ~(k < 0)
    BY DEF Numbers
  <2> QED
    BY <2>1, <2>2 DEF ReportsTrue
<1> QED
  BY <1>1, <1>4, <1>5 DEF DriverInv

LEMMA StartStep ==
    ASSUME DriverInv, StartBatch
    PROVE  DriverInv'
<1>1. /\ UNCHANGED <<inputSize, slots, sizes, mem>> /\ dr.pc = "test" /\ dr.i < NoBlocks
      /\ dr' = [dr EXCEPT !.pc = "prepare", !.j = 0, !.nblocks = Batch]
  BY DEF StartBatch
<1>2. /\ NoBlocks' = NoBlocks /\ Numbers' = Numbers
      /\ \A k : SizeOfBlock(k)' = SizeOfBlock(k)
  BY <1>1, SameInput
<1>3. Typed /\ dr.i \in Nat /\ NoBlocks \in Nat /\ NumBlock \in Nat /\ NumBlock > 0
  BY BlocksOfInput, Constants DEF DriverInv, Typed
<1>4. Batch \in Nat /\ Batch' = Batch
  <2>1. Batch \in Nat
    BY <1>1, <1>3 DEF Batch
  <2>2. dr'.i = dr.i
    BY <1>1, <1>3 DEF Typed
  <2> QED
    BY <1>2, <2>1, <2>2 DEF Batch
<1>5. /\ dr' \in [pc : States, i : Nat, j : Nat, nblocks : Nat, read : Int, blockIdx : Nat]
      /\ dr'.pc = "prepare" /\ dr'.i = dr.i /\ dr'.j = 0 /\ dr'.nblocks = Batch
      /\ dr'.read = dr.read /\ dr'.blockIdx = dr.blockIdx
  BY <1>1, <1>3, <1>4 DEF Typed, States
<1>6. Typed'
  BY <1>1, <1>2, <1>3, <1>5 DEF Typed, slots
<1>7. Counters'
  <2>1. CutBefore(dr.i) /\ dr.blockIdx = dr.i
    BY <1>1 DEF DriverInv, Counters
  <2>2. dr.i \in Numbers' => dr'.read = FirstByte(dr.i)
    BY <1>2, <1>5, <2>1 DEF CutBefore
  <2>3. dr'.i + dr'.j = dr.i
    BY <1>3, <1>5
  <2>4. CutBefore(dr.i + dr.j)'
    BY <2>2, <2>3 DEF CutBefore, FirstByte
  <2> QED
    BY <1>1, <1>2, <1>3, <1>4, <1>5, <2>1, <2>4 DEF Counters
<1>8. Prepared' /\ Answered'
  BY <1>5 DEF Prepared, Answered, Slots
<1>9. ReportsTrue'
  BY <1>1, <1>2, <1>5 DEF DriverInv, ReportsTrue, TrueSize, FirstByte
<1> QED
  BY <1>6, <1>7, <1>8, <1>9 DEF DriverInv

(* Preparing a slot gives it the block whose turn it is and moves the cut. *)
LEMMA PrepareStep ==
    ASSUME DriverInv, Prepare
    PROVE  DriverInv'
<1>1. UNCHANGED <<inputSize, sizes, mem>> /\ dr.pc = "prepare" /\ Reset(dr.j)
  BY DEF Prepare
<1>2. /\ NoBlocks' = NoBlocks /\ Numbers' = Numbers
      /\ \A k : SizeOfBlock(k)' = SizeOfBlock(k)
  BY <1>1, SameInput
<1>3. /\ Typed /\ Counters /\ Prepared /\ NoBlocks \in Nat
      /\ NumBlock \in Nat /\ NumBlock > 0
  BY BlocksOfInput, Constants DEF DriverInv, Typed
<1>4. PICK i \in Nat, j \in Slots : i = dr.i /\ j = dr.j
  BY <1>1, <1>3 DEF Typed, Counters, Slots
<1>5. j \in Nat /\ i + j \in Nat /\ j < NumBlock
  BY <1>3, <1>4 DEF Slots
<1>6. dr.nblocks = Batch /\ i < NoBlocks /\ CutBefore(i + j) /\ dr.blockIdx = i
  BY <1>1, <1>3, <1>4 DEF Counters
<1>7. j < dr.nblocks <=> i + j \in Numbers
  <2>1. i + j \in Numbers <=> i + j < NoBlocks
    BY <1>3, <1>5, BlocksOfInput DEF Typed
  <2> QED
    BY <1>3, <1>4, <1>5, <1>6, <2>1 DEF Batch
<1>8. j < dr.nblocks =>
        /\ NextBlockSize = SizeOfBlock(i + j) /\ SizeOfBlock(i + j) \in 1..BlockLength
        /\ dr.read = FirstByte(i + j)
        /\ (i + j) + 1 \in Numbers => SizeOfBlock(i + j) = BlockLength
  BY <1>3, <1>6, <1>7, NextBlock, BlocksOfInput DEF CutBefore, Typed
<1>9. /\ FirstByte(i + j) \in Nat /\ Place = FirstByte(i + j)
      /\ FirstByte((i + j) + 1) = FirstByte(i + j) + BlockLength
  BY <1>4, <1>5, Places DEF Place, FirstByte
<1> DEFINE Moves(read) ==
             /\ dr' \in [pc : States, i : Nat, j : Nat, nblocks : Nat, read : Int,
                          blockIdx : Nat]
             /\ dr'.i = i /\ dr'.nblocks = dr.nblocks /\ dr'.blockIdx = i /\ dr'.read = read
             /\ \/ dr'.pc = "prepare" /\ j + 1 < NumBlock /\ dr'.j = j + 1
                \/ dr'.pc = "call" /\ j + 1 = NumBlock /\ dr'.j = 0
<1>10. ASSUME NEW read \in Int, NEW now,
              now = NextSlotOr("call"), dr' = [now EXCEPT !.read = read]
       PROVE  Moves(read)
  <2>1. /\ dr \in [pc : States, i : Nat, j : Nat, nblocks : Nat, read : Int, blockIdx : Nat]
        /\ dr.pc = "prepare" /\ dr.i = i /\ dr.j = j /\ dr.blockIdx = i
    BY <1>1, <1>3, <1>4, <1>6 DEF Typed
  <2>2. CASE j < NumBlock - 1
    <3>1. now = [dr EXCEPT !.j = j + 1]
      BY <1>10, <2>1, <2>2 DEF NextSlotOr
    <3>2. j + 1 \in Nat /\ j + 1 < NumBlock
      BY <1>3, <1>5, <2>2
    <3> QED
      BY <1>10, <2>1, <3>1, <3>2
  <2>3. CASE ~(j < NumBlock - 1)
    <3>1. now = [dr EXCEPT !.pc = "call", !.j = 0]
      BY <1>10, <2>1, <2>3 DEF NextSlotOr
    <3>2. j + 1 = NumBlock /\ "call" \in States
      BY <1>3, <1>5, <2>3 DEF States
    <3>3. now \in [pc : States, i : Nat, j : Nat, nblocks : Nat, read : Int, blockIdx : Nat]
      BY <2>1, <3>1, <3>2
    <3>4. now.pc = "call" /\ now.j = 0 /\ now.i = i /\ now.nblocks = dr.nblocks /\ now.blockIdx = i
      BY <2>1, <3>1
    <3> QED
      BY <1>10, <3>2, <3>3, <3>4
  <2> QED
    BY <2>2, <2>3
<1>11. /\ \A read \in Int : dr' = [NextSlotOr("call") EXCEPT !.read = read] => Moves(read)
       /\ dr' = NextSlotOr("call") => Moves(dr.read)
  <2>1. ASSUME dr' = NextSlotOr("call") PROVE dr' = [NextSlotOr("call") EXCEPT !.read = dr.read]
    <3>1. dr \in [pc : States, i : Nat, j : Nat, nblocks : Nat, read : Int, blockIdx : Nat]
      BY <1>3 DEF Typed
    <3>2. CASE dr.j < NumBlock - 1
      <4>1. dr' = [dr EXCEPT !.j = dr.j + 1]
        BY <2>1, <3>2 DEF NextSlotOr
      <4>2. dr' = [dr' EXCEPT !.read = dr.read]
        BY <3>1, <4>1
      <4> QED
        BY <2>1, <4>2
    <3>3. CASE ~(dr.j < NumBlock - 1)
      <4>1. dr' = [dr EXCEPT !.pc = "call", !.j = 0]
        BY <2>1, <3>3 DEF NextSlotOr
      <4>2. dr' = [dr' EXCEPT !.read = dr.read]
        BY <3>1, <4>1
      <4> QED
        BY <2>1, <4>2
    <3> QED
      BY <3>2, <3>3
  <2>2. dr.read \in Int
    BY <1>3 DEF Typed
  <2> HIDE DEF Moves
  <2>3. \A read \in Int : dr' = [NextSlotOr("call") EXCEPT !.read = read] => Moves(read)
    BY <1>10
  <2> QED
    BY <2>1, <2>2, <2>3
<1> HIDE DEF Moves
<1> DEFINE SlotTypes ==
             /\ small' \in [Slots -> BOOLEAN] /\ smallIn' \in [Slots -> Int]
             /\ inBlock' \in [Slots -> Int]
             /\ inIdx' \in [Slots -> Int] /\ outIdx' \in [Slots -> Int]
           Others == \A s \in Slots \ {j} :
                        /\ small'[s] = small[s] /\ smallIn'[s] = smallIn[s]
                        /\ inBlock'[s] = inBlock[s] /\ inIdx'[s] = inIdx[s]
                        /\ outIdx'[s] = outIdx[s]
           ReadyNow == IF i + j \in Numbers /\ SizeOfBlock(i + j) >= MinBlock
                       THEN /\ ~small'[j] /\ inBlock'[j] = SizeOfBlock(i + j)
                            /\ inIdx'[j] = FirstByte(i + j) /\ outIdx'[j] = FirstByte(i + j)
                       ELSE /\ inBlock'[j] = 0
                            /\ i + j \in Numbers => small'[j] /\ smallIn'[j] = SizeOfBlock(i + j)
           Cut(read) == (i + j) + 1 \in Numbers => read = FirstByte((i + j) + 1)
<1>12. \E read \in Int : Moves(read) /\ SlotTypes /\ Others /\ ReadyNow /\ Cut(read)
  <2>0. /\ small \in [Slots -> BOOLEAN] /\ smallIn \in [Slots -> Int]
        /\ inBlock \in [Slots -> Int] /\ inIdx \in [Slots -> Int]
        /\ outIdx \in [Slots -> Int] /\ dr.read \in Int
    BY <1>3 DEF Typed
  <2>1. CASE PrepareSmall(j)
    <3>1. /\ j < dr.nblocks /\ NextBlockSize < MinBlock
          /\ small' = [small EXCEPT ![j] = TRUE]
          /\ smallIn' = [smallIn EXCEPT ![j] = NextBlockSize]
          /\ inBlock' = [inBlock EXCEPT ![j] = 0] /\ inIdx' = [inIdx EXCEPT ![j] = 0]
          /\ outIdx' = outIdx /\ dr' = NextSlotOr("call")
      BY <1>4, <2>1 DEF PrepareSmall, NoWork
    <3>2. /\ i + j \in Numbers /\ NextBlockSize = SizeOfBlock(i + j) /\ NextBlockSize \in Int
          /\ ~(SizeOfBlock(i + j) >= MinBlock) /\ ~(SizeOfBlock(i + j) = BlockLength)
      BY <1>7, <1>8, <3>1, Constants
    <3>3. SlotTypes /\ Others /\ ReadyNow
      BY <2>0, <3>1, <3>2
    <3>4. Cut(dr.read)
      BY <1>8, <3>1, <3>2
    <3> QED
      BY <1>11, <2>0, <3>1, <3>3, <3>4
  <2>2. CASE PrepareBlock(j)
    <3>1. /\ j < dr.nblocks /\ NextBlockSize >= MinBlock
          /\ small' = [small EXCEPT ![j] = FALSE] /\ smallIn' = smallIn
          /\ inBlock' = [inBlock EXCEPT ![j] = NextBlockSize]
          /\ inIdx' = [inIdx EXCEPT ![j] = Place] /\ outIdx' = [outIdx EXCEPT ![j] = Place]
          /\ dr' = [NextSlotOr("call") EXCEPT !.read = @ + NextBlockSize]
      BY <1>4, <2>2 DEF PrepareBlock
    <3>2. /\ i + j \in Numbers /\ NextBlockSize = SizeOfBlock(i + j) /\ NextBlockSize \in Int
          /\ SizeOfBlock(i + j) >= MinBlock
      BY <1>7, <1>8, <3>1
    <3>3. SlotTypes /\ Others /\ ReadyNow
      BY <1>9, <2>0, <3>1, <3>2
    <3>4. Cut(dr.read + NextBlockSize)
      BY <1>8, <1>9, <3>1, <3>2
    <3>5. dr.read + NextBlockSize \in Int /\ Moves(dr.read + NextBlockSize)
      <4>1. NextSlotOr("call").read = dr.read
        <5>1. dr.read \in Int /\ dr \in [pc : States, i : Nat, j : Nat, nblocks : Nat,
                                         read : Int, blockIdx : Nat]
          BY <1>3 DEF Typed
        <5> QED
          BY <5>1 DEF NextSlotOr
      <4>2. dr' = [NextSlotOr("call") EXCEPT !.read = dr.read + NextBlockSize]
        BY <3>1, <4>1
      <4>3. dr.read + NextBlockSize \in Int
        BY <2>0, <3>2
      <4> QED
        BY <1>11, <4>2, <4>3
    <3> QED
      BY <3>3, <3>4, <3>5
  <2>3. CASE PrepareAbsent(j)
    <3>1. /\ ~(j < dr.nblocks) /\ small' = small /\ smallIn' = smallIn /\ outIdx' = outIdx
          /\ inBlock' = [inBlock EXCEPT ![j] = 0] /\ inIdx' = [inIdx EXCEPT ![j] = 0]
          /\ dr' = NextSlotOr("call")
      <4>1. /\ dr.j >= dr.nblocks /\ NoWork(j) /\ UNCHANGED <<small, smallIn, outIdx>>
            /\ dr' = NextSlotOr("call")
        BY <2>3 DEF PrepareAbsent
      <4>2. ~(j < dr.nblocks)
        BY <1>3, <1>4, <1>5, <4>1 DEF Typed
      <4> QED
        BY <4>1, <4>2 DEF NoWork
    <3>2. ~(i + j \in Numbers) /\ ~((i + j) + 1 \in Numbers)
      <4>1. ~(i + j \in Numbers)
        BY <1>7, <3>1
      <4>2. /\ i + j \in Numbers <=> i + j < NoBlocks
            /\ (i + j) + 1 \in Numbers <=> (i + j) + 1 < NoBlocks
        BY <1>3, <1>5, BlocksOfInput DEF Typed
      <4> QED
        BY <1>3, <1>5, <4>1, <4>2
    <3>3. SlotTypes /\ Others /\ ReadyNow
      BY <2>0, <3>1, <3>2
    <3>4. Cut(dr.read)
      BY <3>2
    <3> QED
      BY <1>11, <2>0, <3>1, <3>3, <3>4
  <2> QED
    BY <1>4, <2>1, <2>2, <2>3 DEF Prepare
<1>13. PICK read \in Int : Moves(read) /\ SlotTypes /\ Others /\ ReadyNow /\ Cut(read)
  BY <1>12
<1>14. Typed'
  <2>1. outBlock' \in [Slots -> Int]
    <3>1. outBlock' = [outBlock EXCEPT ![j] = 0] /\ outBlock \in [Slots -> Int] /\ 0 \in Int
      BY <1>1, <1>3, <1>4 DEF Reset, Typed
    <3> QED
      BY <3>1, Zenon
  <2>2. limit' \in [Slots -> BOOLEAN]
    BY <1>1, <1>3 DEF Reset, Typed
  <2> QED
    BY <1>1, <1>2, <1>3, <1>13, <2>1, <2>2 DEF Typed, Moves
<1>15. Counters'
  <2>1. CutBefore((i + j) + 1)'
    BY <1>2, <1>13 DEF CutBefore, Moves, FirstByte
  <2>2. Batch' = Batch
    BY <1>2, <1>4, <1>13 DEF Batch, Moves
  <2>3. CASE dr'.pc = "prepare"
    <3>1. dr'.i + dr'.j = (i + j) + 1 /\ dr'.j < NumBlock
      BY <1>3, <1>5, <1>13, <2>3 DEF Moves
    <3>2. CutBefore(dr.i + dr.j)'
      BY <2>1, <3>1 DEF CutBefore, FirstByte
    <3> QED
      BY <1>2, <1>6, <1>13, <2>2, <2>3, <3>1, <3>2 DEF Counters, Moves
  <2>4. CASE dr'.pc = "call"
    <3>1. dr'.i + NumBlock = (i + j) + 1
      BY <1>3, <1>5, <1>13, <2>4 DEF Moves
    <3>2. CutBefore(dr.i + NumBlock)'
      BY <2>1, <3>1 DEF CutBefore, FirstByte
    <3> QED
      BY <1>2, <1>6, <1>13, <2>2, <2>4, <3>2 DEF Counters, Moves
  <2> QED
    BY <1>13, <2>3, <2>4 DEF Moves
<1>16. Prepared'
  <2>1. Ready(j)'
    BY <1>2, <1>13 DEF Ready, Moves, FirstByte
  <2>2. ASSUME NEW s \in Slots, s < j PROVE Ready(s)'
    <3>1. Ready(s) /\ s # j
      BY <1>1, <1>3, <1>4, <1>5, <2>2 DEF Prepared, Slots
    <3>2. /\ small'[s] = small[s] /\ smallIn'[s] = smallIn[s] /\ inBlock'[s] = inBlock[s]
          /\ inIdx'[s] = inIdx[s] /\ outIdx'[s] = outIdx[s] /\ dr'.i = dr.i
      BY <1>4, <1>13, <3>1 DEF Moves
    <3> QED
      BY <1>2, <3>1, <3>2 DEF Ready, FirstByte
  <2>3. ASSUME NEW s \in Slots, s < j + 1 PROVE Ready(s)'
    <3>1. s < j \/ s = j
      BY <1>5, <2>3 DEF Slots
    <3> QED
      BY <2>1, <2>2, <3>1
  <2>4. \A s \in Slots : j + 1 = NumBlock => s < j + 1
    BY <1>3, <1>5 DEF Slots
  <2> QED
    BY <1>13, <2>3, <2>4 DEF Prepared, Moves
<1>17. Answered'
  BY <1>13 DEF Answered, Moves
<1>18. ReportsTrue'
  BY <1>1, <1>2, <1>6, <1>13 DEF DriverInv, ReportsTrue, TrueSize, FirstByte, Moves
<1> QED
  BY <1>14, <1>15, <1>16, <1>17, <1>18 DEF DriverInv

(* The engines of a call write at the places of their own blocks only.     *)
LEMMA CallStep ==
    ASSUME DriverInv, Call
    PROVE  DriverInv'
<1>1. /\ UNCHANGED <<inputSize, small, smallIn, inBlock, inIdx, outIdx, sizes>>
      /\ dr.pc = "call" /\ dr' = [dr EXCEPT !.pc = "collect", !.j = 0]
  BY DEF Call
<1>2. /\ NoBlocks' = NoBlocks /\ Numbers' = Numbers
      /\ \A k : SizeOfBlock(k)' = SizeOfBlock(k)
  BY <1>1, SameInput
<1>3. /\ Typed /\ Counters /\ Prepared /\ NoBlocks \in Nat
      /\ NumBlock \in Nat /\ NumBlock > 0
  BY BlocksOfInput, Constants DEF DriverInv, Typed
<1>4. PICK i \in Nat : i = dr.i
  BY <1>3 DEF Typed
<1>5. /\ i < NoBlocks /\ dr.nblocks = Batch /\ dr.blockIdx = i /\ CutBefore(i + NumBlock)
      /\ \A s \in Slots : Ready(s)
  BY <1>1, <1>3, <1>4 DEF Counters, Prepared
<1>6. Batch \in Nat /\ Batch > 0
  BY <1>3, <1>4, <1>5 DEF Batch
<1>7. /\ dr' \in [pc : States, i : Nat, j : Nat, nblocks : Nat, read : Int, blockIdx : Nat]
      /\ dr'.pc = "collect" /\ dr'.i = i /\ dr'.j = 0 /\ dr'.nblocks = dr.nblocks
      /\ dr'.read = dr.read /\ dr'.blockIdx = i
  BY <1>1, <1>3, <1>4, <1>5 DEF Typed, States
<1>8. PICK a \in [Slots -> UNION {Answers(inBlock[s]) : s \in Slots}] :
        /\ \A s \in Slots : a[s] \in Answers(inBlock[s])
        /\ outBlock' = [s \in Slots |-> a[s].size]
        /\ limit' = [s \in Slots |-> IF inBlock[s] = 0 THEN limit[s] ELSE a[s].limit]
        /\ mem' = [k \in Numbers |->
                     LET here == {s \in Slots : a[s].size > 0
                                                /\ outIdx[s] = k * BlockLength}
                     IN  IF here = {} THEN mem[k]
                         ELSE LET s == CHOOSE s \in here : TRUE IN Written(s, a[s])]
  BY DEF Call
<1>9. ASSUME NEW s \in Slots
      PROVE  /\ a[s].size \in Nat /\ a[s].limit \in BOOLEAN
             /\ a[s].size > 0 => /\ i + s \in Numbers /\ outIdx[s] = FirstByte(i + s)
                                  /\ ~small[s]
             /\ (i + s \in Numbers /\ ~small[s]) =>
                    /\ a[s].size \in 1..SizeOfBlock(i + s)
                    /\ inBlock[s] = SizeOfBlock(i + s) /\ inBlock[s] # 0
                    /\ inIdx[s] = FirstByte(i + s)
  <2>1. a[s] \in Answers(inBlock[s]) /\ Ready(s) /\ s \in Nat
    BY <1>5, <1>8 DEF Slots
  <2>2. CASE inBlock[s] = 0
    <3>1. a[s].size = 0 /\ a[s].limit = FALSE
      BY <2>1, <2>2 DEF Answers
    <3>2. i + s \in Numbers => small[s]
      <4>1. i + s \in Numbers => SizeOfBlock(i + s) \in 1..BlockLength
        BY <1>3, BlocksOfInput DEF Typed
      <4>2. i + s \in Numbers => SizeOfBlock(i + s) # 0
        BY <4>1, Constants
      <4> QED
        BY <1>4, <2>1, <2>2, <4>2 DEF Ready
    <3>3. a[s].size \in Nat /\ ~(a[s].size > 0)
      BY <3>1
    <3>4. a[s].limit \in BOOLEAN
      BY <3>1
    <3> QED
      BY <3>2, <3>3, <3>4
  <2>3. CASE inBlock[s] # 0
    <3>1. a[s] \in [limit : BOOLEAN, size : 1..inBlock[s]]
      BY <2>1, <2>3 DEF Answers
    <3>2. /\ i + s \in Numbers /\ ~small[s] /\ inBlock[s] = SizeOfBlock(i + s)
          /\ inIdx[s] = FirstByte(i + s) /\ outIdx[s] = FirstByte(i + s)
      BY <1>4, <2>1, <2>3 DEF Ready
    <3>3. a[s].limit \in BOOLEAN /\ a[s].size \in 1..SizeOfBlock(i + s)
      BY <3>1, <3>2
    <3>4. a[s].size \in Nat
      <4>1. SizeOfBlock(i + s) \in 1..BlockLength
        BY <1>3, <3>2, BlocksOfInput DEF Typed
      <4> QED
        BY <3>3, <4>1, Constants
    <3> QED
      BY <2>3, <3>2, <3>3, <3>4
  <2> QED
    BY <2>2, <2>3
<1> DEFINE Here(k) == {s \in Slots : a[s].size > 0 /\ outIdx[s] = k * BlockLength}
<1>10. mem' = [k \in Numbers |-> IF Here(k) = {} THEN mem[k]
                                 ELSE Written(CHOOSE s \in Here(k) : TRUE,
                                              a[CHOOSE s \in Here(k) : TRUE])]
  BY <1>8
<1>11. ASSUME NEW k \in Numbers, NEW s \in Here(k)
       PROVE  s \in Slots /\ k = i + s /\ i + s \in Numbers /\ ~small[s]
  <2>1. s \in Slots /\ outIdx[s] = FirstByte(k) /\ a[s].size > 0
    BY <1>11 DEF FirstByte
  <2>2. outIdx[s] = FirstByte(i + s) /\ i + s \in Numbers /\ ~small[s]
    BY <1>9, <2>1
  <2>3. k \in Nat /\ i + s \in Nat
    BY <2>2 DEF Numbers
  <2> QED
    BY <2>1, <2>2, <2>3, Places
<1>12. ASSUME NEW s \in Slots, i + s \in Numbers, ~small[s]
       PROVE  mem'[i + s] = Written(s, a[s])
  <2>1. s \in Here(i + s)
    <3>1. a[s].size \in 1..SizeOfBlock(i + s) /\ inBlock[s] # 0
      BY <1>9, <1>12
    <3>2. a[s].size > 0 /\ SizeOfBlock(i + s) \in 1..BlockLength
      BY <1>3, <1>9, <1>12, <3>1, BlocksOfInput, Constants DEF Typed
    <3>3. outIdx[s] = (i + s) * BlockLength
      BY <1>9, <1>12, <3>2 DEF FirstByte
    <3> QED
      BY <3>2, <3>3
  <2>2. PICK t \in Here(i + s) : t = CHOOSE u \in Here(i + s) : TRUE
    BY <2>1
  <2>3. t = s
    <3>1. i + s = i + t /\ t \in Slots
      BY <1>11, <1>12
    <3> QED
      BY <3>1 DEF Slots
  <2>4. mem'[i + s] = Written(t, a[t])
    BY <1>10, <1>12, <2>1, <2>2
  <2> QED
    BY <2>3, <2>4
<1>13. ASSUME NEW k \in Numbers, k < i PROVE mem'[k] = mem[k]
  <2>1. Here(k) = {}
    <3> SUFFICES ASSUME NEW s \in Here(k) PROVE FALSE
      OBVIOUS
    <3>1. k = i + s /\ s \in Slots
      BY <1>11
    <3> QED
      BY <1>13, <3>1 DEF Slots, Numbers
  <2> QED
    BY <1>10, <2>1
<1>14. /\ mem' = [k \in Numbers |-> mem'[k]]
       /\ outBlock' \in [Slots -> Int] /\ limit' \in [Slots -> BOOLEAN]
       /\ \A s \in Slots : outBlock'[s] = a[s].size
       /\ \A s \in Slots : inBlock[s] # 0 => limit'[s] = a[s].limit
  <2>1. mem' = [k \in Numbers |-> mem'[k]]
    BY <1>10
  <2>2. outBlock' \in [Slots -> Int] /\ \A s \in Slots : outBlock'[s] = a[s].size
    <3>1. \A s \in Slots : a[s].size \in Int
      BY <1>9
    <3> QED
      BY <1>8, <3>1
  <2>3. limit' \in [Slots -> BOOLEAN] /\ \A s \in Slots : inBlock[s] # 0 => limit'[s] = a[s].limit
    <3>1. \A s \in Slots : limit[s] \in BOOLEAN /\ a[s].limit \in BOOLEAN
      BY <1>3, <1>9 DEF Typed
    <3> QED
      BY <1>8, <3>1
  <2> QED
    BY <2>1, <2>2, <2>3
<1>15. Typed'
  BY <1>1, <1>2, <1>3, <1>7, <1>14 DEF Typed
<1>16. Counters'
  <2>1. Batch' = Batch
    BY <1>2, <1>4, <1>7 DEF Batch
  <2>2. CutBefore(i + NumBlock)' /\ dr'.i + NumBlock = i + NumBlock /\ dr'.i + dr'.j = i
    BY <1>2, <1>5, <1>7 DEF CutBefore, FirstByte
  <2>3. CutBefore(dr.i + NumBlock)'
    BY <2>2 DEF CutBefore, FirstByte
  <2> QED
    BY <1>2, <1>5, <1>6, <1>7, <2>1, <2>2, <2>3 DEF Counters
<1>17. Prepared'
  <2>1. ASSUME NEW s \in Slots PROVE Ready(s)'
    BY <1>1, <1>2, <1>4, <1>5, <1>7 DEF Ready, FirstByte
  <2> QED
    BY <1>7, <2>1 DEF Prepared
<1>18. Answered'
  <2> SUFFICES ASSUME NEW s \in Slots, i + s \in Numbers, ~small[s], ~limit'[s],
                      outBlock'[s] # SizeOfBlock(i + s)
               PROVE  mem'[i + s] = [from |-> FirstByte(i + s), bytes |-> SizeOfBlock(i + s),
                                     size |-> outBlock'[s], complete |-> TRUE]
    BY <1>1, <1>2, <1>7 DEF Answered, EncodedIn, FirstByte
  <2>1. mem'[i + s] = Written(s, a[s])
    BY <1>12
  <2>2. /\ a[s].size \in 1..SizeOfBlock(i + s) /\ inBlock[s] = SizeOfBlock(i + s)
        /\ inBlock[s] # 0 /\ inIdx[s] = FirstByte(i + s)
    BY <1>9
  <2>3. outBlock'[s] = a[s].size /\ limit'[s] = a[s].limit
    BY <1>14, <2>2
  <2>4. a[s].size < inBlock[s]
    <3>1. SizeOfBlock(i + s) \in 1..BlockLength
      BY <1>3, BlocksOfInput DEF Typed
    <3> QED
      BY <2>2, <2>3, <3>1, Constants
  <2>5. (~a[s].limit /\ a[s].size < inBlock[s]) = TRUE
    BY <2>3, <2>4
  <2> QED
    BY <2>1, <2>2, <2>3, <2>5 DEF Written
<1>19. ReportsTrue'
  BY <1>1, <1>2, <1>5, <1>7, <1>13 DEF DriverInv, ReportsTrue, TrueSize, FirstByte
<1> QED
  BY <1>15, <1>16, <1>17, <1>18, <1>19 DEF DriverInv

(* What is reported of a block is its own size or that of its encoding.    *)
LEMMA CollectStep ==
    ASSUME DriverInv, Collect
    PROVE  DriverInv'
<1>1. /\ UNCHANGED <<inputSize, slots, mem>> /\ dr.pc = "collect"
      /\ sizes' = [sizes EXCEPT ![dr.blockIdx] = Reported(dr.j)]
      /\ dr' = [dr EXCEPT !.blockIdx = dr.blockIdx + 1, !.j = dr.j + 1,
                          !.pc = IF dr.j + 1 < dr.nblocks THEN dr.pc ELSE "test",
                          !.i = IF dr.j + 1 < dr.nblocks THEN dr.i ELSE dr.i + NumBlock]
  BY DEF Collect
<1>2. /\ NoBlocks' = NoBlocks /\ Numbers' = Numbers
      /\ \A k : SizeOfBlock(k)' = SizeOfBlock(k)
  BY <1>1, SameInput
<1>3. /\ Typed /\ Counters /\ Prepared /\ Answered /\ NoBlocks \in Nat
      /\ NumBlock \in Nat /\ NumBlock > 0
  BY BlocksOfInput, Constants DEF DriverInv, Typed
<1>4. PICK i \in Nat, j \in Nat : i = dr.i /\ j = dr.j
  BY <1>3 DEF Typed
<1>5. /\ j < dr.nblocks /\ dr.nblocks = Batch /\ i < NoBlocks /\ dr.blockIdx = i + j
      /\ CutBefore(i + NumBlock) /\ dr.nblocks \in Nat /\ dr.read \in Int
  BY <1>1, <1>3, <1>4 DEF Counters, Typed
<1>6. i + j < NoBlocks /\ j < NumBlock /\ Batch \in Nat
  <2>1. Batch = IF i + NumBlock > NoBlocks THEN NoBlocks - i ELSE NumBlock
    BY <1>4 DEF Batch
  <2>2. j < Batch
    BY <1>5
  <2>3. CASE i + NumBlock > NoBlocks
    BY <1>3, <1>5, <2>1, <2>2, <2>3
  <2>4. CASE ~(i + NumBlock > NoBlocks)
    BY <1>3, <1>5, <2>1, <2>2, <2>4
  <2> QED
    BY <2>3, <2>4
<1>7. i + j \in Numbers /\ j \in Slots
  <2>1. i + j \in Nat /\ (i + j \in Numbers <=> i + j < NoBlocks)
    BY <1>3, BlocksOfInput DEF Typed
  <2> QED
    BY <1>3, <1>6, <2>1 DEF Slots
<1>8. /\ dr'.blockIdx = (i + j) + 1 /\ dr'.j = j + 1 /\ dr'.read = dr.read
      /\ dr'.nblocks = dr.nblocks
      /\ dr' \in [pc : States, i : Nat, j : Nat, nblocks : Nat, read : Int, blockIdx : Nat]
      /\ \/ j + 1 < dr.nblocks /\ dr'.pc = "collect" /\ dr'.i = i
         \/ ~(j + 1 < dr.nblocks) /\ dr'.pc = "test" /\ dr'.i = i + NumBlock
  <2>1. /\ dr \in [pc : States, i : Nat, j : Nat, nblocks : Nat, read : Int, blockIdx : Nat]
        /\ {"test", "collect"} \subseteq States
    BY <1>3 DEF Typed, States
  <2>2. j + 1 \in Nat /\ (i + j) + 1 \in Nat /\ i + NumBlock \in Nat
    BY <1>3
  <2>3. CASE j + 1 < dr.nblocks
    <3>1. dr' = [dr EXCEPT !.blockIdx = (i + j) + 1, !.j = j + 1, !.pc = "collect", !.i = i]
      BY <1>1, <1>4, <1>5, <2>3
    <3> QED
      BY <2>1, <2>2, <2>3, <3>1
  <2>4. CASE ~(j + 1 < dr.nblocks)
    <3>1. dr' = [dr EXCEPT !.blockIdx = (i + j) + 1, !.j = j + 1, !.pc = "test",
                           !.i = i + NumBlock]
      BY <1>1, <1>4, <1>5, <2>4
    <3> QED
      BY <2>1, <2>2, <2>4, <3>1
  <2> QED
    BY <2>3, <2>4
<1>9. Ready(j) /\ (~small[j] => \/ limit[j] \/ outBlock[j] = SizeOfBlock(i + j)
                                \/ EncodedIn(i + j, outBlock[j]))
  BY <1>1, <1>3, <1>4, <1>7 DEF Prepared, Answered
<1>10. \/ Reported(j) = SizeOfBlock(i + j)
       \/ EncodedIn(i + j, Reported(j))
  <2>1. CASE small[j]
    <3>1. smallIn[j] = SizeOfBlock(i + j)
      BY <1>4, <1>7, <1>9, <2>1 DEF Ready
    <3> QED
      BY <2>1, <3>1 DEF Reported
  <2>2. CASE ~small[j] /\ limit[j]
    <3>1. inBlock[j] = SizeOfBlock(i + j)
      BY <1>4, <1>7, <1>9, <2>2 DEF Ready
    <3> QED
      BY <2>2, <3>1 DEF Reported
  <2>3. CASE ~small[j] /\ ~limit[j]
    BY <1>9, <2>3 DEF Reported
  <2> QED
    BY <2>1, <2>2, <2>3
<1>11. Reported(j) \in Int
  BY <1>3, <1>7 DEF Reported, Typed
<1>12. /\ sizes' \in [Numbers -> Int] /\ sizes'[i + j] = Reported(j)
       /\ \A k \in Numbers : k # i + j => sizes'[k] = sizes[k]
  <2>1. sizes' = [sizes EXCEPT ![i + j] = Reported(j)] /\ sizes \in [Numbers -> Int]
    BY <1>1, <1>3, <1>4, <1>5 DEF Typed
  <2> QED
    BY <1>7, <1>11, <2>1
<1>13. Typed'
  BY <1>1, <1>2, <1>3, <1>8, <1>12 DEF Typed, slots
<1>14. Counters'
  <2>1. CASE j + 1 < dr.nblocks
    <3>1. Batch' = Batch
      BY <1>2, <1>4, <1>8, <2>1 DEF Batch
    <3>2. CutBefore(dr.i + NumBlock)' /\ dr'.i + dr'.j = (i + j) + 1
      BY <1>2, <1>5, <1>8, <2>1 DEF CutBefore, FirstByte
    <3> QED
      BY <1>2, <1>5, <1>6, <1>8, <2>1, <3>1, <3>2 DEF Counters
  <2>2. CASE ~(j + 1 < dr.nblocks)
    <3>1. CutBefore(dr.i)'
      BY <1>2, <1>5, <1>8, <2>2 DEF CutBefore, FirstByte
    <3>2. j + 1 = Batch
      BY <1>5, <2>2
    <3>3. (i + j) + 1 = IF i + NumBlock < NoBlocks THEN i + NumBlock ELSE NoBlocks
      BY <1>3, <1>4, <1>5, <3>2 DEF Batch
    <3> QED
      BY <1>2, <1>8, <2>2, <3>1, <3>3 DEF Counters
  <2> QED
    BY <2>1, <2>2
<1>15. Prepared' /\ Answered'
  <2>1. ASSUME NEW s \in Slots, dr'.pc = "collect" PROVE Ready(s)'
    <3>1. Ready(s) /\ dr'.i = dr.i
      BY <1>1, <1>3, <1>4, <1>8, <2>1 DEF Prepared
    <3> QED
      BY <1>1, <1>2, <3>1 DEF Ready, FirstByte, slots
  <2>2. Answered'
    <3>1. dr'.pc = "collect" => dr'.i = dr.i
      BY <1>4, <1>8
    <3> QED
      BY <1>1, <1>2, <1>3, <3>1 DEF Answered, EncodedIn, FirstByte, slots
  <2> QED
    BY <1>8, <2>1, <2>2 DEF Prepared
<1>16. ReportsTrue'
  <2> SUFFICES ASSUME NEW k \in Numbers, k < dr'.blockIdx PROVE TrueSize(k)'
    BY <1>2 DEF ReportsTrue
  <2>1. CASE k = i + j
    <3>1. sizes'[k] = Reported(j) /\ mem'[k] = mem[k]
      BY <1>1, <1>12, <2>1
    <3> QED
      BY <1>2, <1>10, <2>1, <3>1 DEF TrueSize, EncodedIn, FirstByte
  <2>2. CASE k # i + j
    <3>1. k < dr.blockIdx
      BY <1>5, <1>8, <2>2 DEF Numbers
    <3>2. TrueSize(k) /\ sizes'[k] = sizes[k] /\ mem'[k] = mem[k]
      BY <1>1, <1>12, <2>2, <3>1 DEF DriverInv, ReportsTrue
    <3> QED
      BY <1>2, <3>2 DEF TrueSize, FirstByte
  <2> QED
    BY <2>1, <2>2
<1> QED
  BY <1>13, <1>14, <1>15, <1>16 DEF DriverInv

LEMMA DriverRests == DriverInv /\ UNCHANGED vars => DriverInv'
<1> SUFFICES ASSUME DriverInv, UNCHANGED vars PROVE DriverInv'
  OBVIOUS
<1>1. /\ UNCHANGED <<inputSize, dr, sizes, mem>> /\ UNCHANGED <<small, smallIn, inBlock>>
      /\ UNCHANGED <<inIdx, outIdx, outBlock, limit>>
  BY DEF vars, slots
<1>2. /\ NoBlocks' = NoBlocks /\ Numbers' = Numbers
      /\ \A k : SizeOfBlock(k)' = SizeOfBlock(k)
  BY <1>1, SameInput
<1>3. Typed'
  BY <1>1, <1>2 DEF DriverInv, Typed
<1>4. Counters'
  BY <1>1, <1>2 DEF DriverInv, Counters, CutBefore, Batch, FirstByte
<1>5. Prepared' /\ Answered'
  BY <1>1, <1>2 DEF DriverInv, Prepared, Ready, Answered, EncodedIn, FirstByte
<1>6. ReportsTrue'
  BY <1>1, <1>2 DEF DriverInv, ReportsTrue, TrueSize, FirstByte
<1> QED
  BY <1>3, <1>4, <1>5, <1>6 DEF DriverInv

LEMMA DriverKeeps == DriverInv /\ Driver => DriverInv'
BY StartStep, PrepareStep, CallStep, CollectStep DEF Driver

-----------------------------------------------------------------------------
(* The frame. *)

Entry ==
    [field : [low : Int, third : Int, top : Int],
     data : [raw : BOOLEAN, from : Int, bytes : Int]]

FrameInv ==
    /\ DriverInv
    /\ frame \in Seq(Entry) /\ Len(frame) <= NoBlocks
    /\ frame # << >> => DriverDone
    /\ FrameGivesBack

(* The reader takes from a size field what the host has written in it.     *)
LEMMA FieldsRead ==
    /\ \A n \in Int : /\ PlainField(n) \in [low : Int, third : Int, top : Int]
                      /\ ~IsStored(PlainField(n)) /\ FieldSize(PlainField(n)) = n
    /\ \A n \in 1..BlockLength : /\ StoredField(n) \in [low : Int, third : Int, top : Int]
                                 /\ IsStored(StoredField(n)) /\ FieldSize(StoredField(n)) = n
<1>1. FieldMod \in Nat /\ FieldMod > 0 /\ BlockLength = FieldMod
  BY FieldAssumption DEF FieldAssumption
<1>2. ASSUME NEW n \in Int
      PROVE  /\ PlainField(n) \in [low : Int, third : Int, top : Int]
             /\ ~IsStored(PlainField(n)) /\ FieldSize(PlainField(n)) = n
  <2>1. \A m \in Int, w \in Nat : w > 0 => /\ m % w \in Int /\ m \div w \in Int
                                           /\ (m % w) + w * (m \div w) = m
    OBVIOUS
  <2>2. /\ n % FieldMod \in Int /\ n \div FieldMod \in Int
        /\ (n % FieldMod) + FieldMod * (n \div FieldMod) = n
    BY <1>1, <2>1
  <2>3. /\ PlainField(n).low = n % FieldMod /\ PlainField(n).third = n \div FieldMod
        /\ PlainField(n).top = 0
    BY DEF PlainField
  <2>4. ~IsStored(PlainField(n))
    BY <2>3 DEF IsStored
  <2>5. PlainField(n) \in [low : Int, third : Int, top : Int]
    BY <2>2 DEF PlainField
  <2> QED
    BY <2>2, <2>3, <2>4, <2>5 DEF FieldSize
<1>3. ASSUME NEW n \in 1..BlockLength
      PROVE  /\ StoredField(n) \in [low : Int, third : Int, top : Int]
             /\ IsStored(StoredField(n)) /\ FieldSize(StoredField(n)) = n
  <2>1. /\ StoredField(n).low = n % FieldMod /\ StoredField(n).top = 128
        /\ StoredField(n).third = IF n = FieldMod THEN 1 ELSE 0
    BY DEF StoredField
  <2>2. IsStored(StoredField(n))
    BY <2>1 DEF IsStored
  <2>3. \A m, w \in Nat : w > 0 => m % w \in Int /\ (m < w => m % w = m)
    OBVIOUS
  <2>4. n \in Nat /\ n <= FieldMod
    BY <1>1
  <2>5. n % FieldMod \in Int /\ (n < FieldMod => n % FieldMod = n)
    BY <1>1, <2>3, <2>4
  <2>6. StoredField(n) \in [low : Int, third : Int, top : Int]
    BY <2>5 DEF StoredField
  <2> QED
    BY <1>1, <2>1, <2>2, <2>4, <2>5, <2>6 DEF FieldSize
<1> QED
  BY <1>2, <1>3

(* The driver is at its end: every block of the input has been reported.   *)
LEMMA AllReported ==
    ASSUME DriverInv, DriverDone, NEW k \in Numbers
    PROVE  TrueSize(k) /\ sizes[k] \in Int
<1>1. dr.blockIdx = NoBlocks /\ NoBlocks \in Nat
  <2>1. /\ dr.pc = "test" /\ dr.i >= NoBlocks /\ dr.i \in Nat /\ NoBlocks \in Nat
        /\ dr.blockIdx = IF dr.i < NoBlocks THEN dr.i ELSE NoBlocks
    BY BlocksOfInput DEF DriverDone, DriverInv, Counters, Typed
  <2> QED
    BY <2>1
<1>2. k < dr.blockIdx
  BY <1>1, BlocksOfInput DEF Numbers
<1> QED
  BY <1>2 DEF DriverInv, ReportsTrue, Typed

LEMMA PackStep ==
    ASSUME FrameInv, PackByHost
    PROVE  FrameInv'
<1> PICK k \in Nat : k = Len(frame)
  BY DEF FrameInv
<1>1. /\ DriverInv /\ DriverDone /\ k < NoBlocks /\ UNCHANGED vars /\ frame \in Seq(Entry)
      /\ NoBlocks \in Nat
  BY BlocksOfInput DEF FrameInv, PackByHost, DriverInv, Typed
<1>2. k \in Numbers
  BY <1>1, BlocksOfInput DEF DriverInv, Typed
<1>3. /\ TrueSize(k) /\ sizes[k] \in Int /\ FirstByte(k) \in Nat
      /\ SizeOfBlock(k) \in 1..BlockLength /\ SizeOfBlock(k) \in Int
  BY <1>1, <1>2, AllReported, BlocksOfInput, Places DEF DriverInv, Typed
<1> DEFINE e == IF Shrunk(k) THEN [field |-> PlainField(sizes[k]), data |-> Encoded(k)]
                ELSE [field |-> StoredField(SizeOfBlock(k)), data |-> Raw(k)]
<1>4. frame' = Append(frame, e)
  BY DEF PackByHost
<1>5. e \in Entry /\ GivesBack(e, k)
  <2>1. CASE Shrunk(k)
    <3>1. e = [field |-> PlainField(sizes[k]), data |-> Encoded(k)]
      BY <2>1
    <3>2. EncodedIn(k, sizes[k])
      BY <1>3, <2>1 DEF TrueSize, EncodedIn, Shrunk
    <3>3. mem[k].complete /\ mem[k] # Untouched
      <4>1. DOMAIN mem[k] # {} /\ DOMAIN Untouched = {}
        BY <3>2 DEF EncodedIn, Untouched
      <4> QED
        BY <3>2, <4>1 DEF EncodedIn
    <3>4. /\ e.field = PlainField(sizes[k]) /\ e.data = Encoded(k) /\ ~Encoded(k).raw
          /\ Encoded(k).from = FirstByte(k) /\ Encoded(k).bytes = sizes[k]
      BY <3>1 DEF Encoded
    <3>5. PlainField(sizes[k]) \in [low : Int, third : Int, top : Int]
      BY <1>3, FieldsRead
    <3>6. Encoded(k) \in [raw : BOOLEAN, from : Int, bytes : Int]
      BY <1>3 DEF Encoded
    <3>7. e \in Entry
      BY <3>1, <3>5, <3>6 DEF Entry
    <3> HIDE DEF e
    <3>8. ~IsStored(e.field) /\ FieldSize(e.field) = e.data.bytes
      BY <1>3, <3>4, FieldsRead
    <3> QED
      BY <3>3, <3>4, <3>7, <3>8 DEF GivesBack
  <2>2. CASE ~Shrunk(k)
    <3>1. e = [field |-> StoredField(SizeOfBlock(k)), data |-> Raw(k)]
      BY <2>2
    <3>4. /\ e.field = StoredField(SizeOfBlock(k)) /\ e.data = Raw(k) /\ Raw(k).raw
          /\ Raw(k).from = FirstByte(k) /\ Raw(k).bytes = SizeOfBlock(k)
      BY <3>1 DEF Raw
    <3>5. StoredField(SizeOfBlock(k)) \in [low : Int, third : Int, top : Int]
      BY <1>3, FieldsRead
    <3>6. Raw(k) \in [raw : BOOLEAN, from : Int, bytes : Int]
      BY <1>3 DEF Raw
    <3>7. e \in Entry
      BY <3>1, <3>5, <3>6 DEF Entry
    <3> HIDE DEF e
    <3>8. IsStored(e.field) /\ FieldSize(e.field) = e.data.bytes
      BY <1>3, <3>4, FieldsRead
    <3> QED
      BY <3>4, <3>7, <3>8 DEF GivesBack
  <2> QED
    BY <2>1, <2>2
<1> HIDE DEF e
<1>6. /\ frame' \in Seq(Entry) /\ Len(frame') = k + 1 /\ frame'[k + 1] = e
      /\ \A m \in 0..k - 1 : frame'[m + 1] = frame[m + 1]
  <2>1. \A m \in 0..k - 1 : m + 1 \in 1..Len(frame)
    OBVIOUS
  <2> QED
    BY <1>1, <1>4, <1>5, <2>1
<1>7. DriverInv' /\ NoBlocks' = NoBlocks /\ DriverDone'
  BY <1>1, DriverRests, SameInput DEF DriverDone, vars
<1>8. FrameGivesBack'
  <2> SUFFICES ASSUME NEW m \in 0..Len(frame') - 1
               PROVE  GivesBack(frame[m + 1], m)'
    BY DEF FrameGivesBack
  <2>1. GivesBack(frame'[m + 1], m)
    <3>1. CASE m = k
      BY <1>5, <1>6, <3>1
    <3>2. CASE m \in 0..k - 1
      BY <1>6, <3>2 DEF FrameInv, FrameGivesBack
    <3> QED
      BY <1>6, <3>1, <3>2
  <2>2. mem' = mem /\ SizeOfBlock(m)' = SizeOfBlock(m)
    BY <1>1, SameInput DEF vars
  <2> QED
    BY <2>1, <2>2 DEF GivesBack, FirstByte
<1>9. Len(frame') <= NoBlocks
  BY <1>1, <1>6
<1> QED
  BY <1>6, <1>7, <1>8, <1>9 DEF FrameInv

LEMMA FrameStep == FrameInv /\ [HostNext]_frameVars => FrameInv'
<1> SUFFICES ASSUME FrameInv, [HostNext]_frameVars PROVE FrameInv'
  OBVIOUS
<1>1. CASE DriverStep
  <2>1. Driver /\ frame' = frame /\ ~DriverDone
    <3>1. Driver /\ frame' = frame
      BY <1>1 DEF DriverStep
    <3>2. dr.i \in Nat /\ NoBlocks \in Nat
      BY BlocksOfInput DEF FrameInv, DriverInv, Typed
    <3>3. (dr.pc = "test" /\ dr.i < NoBlocks) \/ dr.pc # "test"
      BY <3>1 DEF Driver, StartBatch, Prepare, Call, Collect
    <3> QED
      BY <3>1, <3>2, <3>3 DEF DriverDone
  <2>2. frame = << >> /\ DriverInv'
    BY <2>1, DriverKeeps DEF FrameInv
  <2>3. Len(frame') = 0 /\ Len(frame') <= NoBlocks'
    <3>1. NoBlocks' \in Nat
      <4>1. NoBlocks \in Nat /\ inputSize' = inputSize
        BY <2>1, BlocksOfInput DEF FrameInv, DriverInv, Typed, Driver, StartBatch, Prepare,
                                   Call, Collect
      <4> QED
        BY <4>1, SameInput
    <3> QED
      BY <2>1, <2>2, <3>1
  <2>4. FrameGivesBack'
    BY <2>3 DEF FrameGivesBack
  <2> QED
    BY <2>1, <2>2, <2>3, <2>4 DEF FrameInv
<1>2. CASE UNCHANGED frameVars
  <2>1. UNCHANGED vars /\ frame' = frame
    BY <1>2 DEF frameVars
  <2>2. DriverInv' /\ NoBlocks' = NoBlocks /\ (DriverDone => DriverDone')
    BY <2>1, DriverRests, SameInput DEF FrameInv, vars, DriverDone
  <2>3. FrameGivesBack'
    BY <2>1, SameInput DEF FrameInv, FrameGivesBack, GivesBack, vars, FirstByte
  <2> QED
    BY <2>1, <2>2, <2>3 DEF FrameInv
<1> QED
  BY <1>1, <1>2, PackStep DEF HostNext, Rest

LEMMA FrameStart == FrameInit => FrameInv
<1> SUFFICES ASSUME FrameInit PROVE FrameInv
  OBVIOUS
<1>1. DriverInv /\ frame = << >>
  BY DriverInit DEF FrameInit
<1>2. NoBlocks \in Nat /\ Len(frame) = 0
  BY <1>1, BlocksOfInput DEF DriverInv, Typed
<1> QED
  BY <1>1, <1>2 DEF FrameInv, FrameGivesBack

LEMMA FrameInvAlways == HostSpec => []FrameInv
BY FrameStart, FrameStep, PTL DEF HostSpec

-----------------------------------------------------------------------------
(* lz4CompressMM cuts every input into blocks that follow one another      *)
(* without gap or overlap, for every number of engines, although a slot    *)
(* keeps in its arrays what an earlier batch left there.                   *)
THEOREM BlocksTile == HostSpec => []SlicesTile
<1>1. FrameInv => SlicesTile
  <2> SUFFICES ASSUME FrameInv, dr.pc = "call", NEW s \in Slots
               PROVE  IF dr.i + s \in Numbers /\ SizeOfBlock(dr.i + s) >= MinBlock
                      THEN inIdx[s] = FirstByte(dr.i + s) /\ inBlock[s] = SizeOfBlock(dr.i + s)
                      ELSE inBlock[s] = 0
    BY DEF SlicesTile
  <2>1. Ready(s)
    BY DEF FrameInv, DriverInv, Prepared
  <2> QED
    BY <2>1 DEF Ready
<1> QED
  BY <1>1, FrameInvAlways, PTL

(* Every size lz4CompressMM reports is the block's own, or that of a       *)
(* complete encoding of this block that stands in the output memory.       *)
THEOREM ReportsAlwaysTrue == HostSpec => []ReportsTrue
<1>1. FrameInv => ReportsTrue
  BY DEF FrameInv, DriverInv
<1> QED
  BY <1>1, FrameInvAlways, PTL

(* The frame that writeCompressedBlock packs gives back the blocks of the  *)
(* input when lz4HeaderProcessing reads it, whatever the engines answered. *)
THEOREM FrameAlwaysGivesBack == HostSpec => []FrameGivesBack
<1>1. FrameInv => FrameGivesBack
  BY DEF FrameInv
<1> QED
  BY <1>1, FrameInvAlways, PTL

-----------------------------------------------------------------------------
(* Where the engines write. *)

(* Nothing has been written at the place of a block whose batch has not    *)
(* been called.                                                            *)
Fresh ==
    \A k \in Numbers :
        mem[k] # Untouched => k < dr.i \/ (dr.pc = "collect" /\ k < dr.i + dr.nblocks)

OwnPlace ==
    \A k \in Numbers :
        mem'[k] # mem[k] => mem[k] = Untouched /\ mem'[k].from = FirstByte(k)
                            /\ k \in dr.i..dr.i + dr.nblocks - 1

(* A call writes only at the places of the blocks of its batch.            *)
LEMMA CallWrites ==
    ASSUME DriverInv, Fresh, Call, NEW k \in Numbers, mem'[k] # mem[k]
    PROVE  mem[k] = Untouched /\ mem'[k].from = FirstByte(k)
           /\ k \in dr.i..dr.i + dr.nblocks - 1
<1>1. dr.pc = "call"
  BY DEF Call
<1>2. /\ Typed /\ NoBlocks \in Nat /\ NumBlock \in Nat /\ dr.i \in Nat /\ dr.i < NoBlocks
      /\ dr.nblocks = Batch /\ k \in Nat /\ k < NoBlocks
      /\ \A s \in Slots : Ready(s)
  BY <1>1, BlocksOfInput, Constants DEF DriverInv, Typed, Counters, Prepared
<1>3. PICK a \in [Slots -> UNION {Answers(inBlock[s]) : s \in Slots}] :
        /\ \A s \in Slots : a[s] \in Answers(inBlock[s])
        /\ mem' = [b \in Numbers |->
                     LET here == {s \in Slots : a[s].size > 0
                                                /\ outIdx[s] = b * BlockLength}
                     IN  IF here = {} THEN mem[b]
                         ELSE LET s == CHOOSE s \in here : TRUE IN Written(s, a[s])]
  BY DEF Call
<1> DEFINE Here == {s \in Slots : a[s].size > 0 /\ outIdx[s] = k * BlockLength}
<1>4. PICK s \in Here : mem'[k] = Written(s, a[s])
  <2>1. mem'[k] = IF Here = {} THEN mem[k]
                  ELSE Written(CHOOSE s \in Here : TRUE, a[CHOOSE s \in Here : TRUE])
    BY <1>3
  <2>2. Here # {}
    BY <2>1
  <2> QED
    BY <2>1, <2>2
<1>5. s \in Slots /\ a[s].size > 0 /\ outIdx[s] = FirstByte(k) /\ a[s] \in Answers(inBlock[s])
  BY <1>3, <1>4 DEF FirstByte
<1>6. inBlock[s] # 0
  BY <1>5 DEF Answers
<1>7. /\ dr.i + s \in Numbers /\ inIdx[s] = FirstByte(dr.i + s)
      /\ outIdx[s] = FirstByte(dr.i + s)
  BY <1>2, <1>5, <1>6 DEF Ready
<1>8. s \in Nat /\ s < NumBlock /\ dr.i + s \in Nat /\ dr.i + s < NoBlocks
  BY <1>2, <1>5, <1>7, BlocksOfInput DEF Slots, Typed
<1>9. k = dr.i + s
  BY <1>2, <1>5, <1>7, <1>8, Places
<1>10. k \in dr.i..dr.i + dr.nblocks - 1
  <2>1. CASE dr.i + NumBlock > NoBlocks
    <3>1. dr.nblocks = NoBlocks - dr.i
      BY <1>2, <2>1 DEF Batch
    <3> QED
      BY <1>2, <1>8, <1>9, <3>1
  <2>2. CASE ~(dr.i + NumBlock > NoBlocks)
    <3>1. dr.nblocks = NumBlock
      BY <1>2, <2>2 DEF Batch
    <3> QED
      BY <1>2, <1>8, <1>9, <3>1
  <2> QED
    BY <2>1, <2>2
<1>11. mem'[k].from = FirstByte(k)
  BY <1>4, <1>7, <1>9 DEF Written
<1>12. mem[k] = Untouched
  BY <1>1, <1>2, <1>8, <1>9 DEF Fresh
<1> QED
  BY <1>10, <1>11, <1>12

LEMMA FreshStep ==
    ASSUME DriverInv, Fresh, Driver
    PROVE  OwnPlace /\ Fresh'
<1>1. inputSize' = inputSize /\ Numbers' = Numbers
  BY SameInput DEF Driver, StartBatch, Prepare, Call, Collect
<1>2. /\ Typed /\ NoBlocks \in Nat /\ NumBlock \in Nat /\ NumBlock > 0 /\ dr.i \in Nat
      /\ dr.j \in Nat /\ dr.nblocks \in Nat
      /\ \A k \in Numbers : k \in Nat /\ k < NoBlocks
  BY BlocksOfInput, Constants DEF DriverInv, Typed
<1>3. CASE Call
  <2>1. OwnPlace
    BY <1>3, CallWrites DEF OwnPlace
  <2>2. dr.pc = "call" /\ dr'.pc = "collect" /\ dr'.i = dr.i /\ dr'.nblocks = dr.nblocks
    BY <1>2, <1>3 DEF Call, Typed
  <2>3. ASSUME NEW k \in Numbers, mem'[k] # Untouched PROVE k < dr.i + dr.nblocks
    <3>1. CASE mem'[k] = mem[k]
      BY <1>2, <2>2, <2>3, <3>1 DEF Fresh
    <3>2. CASE mem'[k] # mem[k]
      BY <1>2, <2>1, <3>2 DEF OwnPlace
    <3> QED
      BY <3>1, <3>2
  <2> QED
    BY <1>1, <2>1, <2>2, <2>3 DEF Fresh
<1>4. CASE StartBatch
  <2>1. mem' = mem /\ dr'.i = dr.i /\ dr.pc = "test"
    BY <1>2, <1>4 DEF StartBatch, Typed
  <2> QED
    BY <1>1, <2>1 DEF Fresh, OwnPlace
<1>5. CASE Prepare
  <2>1. mem' = mem /\ dr'.i = dr.i /\ dr.pc = "prepare"
    BY <1>2, <1>5 DEF Prepare, PrepareSmall, PrepareBlock, PrepareAbsent, NextSlotOr, Typed
  <2> QED
    BY <1>1, <2>1 DEF Fresh, OwnPlace
<1>6. CASE Collect
  <2>1. mem' = mem /\ dr.pc = "collect" /\ dr'.nblocks = dr.nblocks
    BY <1>2, <1>6 DEF Collect, Typed
  <2>2. CASE dr.j + 1 < dr.nblocks
    <3>1. dr'.pc = "collect" /\ dr'.i = dr.i
      BY <1>2, <1>6, <2>2 DEF Collect, Typed
    <3> QED
      BY <1>1, <2>1, <3>1 DEF Fresh, OwnPlace
  <2>3. CASE ~(dr.j + 1 < dr.nblocks)
    <3>1. dr'.i = dr.i + NumBlock
      BY <1>2, <1>6, <2>3 DEF Collect, Typed
    <3>2. dr.nblocks <= NumBlock
      BY <1>2, <2>1 DEF DriverInv, Counters, Batch
    <3>3. \A k \in Numbers : mem[k] # Untouched => k < dr.i + NumBlock
      BY <1>2, <3>2 DEF Fresh
    <3> QED
      BY <1>1, <2>1, <3>1, <3>3 DEF Fresh, OwnPlace
  <2> QED
    BY <2>2, <2>3
<1> QED
  BY <1>3, <1>4, <1>5, <1>6 DEF Driver

(* The engines of a batch write to the places of their own blocks, and no  *)
(* batch of lz4CompressMM writes where another one did, although the slots *)
(* keep the output_idx of the batch before.                                *)
THEOREM WritesApart == HostSpec => WritesOwnPlace
<1>1. FrameInit => Fresh
  BY DEF FrameInit, Init, Fresh
<1>2. FrameInv /\ Fresh /\ [HostNext]_frameVars => Fresh' /\ [OwnPlace]_vars
  <2> SUFFICES ASSUME FrameInv, Fresh, [HostNext]_frameVars
               PROVE  Fresh' /\ [OwnPlace]_vars
    OBVIOUS
  <2>1. CASE DriverStep
    BY <2>1, FreshStep DEF FrameInv, DriverStep
  <2>2. CASE UNCHANGED vars
    <3>1. mem' = mem /\ dr' = dr /\ Numbers' = Numbers
      BY <2>2, SameInput DEF vars
    <3> QED
      BY <2>2, <3>1 DEF Fresh
  <2> QED
    BY <2>1, <2>2 DEF HostNext, PackByHost, Rest, frameVars
<1>3. HostSpec => [][OwnPlace]_vars
  BY <1>1, <1>2, FrameInvAlways, PTL DEF HostSpec
<1> QED
  BY <1>3 DEF WritesOwnPlace, OwnPlace
=============================================================================
