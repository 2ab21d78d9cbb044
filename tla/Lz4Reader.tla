----------------------------- MODULE Lz4Reader -----------------------------
(***************************************************************************)
(* The input side of hlsLz4, mm2multStreamSize: one process reads the      *)
(* blocks from memory in bursts, in turn, and one downsizer per block      *)
(* splits the words into the bytes its engine reads.                       *)
(*                                                                         *)
(*   memory --> reader --wordQ[b], sizeQ[b]--> downsizer b --byteQ[b]-->   *)
(*                                                             engine b    *)
(*                                                                         *)
(* Only the addresses matter: a byte is its address in memory, a word the  *)
(* address of its first byte over WordSize.                                *)
(***************************************************************************)
EXTENDS WordBursts

CONSTANT Inputs    \* the calls: functions from blocks to [base, size]

(* lz4CompressMM places the blocks max_block_size apart, a multiple of the *)
(* word size.                                                              *)
ASSUME ReaderAssumption ==
    /\ Inputs \subseteq [Blocks -> [base : Nat, size : Nat]]
    /\ \A call \in Inputs : \A b \in Blocks : call[b].base % WordSize = 0

VARIABLES
    input,    \* input_idx and input_size of the call
    rd,       \* mm2multStreamSimple
    wordQ,    \* outStreamV
    sizeQ,    \* outStreamVSize
    ds,       \* mm2multStreamDownSizer, one per block
    byteQ,    \* outStream: the inStream of the engines
    taken     \* bytes each engine has read

rdVars == <<input, rd, wordQ, sizeQ, ds, byteQ, taken>>

(* vid is the block being served; pending, idx and size are is_pending,    *)
(* read_idx and read_size; midx and burst count the words of the burst.    *)
RdInit ==
    /\ input \in Inputs
    /\ rd = [pc |-> "poll", vid |-> 0,
             pending |-> [b \in Blocks |-> TRUE],
             idx |-> [b \in Blocks |-> input[b].base \div WordSize],
             size |-> [b \in Blocks |-> 0],
             midx |-> 0, burst |-> 0]
    /\ wordQ = [b \in Blocks |-> << >>]
    /\ sizeQ = [b \in Blocks |-> << >>]
    /\ ds = [b \in Blocks |-> [pc |-> "size", left |-> 0, itr |-> 0, buf |-> 0]]
    /\ byteQ = [b \in Blocks |-> << >>]
    /\ taken = [b \in Blocks |-> 0]

-----------------------------------------------------------------------------
(* The reader *)

Least(a, b) == IF a < b THEN a ELSE b

PendingBytes(b) ==
    IF input[b].size > rd.size[b] THEN input[b].size - rd.size[b] ELSE 0

(* The next block in turn; after the last one the loop condition is tested. *)
RdAnyPendingOfLast(r) == r.pending[r.vid]
RdAnyPending(r) == \E b \in Blocks : r.pending[b]

RdNextTurn(r) ==
    IF r.vid < NumBlock - 1 THEN [r EXCEPT !.pc = "poll", !.vid = @ + 1]
    ELSE [r EXCEPT !.pc = IF RdAnyPending(r) THEN "poll" ELSE "end", !.vid = 0]

(* A block whose size FIFO is full is passed over, not waited for. *)
BurstOf(b) == Least(Words(PendingBytes(b)), BurstSize)

Poll ==
    LET b == rd.vid
        r == [rd EXCEPT !.pending[b] = PendingBytes(b) > 0]
    IN  /\ rd.pc = "poll"
        /\ rd' = IF PendingBytes(b) > 0 /\ Len(sizeQ[b]) < SizeDepth
                 THEN [r EXCEPT !.pc = "burst", !.midx = 0, !.burst = BurstOf(b)]
                 ELSE RdNextTurn(r)
        /\ UNCHANGED <<input, wordQ, sizeQ, ds, byteQ, taken>>

(* Writing a word blocks while the block's word FIFO is full. *)
BurstWord ==
    LET b == rd.vid
    IN  /\ rd.pc = "burst" /\ Len(wordQ[b]) < WordDepth
        /\ wordQ' = [wordQ EXCEPT ![b] = Append(@, rd.idx[b] + rd.midx)]
        /\ rd' = [rd EXCEPT !.midx = @ + 1,
                            !.pc = IF rd.midx + 1 < rd.burst THEN "burst" ELSE "announce"]
        /\ UNCHANGED <<input, sizeQ, ds, byteQ, taken>>

(* The size of the burst in bytes: whole words, except at the end of the   *)
(* block.                                                                  *)
AnnouncedWhole(b) == rd.burst * WordSize
Announced(b) == Least(rd.burst * WordSize, input[b].size - rd.size[b])

Announce ==
    LET b == rd.vid
    IN  /\ rd.pc = "announce" /\ Len(sizeQ[b]) < SizeDepth
        /\ sizeQ' = [sizeQ EXCEPT ![b] = Append(@, Announced(b))]
        /\ rd' = RdNextTurn([rd EXCEPT !.idx[b] = @ + rd.burst, !.size[b] = @ + Announced(b)])
        /\ UNCHANGED <<input, wordQ, ds, byteQ, taken>>

(* The end marks are written in turn. *)
EndMark ==
    LET b == rd.vid
    IN  /\ rd.pc = "end" /\ Len(sizeQ[b]) < SizeDepth
        /\ sizeQ' = [sizeQ EXCEPT ![b] = Append(@, 0)]
        /\ rd' = IF b < NumBlock - 1 THEN [rd EXCEPT !.vid = @ + 1]
                 ELSE [rd EXCEPT !.pc = "done"]
        /\ UNCHANGED <<input, wordQ, ds, byteQ, taken>>

Reader == Poll \/ BurstWord \/ Announce \/ EndMark

-----------------------------------------------------------------------------
(* The downsizer of block b *)

DsSize(b) ==
    /\ ds[b].pc = "size" /\ sizeQ[b] # << >>
    /\ LET s == Head(sizeQ[b])
       IN  ds' = [ds EXCEPT ![b] = [@ EXCEPT !.pc = IF s = 0 THEN "done" ELSE "bytes",
                                             !.left = s, !.itr = 0]]
    /\ sizeQ' = [sizeQ EXCEPT ![b] = Tail(@)]
    /\ UNCHANGED <<input, rd, wordQ, byteQ, taken>>

(* A new word is read for every WordSize bytes, then a byte of it goes out. *)
NeedsWordOnce(d) == d.itr = 0
NeedsWord(d) == d.itr % WordSize = 0
LastByte(d) == d.left = 1

DsWord(b) ==
    /\ ds[b].pc = "bytes" /\ NeedsWord(ds[b]) /\ wordQ[b] # << >>
    /\ ds' = [ds EXCEPT ![b].buf = Head(wordQ[b]), ![b].pc = "out"]
    /\ wordQ' = [wordQ EXCEPT ![b] = Tail(@)]
    /\ UNCHANGED <<input, rd, sizeQ, byteQ, taken>>

DsByte(b) ==
    /\ ds[b].pc = "out" \/ (ds[b].pc = "bytes" /\ ~NeedsWord(ds[b]))
    /\ Len(byteQ[b]) < ByteDepth
    /\ byteQ' = [byteQ EXCEPT ![b] =
                   Append(@, (ds[b].buf * WordSize) + (ds[b].itr % WordSize))]
    /\ ds' = [ds EXCEPT ![b].itr = @ + 1, ![b].left = @ - 1,
                        ![b].pc = IF LastByte(ds[b]) THEN "size" ELSE "bytes"]
    /\ UNCHANGED <<input, rd, wordQ, sizeQ, taken>>

DownSizer(b) == DsSize(b) \/ DsWord(b) \/ DsByte(b)

-----------------------------------------------------------------------------
(* The engine of block b takes its bytes whenever it is ready for one. *)
EngineRead(b) ==
    /\ byteQ[b] # << >>
    /\ taken' = [taken EXCEPT ![b] = @ + 1]
    /\ byteQ' = [byteQ EXCEPT ![b] = Tail(@)]
    /\ UNCHANGED <<input, rd, wordQ, sizeQ, ds>>

RdFinished == rd.pc = "done" /\ \A b \in Blocks : ds[b].pc = "done" /\ byteQ[b] = << >>
RdRest == RdFinished /\ UNCHANGED rdVars

RdNext ==
    \/ Reader
    \/ \E b \in Blocks : DownSizer(b) \/ EngineRead(b)
    \/ RdRest

RdFairness ==
    /\ WF_rdVars(Reader)
    /\ \A b \in Blocks : WF_rdVars(DownSizer(b)) /\ WF_rdVars(EngineRead(b))

RdSpec == RdInit /\ [][RdNext]_rdVars
RdFairSpec == RdSpec /\ RdFairness

-----------------------------------------------------------------------------
(* Properties *)

(* Words the announced sizes of block b still call for. *)
WordsAnnounced(b) ==
    (IF ds[b].pc = "size" \/ ds[b].pc = "done" THEN 0
     ELSE LET bytes == IF ds[b].pc = "out" THEN ds[b].left - 1 ELSE ds[b].left
              itr   == IF ds[b].pc = "out" THEN ds[b].itr + 1 ELSE ds[b].itr
          IN  Words(itr + bytes) - Words(itr))
    + AnnouncedWords(sizeQ[b])

WordsUnannounced(b) ==
    IF rd.vid = b /\ rd.pc \in {"burst", "announce"} THEN rd.midx ELSE 0

(* The word FIFO and the size FIFO of a block are filled and drained at    *)
(* different times by two processes; they always agree on what is in the   *)
(* word FIFO, so a downsizer that has read a size never waits for a word.  *)
WordsMatchSizes ==
    \A b \in Blocks : Len(wordQ[b]) = WordsAnnounced(b) + WordsUnannounced(b)

(* Every engine receives its own block, byte by byte, without gap or       *)
(* repetition, and nothing past its end.                                   *)
InOrder ==
    \A b \in Blocks : \A k \in 1..Len(byteQ[b]) :
        /\ byteQ[b][k] = input[b].base + taken[b] + k - 1
        /\ byteQ[b][k] < input[b].base + input[b].size

(* Every engine gets its whole block, although the reader serves all of    *)
(* them and may be blocked by one.                                         *)
AllDelivered == <>(RdFinished /\ \A b \in Blocks : taken[b] = input[b].size)

=============================================================================
