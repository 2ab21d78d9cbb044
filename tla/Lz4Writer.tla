----------------------------- MODULE Lz4Writer -----------------------------
(***************************************************************************)
(* The output side of hlsLz4, multStream2MM: one upsizer per engine packs  *)
(* the compressed bytes into memory words, and one process writes the      *)
(* words of all engines to memory, serving whoever has a burst ready.      *)
(*                                                                         *)
(*   engine b --outQ[b], eosQ[b]--> upsizer b --packQ[b], burstQ[b]-->     *)
(*           \------------totalQ[b]--------------------------> writer      *)
(*                                                                         *)
(* A byte is its index in the output of its block; a word is the buffer    *)
(* the upsizer fills.  It is not cleared, so the last word of a block      *)
(* carries bytes of the word before.                                       *)
(***************************************************************************)
EXTENDS WordBursts

CONSTANTS
    EosDepth,     \* depth of outStreamEos
    MemWords,     \* words of the output memory
    Outputs       \* the calls: functions from blocks to [base, size, csize]

Addresses == 0..MemWords - 1

(* base is output_idx, size the size of the input block and csize the      *)
(* number of bytes its engine produces, never more than size (Part2).      *)
OutputRegion == [base : Nat, size : Nat, csize : Nat]

(* The words of the memory an input block of this size may occupy in the   *)
(* output; lz4CompressMM places the blocks apart.                          *)
Span(r) == (r.base \div WordSize)..(r.base \div WordSize) + Words(r.size) - 1

ASSUME WriterAssumption ==
    /\ MemWords \in Nat /\ EosDepth \in Nat \ {0}
    /\ Outputs \subseteq [Blocks -> OutputRegion]
    /\ \A call \in Outputs : \A b \in Blocks :
         /\ call[b].csize <= call[b].size
         /\ Span(call[b]) \subseteq Addresses
         /\ \A c \in Blocks \ {b} : Span(call[b]) \cap Span(call[c]) = {}

VARIABLES
    output,   \* the call
    eng,      \* the producer of block b: lz4CompressPart2 of its engine
    up,       \* stream2mmUpsizer, one per block
    wr,       \* multStream2mmSize
    outQ,     \* outStream
    eosQ,     \* outStreamEos
    totalQ,   \* compressedSize
    packQ,    \* outStreamV
    burstQ,   \* outStreamVSize
    mem,      \* the output memory: address |-> <<block, word>>
    outSize   \* output_size

queues == <<outQ, eosQ, totalQ, packQ, burstQ>>
wrVars == <<output, eng, up, wr, mem, outSize, queues>>

Zero == -1        \* a byte of the buffer that no byte of the block has reached
Untouched == << >>
Unknown == -1     \* output_size before the call stores it

UpStart ==
    [pc |-> "first", buf |-> [k \in 0..WordSize - 1 |-> Zero], byteIdx |-> 0,
     sizeWrite |-> 0, val |-> Zero]

WrInit ==
    /\ output \in Outputs
    /\ eng = [b \in Blocks |-> [pc |-> "byte", sent |-> 0]]
    /\ up = [b \in Blocks |-> UpStart]
    /\ wr = [pc |-> "poll", i |-> 0, pending |-> [b \in Blocks |-> TRUE],
             size |-> [b \in Blocks |-> 0], j |-> 0, burst |-> 0]
    /\ outQ = [b \in Blocks |-> << >>] /\ eosQ = [b \in Blocks |-> << >>]
    /\ totalQ = [b \in Blocks |-> << >>]
    /\ packQ = [b \in Blocks |-> << >>] /\ burstQ = [b \in Blocks |-> << >>]
    /\ mem = [a \in Addresses |-> Untouched]
    /\ outSize = [b \in Blocks |-> Unknown]

-----------------------------------------------------------------------------
(* The engine of block b, from its output side: every byte is followed by  *)
(* a 0 flag; after the last come the total, a padding byte and a 1 flag.   *)

EngByte(b) ==
    /\ eng[b].pc = "byte" /\ eng[b].sent < output[b].csize /\ Len(outQ[b]) < ByteDepth
    /\ outQ' = [outQ EXCEPT ![b] = Append(@, eng[b].sent)]
    /\ eng' = [eng EXCEPT ![b].pc = "flag"]
    /\ UNCHANGED <<output, up, wr, eosQ, totalQ, packQ, burstQ, mem, outSize>>

EngTotal(b) ==
    /\ eng[b].pc = "byte" /\ eng[b].sent = output[b].csize
    /\ totalQ' = [totalQ EXCEPT ![b] = Append(@, output[b].csize)]
    /\ eng' = [eng EXCEPT ![b].pc = "pad"]
    /\ UNCHANGED <<output, up, wr, outQ, eosQ, packQ, burstQ, mem, outSize>>

EngPad(b) ==
    /\ eng[b].pc = "pad" /\ Len(outQ[b]) < ByteDepth
    /\ outQ' = [outQ EXCEPT ![b] = Append(@, Zero)]
    /\ eng' = [eng EXCEPT ![b].pc = "last"]
    /\ UNCHANGED <<output, up, wr, eosQ, totalQ, packQ, burstQ, mem, outSize>>

EngFlag(b) ==
    /\ eng[b].pc \in {"flag", "last"} /\ Len(eosQ[b]) < EosDepth
    /\ eosQ' = [eosQ EXCEPT ![b] = Append(@, eng[b].pc = "last")]
    /\ eng' = [eng EXCEPT ![b] = IF @.pc = "last" THEN [@ EXCEPT !.pc = "done"]
                                 ELSE [pc |-> "byte", sent |-> @.sent + 1]]
    /\ UNCHANGED <<output, up, wr, outQ, totalQ, packQ, burstQ, mem, outSize>>

Engine(b) == EngByte(b) \/ EngTotal(b) \/ EngPad(b) \/ EngFlag(b)

-----------------------------------------------------------------------------
(* The upsizer of block b holds back a full word until the next byte.      *)

UpOnly == UNCHANGED <<output, eng, wr, totalQ, mem, outSize>>

UpFirst(b) ==
    /\ up[b].pc = "first" /\ outQ[b] # << >>
    /\ up' = [up EXCEPT ![b].pc = "flag", ![b].val = Head(outQ[b])]
    /\ outQ' = [outQ EXCEPT ![b] = Tail(@)]
    /\ UpOnly /\ UNCHANGED <<eosQ, packQ, burstQ>>

WordIsFull(u) == u.byteIdx = WordSize
UnflushedIfFull(u) == u.byteIdx = WordSize
Unflushed(u) == u.byteIdx > 0

UpFlag(b) ==
    /\ up[b].pc = "flag" /\ eosQ[b] # << >>
    /\ up' = [up EXCEPT ![b].pc = IF Head(eosQ[b])
                                  THEN IF Unflushed(up[b]) THEN "tail" ELSE "end"
                                  ELSE IF WordIsFull(up[b]) THEN "word" ELSE "next"]
    /\ eosQ' = [eosQ EXCEPT ![b] = Tail(@)]
    /\ UpOnly /\ UNCHANGED <<outQ, packQ, burstQ>>

UpWord(b) ==
    /\ up[b].pc \in {"word", "tail"} /\ Len(packQ[b]) < WordDepth
    /\ packQ' = [packQ EXCEPT ![b] = Append(@, up[b].buf)]
    /\ up' = [up EXCEPT ![b].byteIdx = 0, ![b].sizeWrite = @ + 1,
                        ![b].pc = IF @ = "tail" THEN "tailsize"
                                  ELSE IF up[b].sizeWrite + 1 = BurstSize THEN "size"
                                  ELSE "next"]
    /\ UpOnly /\ UNCHANGED <<outQ, eosQ, burstQ>>

BurstBytesInWords(u) == u.sizeWrite
BurstBytesAlwaysFull(u) == BurstSize * WordSize
BurstBytes(u) == u.sizeWrite * WordSize

UpSize(b) ==
    /\ up[b].pc \in {"size", "tailsize"} /\ Len(burstQ[b]) < SizeDepth
    /\ burstQ' = [burstQ EXCEPT ![b] = Append(@, BurstBytes(up[b]))]
    /\ up' = [up EXCEPT ![b].sizeWrite = 0,
                        ![b].pc = IF @ = "tailsize" THEN "end" ELSE "next"]
    /\ UpOnly /\ UNCHANGED <<outQ, eosQ, packQ>>

UpNext(b) ==
    /\ up[b].pc = "next" /\ outQ[b] # << >>
    /\ up' = [up EXCEPT ![b].pc = "flag", ![b].buf[up[b].byteIdx] = up[b].val,
                        ![b].byteIdx = @ + 1, ![b].val = Head(outQ[b])]
    /\ outQ' = [outQ EXCEPT ![b] = Tail(@)]
    /\ UpOnly /\ UNCHANGED <<eosQ, packQ, burstQ>>

UpEnd(b) ==
    /\ up[b].pc = "end" /\ Len(burstQ[b]) < SizeDepth
    /\ burstQ' = [burstQ EXCEPT ![b] = Append(@, 0)]
    /\ up' = [up EXCEPT ![b].pc = "done"]
    /\ UpOnly /\ UNCHANGED <<outQ, eosQ, packQ>>

UpSizer(b) == UpFirst(b) \/ UpFlag(b) \/ UpWord(b) \/ UpSize(b) \/ UpNext(b) \/ UpEnd(b)

-----------------------------------------------------------------------------
(* The writer polls the size FIFOs in turn. *)

WrAnyPending(w) == \E b \in Blocks : w.pending[b]

WrNextTurn(w) ==
    IF w.i < NumBlock - 1 THEN [w EXCEPT !.pc = "poll", !.i = @ + 1]
    ELSE [w EXCEPT !.pc = IF WrAnyPending(w) THEN "poll" ELSE "total", !.i = 0]

WrPoll ==
    /\ wr.pc = "poll"
    /\ IF burstQ[wr.i] = << >>
       THEN wr' = WrNextTurn(wr) /\ UNCHANGED burstQ
       ELSE LET s == Head(burstQ[wr.i])
                w == [wr EXCEPT !.pending[wr.i] = s > 0, !.j = 0, !.burst = Words(s)]
            IN  /\ wr' = IF s > 0 THEN [w EXCEPT !.pc = "burst"] ELSE WrNextTurn(w)
                /\ burstQ' = [burstQ EXCEPT ![wr.i] = Tail(@)]
    /\ UNCHANGED <<output, eng, up, outQ, eosQ, totalQ, packQ, mem, outSize>>

BaseAddr(b) == output[b].base \div WordSize
SizeAfterBurstKept(w) == w.size[w.i]
SizeAfterBurst(w) == w.size[w.i] + w.burst

WrWord ==
    /\ wr.pc = "burst" /\ packQ[wr.i] # << >>
    /\ mem' = [mem EXCEPT ![BaseAddr(wr.i) + wr.size[wr.i] + wr.j] =
                 <<wr.i, Head(packQ[wr.i])>>]
    /\ packQ' = [packQ EXCEPT ![wr.i] = Tail(@)]
    /\ wr' = IF wr.j + 1 < wr.burst THEN [wr EXCEPT !.j = @ + 1]
             ELSE WrNextTurn([wr EXCEPT !.size[wr.i] = SizeAfterBurst(wr)])
    /\ UNCHANGED <<output, eng, up, outQ, eosQ, totalQ, burstQ, outSize>>

(* At the end the sizes of all blocks are collected in turn. *)
WrTotal ==
    /\ wr.pc = "total" /\ totalQ[wr.i] # << >>
    /\ outSize' = [outSize EXCEPT ![wr.i] = Head(totalQ[wr.i])]
    /\ totalQ' = [totalQ EXCEPT ![wr.i] = Tail(@)]
    /\ wr' = IF wr.i < NumBlock - 1 THEN [wr EXCEPT !.i = @ + 1]
             ELSE [wr EXCEPT !.pc = "done"]
    /\ UNCHANGED <<output, eng, up, outQ, eosQ, packQ, burstQ, mem>>

Writer == WrPoll \/ WrWord \/ WrTotal

-----------------------------------------------------------------------------
WrFinished == wr.pc = "done"
WrRest == WrFinished /\ UNCHANGED wrVars

WrNext ==
    \/ \E b \in Blocks : Engine(b) \/ UpSizer(b)
    \/ Writer
    \/ WrRest

WrFairness ==
    /\ WF_wrVars(Writer)
    /\ \A b \in Blocks : WF_wrVars(Engine(b)) /\ WF_wrVars(UpSizer(b))

WrSpec == WrInit /\ [][WrNext]_wrVars
WrFairSpec == WrSpec /\ WrFairness

-----------------------------------------------------------------------------
(* Properties *)

(* "Reading data from multiple data streams is non-blocking" (s2mm.hpp,    *)
(* multStream2mmSize): a size is announced after its words, so the writer  *)
(* never waits for a word while another block could be served.             *)
ReadingNeverBlocks == wr.pc = "burst" => packQ[wr.i] # << >>

(* The words of a block in its FIFO are those its sizes announce, those of *)
(* the burst being written and those of the burst being packed.            *)
WordsMatchBursts ==
    \A b \in Blocks :
        Len(packQ[b]) =
            AnnouncedWords(burstQ[b])
            + (IF wr.pc = "burst" /\ wr.i = b THEN wr.burst - wr.j ELSE 0)
            + up[b].sizeWrite

(* A step writes no word twice and stays within the span of its block:     *)
(* however the bursts of the engines alternate, no block overwrites        *)
(* another's output.                                                       *)
WritesOnceInRegion ==
    [][\A a \in Addresses :
         mem'[a] # mem[a] => /\ mem[a] = Untouched
                             /\ \E b \in Blocks : mem'[a][1] = b /\ a \in Span(output[b])]_wrVars

(* In the end the bytes of every block stand in its span in their order,   *)
(* and its size is the number of bytes its engine produced.                *)
InPlace(b) ==
    /\ outSize[b] = output[b].csize
    /\ \A k \in 0..output[b].csize - 1 :
         LET word == mem[BaseAddr(b) + k \div WordSize]
         IN  word # Untouched /\ word[1] = b /\ word[2][k % WordSize] = k

AllWritten == <>(WrFinished /\ \A b \in Blocks : InPlace(b))

=============================================================================
