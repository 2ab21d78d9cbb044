------------------------------ MODULE Lz4Core ------------------------------
(***************************************************************************)
(* One engine of the compressor, hlsLz4Core: the match finder and the      *)
(* encoder, joined by boosterStream (recQ).  The encoder here works on the *)
(* records the match finder really produces, while it produces them.       *)
(*                                                                         *)
(* A block of a session is given as plain bytes, that is, as one literal   *)
(* record per byte: its Text is the input of the engine, and what the      *)
(* engine promises is the service of Lz4Service on these blocks.           *)
(***************************************************************************)
EXTENDS Lz4Compress, LzMatchFinder

finderOwn == <<text, lz, dict, late, flt, bst, inQ, cmpQ, bestQ>>
encoderOwn == <<session, size, limit, p1, p2, sink, answers, litQ, lenQ, outQ, eosQ, sizeQ>>
coreVars == <<finderOwn, vars>>

(* The blocks of a session are the finder's, of a size it may be given     *)
(* (TextsAssumption).                                                      *)
ASSUME PlainSessions ==
    \A s \in Sessions : \A k \in 1..Len(s) :
        /\ s[k].size = Len(s[k].recs)
        /\ s[k].size = 0 \/ s[k].size >= LeftBytes + MatchLen
        /\ \A j \in 1..s[k].size : s[k].recs[j].len = 0

(* What the finder produces the encoder can write: an offset has two       *)
(* bytes, and no match is as long as the mark of the literal limit.        *)
ASSUME CoreAssumption ==
    /\ OffsetLimit <= ByteBase * ByteBase
    /\ MaxMatchLen - MinMatch < LimitMark

(* The booster is taken to fetch in order, or to be given no offset at     *)
(* which a store could overtake its prefetch (Overtaking).                 *)
ASSUME BoosterInOrder == BoostLag = 0 \/ OffsetLimit + BoostLag <= BoostWindow + 1

Bytes(recs) == [k \in 1..Len(recs) |-> recs[k].ch]

FinderDone == lz.pc = "done" /\ flt.pc = "done" /\ bst.pc = "done"

CoreInit ==
    /\ Init
    /\ text = << >>
    /\ lz = LzStart(text) /\ flt = FltStart(text) /\ bst = BstStart(text, 0)
    /\ dict = Flushed /\ late = << >>
    /\ inQ = << >> /\ cmpQ = << >> /\ bestQ = << >>

(* All processes of the engine start together, on one block. *)
CoreCall ==
    /\ p1.pc = "idle" /\ p2.pc = "idle" /\ sink.pc = "idle"
    /\ Len(answers) < Len(session)
    /\ size' = Block.size
    /\ limit' = FALSE
    /\ p1' = P1At(IF size' = 0 THEN "done" ELSE "first", p1.pushed)
    /\ p2' = P2At("loop", p2.upto)
    /\ sink' = SinkAt("data")
    /\ text' = Bytes(Block.recs)
    /\ inQ' = inQ \o Bytes(Block.recs)
    /\ lz' = LzStart(text') /\ flt' = FltStart(text')
    /\ \E junk \in Byte : bst' = BstStart(text', junk)
    /\ dict' = Flushed /\ late' = << >>
    /\ UNCHANGED <<session, answers, recQ, litQ, lenQ, outQ, eosQ, sizeQ, cmpQ, bestQ>>

CoreReturn == FinderDone /\ Return /\ UNCHANGED finderOwn

FinderStep ==
    /\ LzCompress \/ BestMatchFilter \/ Booster
    /\ UNCHANGED encoderOwn

EncoderStep == (Part1 \/ Part2 \/ Sink) /\ UNCHANGED finderOwn

CoreRest == Finished /\ UNCHANGED coreVars

CoreNext == CoreCall \/ CoreReturn \/ FinderStep \/ EncoderStep \/ CoreRest

(* As long as some process can run, one of them does. *)
CoreFairness == WF_coreVars(CoreCall \/ CoreReturn \/ FinderStep \/ EncoderStep)

CoreSpec == CoreInit /\ [][CoreNext]_coreVars
CoreFairSpec == CoreSpec /\ CoreFairness

-----------------------------------------------------------------------------
(* Properties *)

(* Part1 counts bytes to know when to stop reading; the finder counts the  *)
(* same bytes in other units.  They agree: between calls every FIFO of the *)
(* engine is empty and the records sent cover the block exactly.           *)
CoreDrained ==
    p1.pc \in {"idle", "done"} /\ p2.pc \in {"idle", "done"}
      /\ sink.pc \in {"idle", "done"} /\ FinderDone
    => /\ inQ = << >> /\ cmpQ = << >> /\ bestQ = << >> /\ recQ = << >>
       /\ litQ = << >> /\ lenQ = << >> /\ outQ = << >> /\ eosQ = << >> /\ sizeQ = << >>
       /\ SizeOf(bst.sent) = Len(text)

(* The records read by Part1 but not yet encoded start at position i of    *)
(* the block: the two stay aligned on the shared FIFO.                     *)
Aligned ==
    p1.pc = "loop" /\ p1.i < size
    => TrueAt(p1.next, p1.i)

(* The engine as a whole compresses without loss: the decompressor turns   *)
(* every answer that is not "stored" back into the bytes of the block.     *)
CoreImplementsService == Service!Spec
=============================================================================
