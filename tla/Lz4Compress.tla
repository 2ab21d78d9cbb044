---------------------------- MODULE Lz4Compress ----------------------------
(***************************************************************************)
(* The LZ4 encoder lz4Compress: two dataflow processes joined by bounded   *)
(* FIFOs, and the process that drains them.                                *)
(*                                                                         *)
(*   recQ --> Part1 --litQ (depth MaxLit)--> Part2 --outQ, eosQ--> Sink    *)
(*                 \--lenQ (depth LenDepth)-/    \-----sizeQ------/        *)
(*                                                                         *)
(* Part1 separates records into literals and sequences; a literal is       *)
(* pushed long before the sequence that announces it.  Part2 writes the    *)
(* token, lengths, literals and offset of each sequence, one byte per      *)
(* iteration.  Every stream access blocks its process, so a read waits for *)
(* a non-empty FIFO and a write for a free slot.                           *)
(*                                                                         *)
(* The engine is called once per block, and its FIFOs outlive the call:    *)
(* what one block leaves behind, the next one reads.                       *)
(***************************************************************************)
EXTENDS Lz4Records

CONSTANTS
    MaxLit,        \* MAX_LIT_COUNT: longest run of literals that is encoded
    LimitMark,     \* 777: match length and offset of the "limit reached" sequence
    LenDepth,      \* depth of lenOffset_Stream
    OutDepth,      \* depth of outStream
    EosDepth,      \* depth of outStreamEos
    SizeDepth,     \* depth of the compressed size stream
    Sessions       \* set of sequences of blocks [size, recs]

ASSUME EncoderAssumption ==
    /\ MaxLit \in Nat \ {0}
    /\ LimitMark \in Nat \ {0}
    /\ {LenDepth, OutDepth, EosDepth, SizeDepth} \subseteq Nat \ {0}
    /\ NibbleMax <= ByteMax

BlockType == [size : Nat, recs : Seq(Record)]

(* The records of a block are a parse of its text, as LzParse promises.    *)
(* Matches copy what is there, in two bytes of offset, and are followed by *)
(* a literal; none can be taken for the marks of the sequence that ends a  *)
(* block.                                                                  *)
IsMark(match, off) ==
    \/ match = 0 /\ off = 0
    \/ match = LimitMark /\ off = LimitMark

IsParse(block) ==
    LET upto == TextUpto(block.recs)
    IN  /\ block.size = Len(Text(block.recs))
        /\ \A k \in 1..Len(block.recs) :
             LET r == block.recs[k]
             IN  r.len > 0 => /\ k < Len(block.recs)
                              /\ r.len >= MinMatch
                              /\ r.off < Len(upto[k - 1])
                              /\ r.off + 1 < ByteBase * ByteBase
                              /\ ~IsMark(r.len - MinMatch, r.off)

ASSUME SessionAssumption ==
    /\ Sessions \subseteq Seq(BlockType)
    /\ \A calls \in Sessions : \A k \in 1..Len(calls) : IsParse(calls[k])

VARIABLES
    session,   \* the blocks of the calls, in order
    size,      \* input_size of the call in progress
    limit,     \* max_lit_limit[index]
    p1,        \* lz4CompressPart1
    p2,        \* lz4CompressPart2
    litQ,      \* lit_outStream
    lenQ,      \* lenOffset_Stream
    outQ,      \* outStream
    eosQ,      \* outStreamEos
    sizeQ,     \* compressdSizeStream
    sink,      \* the consumer of outQ, eosQ and sizeQ
    answers    \* what each finished call delivered

streams == <<recQ, litQ, lenQ, outQ, eosQ, sizeQ>>
vars == <<session, size, limit, p1, p2, sink, answers, streams>>

(* litCount, flag, next and tmp are the code's lit_count, lit_count_flag,  *)
(* nextEncodedValue and tmpEncodedValue.  pushed is a history variable:    *)
(* the literals pushed since the engine was reset, over all its calls.     *)
P1At(pc, pushed) ==
    [pc |-> pc, i |-> 0, litCount |-> 0, flag |-> FALSE,
     next |-> Literal(0), tmp |-> Literal(0), pushed |-> pushed]

(* litLen, matchLen and writeLit are lit_length, match_length and          *)
(* write_lit_length; fresh is readOffsetFlag, csize is compressedSize, out *)
(* is outValue.  upto is a history variable: the literals announced since  *)
(* the reset, up to and including the sequence Part2 is writing.           *)
P2At(pc, upto) ==
    [pc |-> pc, inIdx |-> 0, st |-> "token", litLen |-> 0, matchLen |-> 0,
     writeLit |-> 0, off |-> 0, ending |-> FALSE, extra |-> FALSE, fresh |-> TRUE,
     csize |-> 0, out |-> 0, upto |-> upto]

SinkAt(pc) == [pc |-> pc, val |-> 0, bytes |-> << >>, total |-> 0]

Init ==
    /\ session \in Sessions
    /\ size = 0
    /\ limit = FALSE
    /\ p1 = P1At("idle", 0) /\ p2 = P2At("idle", 0) /\ sink = SinkAt("idle")
    /\ recQ = << >> /\ litQ = << >> /\ lenQ = << >>
    /\ outQ = << >> /\ eosQ = << >> /\ sizeQ = << >>
    /\ answers = << >>

(* A blocking write waits for a free slot. *)
HasRoom(q, depth) == Len(q) < depth

Block == session[Len(answers) + 1]

(* lz4CompressMM calls the engines with the size of one block each and a   *)
(* cleared limit flag; the match finder upstream streams the block's       *)
(* records.  An absent or small block has size 0 and no records.           *)
Call ==
    /\ p1.pc = "idle" /\ p2.pc = "idle" /\ sink.pc = "idle"
    /\ Len(answers) < Len(session)
    /\ size' = Block.size
    /\ limit' = FALSE
    /\ recQ' = recQ \o Block.recs
    /\ p1' = P1At(IF size' = 0 THEN "done" ELSE "first", p1.pushed)
    /\ p2' = P2At("loop", p2.upto)
    /\ sink' = SinkAt("data")
    /\ UNCHANGED <<session, litQ, lenQ, outQ, eosQ, sizeQ, answers>>

(* All processes have returned: the caller takes the block's own size,     *)
(* meaning "store it", when the literal limit was hit, and the output size *)
(* otherwise.                                                              *)
Return ==
    /\ p1.pc = "done" /\ p2.pc = "done" /\ sink.pc = "done"
    /\ answers' = Append(answers,
                         [size |-> IF limit THEN size ELSE sink.total,
                          bytes |-> sink.bytes])
    /\ p1' = P1At("idle", p1.pushed) /\ p2' = P2At("idle", p2.upto) /\ sink' = SinkAt("idle")
    /\ UNCHANGED <<session, size, limit, streams>>

-----------------------------------------------------------------------------
(* lz4CompressPart1 *)

P1First ==
    /\ p1.pc = "first" /\ recQ # << >>
    /\ p1' = [p1 EXCEPT !.pc = "loop", !.next = Head(recQ)]
    /\ recQ' = Tail(recQ)
    /\ UNCHANGED <<session, size, limit, p2, sink, answers, litQ, lenQ, outQ, eosQ, sizeQ>>

(* The top of the loop works on the record read one iteration ago and      *)
(* reads the next, unless this record starts at the last byte.             *)
MoreToReadEarly == p1.i < size - 2
MoreToRead == p1.i < size - 1

P1Fetch ==
    /\ p1.pc = "loop" /\ p1.i < size
    /\ IF MoreToRead
       THEN /\ recQ # << >>
            /\ p1' = [p1 EXCEPT !.pc = "emit", !.tmp = p1.next, !.next = Head(recQ)]
            /\ recQ' = Tail(recQ)
       ELSE /\ p1' = [p1 EXCEPT !.pc = "emit", !.tmp = p1.next]
            /\ UNCHANGED recQ
    /\ UNCHANGED <<session, size, limit, p2, sink, answers, litQ, lenQ, outQ, eosQ, sizeQ>>

AdvanceByOne(p) == [p EXCEPT !.pc = "loop", !.i = @ + 1]
Advance(p) == [p EXCEPT !.pc = "loop", !.i = @ + RecLen(p.tmp)]

LitLimitReachedOffByOne == p1.litCount > MaxLit
LitLimitReached == p1.litCount >= MaxLit

(* The sequence that announces the literals counted since the last one. *)
AnnounceOneMore(match, off) ==
    [lit |-> p1.litCount + 1, match |-> match, off |-> off, upto |-> p1.pushed]
Announce(match, off) ==
    [lit |-> p1.litCount, match |-> match, off |-> off, upto |-> p1.pushed]

(* Past the limit every record is dropped: the block will be stored. *)
P1Drop ==
    /\ p1.pc = "emit" /\ LitLimitReached
    /\ p1' = [Advance(p1) EXCEPT !.flag = TRUE]
    /\ UNCHANGED <<session, size, limit, p2, sink, answers, streams>>

P1Match ==
    /\ p1.pc = "emit" /\ ~LitLimitReached /\ p1.tmp.len > 0
    /\ HasRoom(lenQ, LenDepth)
    /\ lenQ' = Append(lenQ, Announce(p1.tmp.len - MinMatch, p1.tmp.off))
    /\ p1' = [Advance(p1) EXCEPT !.litCount = 0]
    /\ UNCHANGED <<session, size, limit, p2, sink, answers, recQ, litQ, outQ, eosQ, sizeQ>>

P1Literal ==
    /\ p1.pc = "emit" /\ ~LitLimitReached /\ p1.tmp.len = 0
    /\ HasRoom(litQ, MaxLit)
    /\ litQ' = Append(litQ, p1.tmp.ch)
    /\ p1' = [Advance(p1) EXCEPT !.litCount = @ + 1, !.pushed = @ + 1]
    /\ UNCHANGED <<session, size, limit, p2, sink, answers, recQ, lenQ, outQ, eosQ, sizeQ>>

(* After the loop the literals left over are announced with a match length *)
(* and offset no match has: 0 and 0, or twice LimitMark when the run fills *)
(* the limit.                                                              *)
RunIsFull == p1.litCount = MaxLit

P1Finish ==
    LET mark == IF RunIsFull THEN LimitMark ELSE 0
    IN  /\ p1.pc = "loop" /\ p1.i >= size
        /\ IF p1.litCount > 0
           THEN /\ HasRoom(lenQ, LenDepth)
                /\ lenQ' = Append(lenQ, Announce(mark, mark))
                /\ limit' = (p1.flag \/ RunIsFull)
           ELSE limit' = p1.flag /\ UNCHANGED lenQ
        /\ p1' = [p1 EXCEPT !.pc = "done"]
        /\ UNCHANGED <<session, size, p2, sink, answers, recQ, litQ, outQ, eosQ, sizeQ>>

Part1 == P1First \/ P1Fetch \/ P1Drop \/ P1Match \/ P1Literal \/ P1Finish

-----------------------------------------------------------------------------
(* lz4CompressPart2 *)

LoopAgainByIndex == p2.inIdx < size
LoopAgain == p2.inIdx < size \/ ~p2.fresh
InState(st) == p2.pc = "loop" /\ LoopAgain /\ p2.st = st

(* The end of an iteration: the byte is written only while the output is   *)
(* shorter than the input; past that the block is not worth compressing.   *)
Emit(p, byte) ==
    [p EXCEPT !.out = byte, !.pc = IF p.csize < size THEN "out" ELSE "loop"]

(* Lengths above a token nibble continue in bytes: full ones, then the rest. *)
FullByteLate(n) == n > ByteMax
FullByte(n) == n >= ByteMax
AfterFullByteSame(n) == n
AfterFullByte(n) == n - ByteMax

(* The stored offset counts from 1. *)
StoredOffsetRaw(off) == off
StoredOffset(off) == off + 1

Least(a, b) == IF a < b THEN a ELSE b

WriteToken ==
    /\ InState("token") /\ p2.fresh /\ lenQ # << >>
    /\ LET v     == Head(lenQ)
           hi    == Least(v.lit, NibbleMax)
           lo    == Least(v.match, NibbleMax)
           limitHit == v.match = LimitMark /\ v.off = LimitMark
       IN  p2' = Emit([p2 EXCEPT
                   !.inIdx = IF limitHit THEN size ELSE @ + v.match + v.lit + MinMatch,
                   !.ending = @ \/ limitHit \/ (v.off = 0 /\ v.match = 0),
                   !.litLen = v.lit - hi, !.writeLit = v.lit,
                   !.matchLen = v.match - lo, !.extra = v.match >= NibbleMax,
                   !.off = v.off, !.fresh = FALSE, !.upto = v.upto,
                   !.st = IF v.lit >= NibbleMax THEN "litlen"
                          ELSE IF v.lit > 0 THEN "literal" ELSE "offset0"],
                 TokenByte(hi, lo))
    /\ lenQ' = Tail(lenQ)
    /\ UNCHANGED <<session, size, limit, p1, sink, answers, recQ, litQ, outQ, eosQ, sizeQ>>

P2Local == UNCHANGED <<session, size, limit, p1, sink, answers, streams>>

WriteLitLen ==
    /\ InState("litlen")
    /\ IF FullByte(p2.litLen)
       THEN p2' = Emit([p2 EXCEPT !.litLen = AfterFullByte(@)], ByteMax)
       ELSE p2' = Emit([p2 EXCEPT !.st = "literal"], p2.litLen)
    /\ P2Local

WriteLiteral ==
    /\ InState("literal") /\ litQ # << >>
    /\ LET last == p2.writeLit = 1
       IN  p2' = Emit([p2 EXCEPT !.writeLit = @ - 1,
                         !.st = IF ~last THEN "literal"
                                ELSE IF p2.ending THEN "token" ELSE "offset0",
                         !.fresh = last /\ p2.ending],
                      Head(litQ))
    /\ litQ' = Tail(litQ)
    /\ UNCHANGED <<session, size, limit, p1, sink, answers, recQ, lenQ, outQ, eosQ, sizeQ>>

(* The offset goes out low byte first. *)
WriteOffset0 ==
    /\ InState("offset0")
    /\ p2' = Emit([p2 EXCEPT !.off = StoredOffset(@), !.st = "offset1"],
                  StoredOffset(p2.off) % ByteBase)
    /\ P2Local

WriteOffset1 ==
    /\ InState("offset1")
    /\ p2' = Emit([p2 EXCEPT !.st = IF p2.extra THEN "matchlen" ELSE "token",
                             !.fresh = ~p2.extra],
                  (p2.off \div ByteBase) % ByteBase)
    /\ P2Local

WriteMatchLen ==
    /\ InState("matchlen")
    /\ IF FullByte(p2.matchLen)
       THEN p2' = Emit([p2 EXCEPT !.matchLen = AfterFullByte(@)], ByteMax)
       ELSE p2' = Emit([p2 EXCEPT !.st = "token", !.fresh = TRUE], p2.matchLen)
    /\ P2Local

OutByte ==
    /\ p2.pc = "out" /\ HasRoom(outQ, OutDepth)
    /\ outQ' = Append(outQ, p2.out)
    /\ p2' = [p2 EXCEPT !.pc = "eos"]
    /\ UNCHANGED <<session, size, limit, p1, sink, answers, recQ, litQ, lenQ, eosQ, sizeQ>>

OutEos ==
    /\ p2.pc = "eos" /\ HasRoom(eosQ, EosDepth)
    /\ eosQ' = Append(eosQ, FALSE)
    /\ p2' = [p2 EXCEPT !.pc = "loop", !.csize = @ + 1]
    /\ UNCHANGED <<session, size, limit, p1, sink, answers, recQ, litQ, lenQ, outQ, sizeQ>>

(* After the loop: the size, a padding byte, the end flag. *)
OutSize ==
    /\ p2.pc = "loop" /\ ~LoopAgain /\ HasRoom(sizeQ, SizeDepth)
    /\ sizeQ' = Append(sizeQ, p2.csize)
    /\ p2' = [p2 EXCEPT !.pc = "pad"]
    /\ UNCHANGED <<session, size, limit, p1, sink, answers, recQ, litQ, lenQ, outQ, eosQ>>

OutPad ==
    /\ p2.pc = "pad" /\ HasRoom(outQ, OutDepth)
    /\ outQ' = Append(outQ, 0)
    /\ p2' = [p2 EXCEPT !.pc = "end"]
    /\ UNCHANGED <<session, size, limit, p1, sink, answers, recQ, litQ, lenQ, eosQ, sizeQ>>

OutEnd ==
    /\ p2.pc = "end" /\ HasRoom(eosQ, EosDepth)
    /\ eosQ' = Append(eosQ, TRUE)
    /\ p2' = [p2 EXCEPT !.pc = "done"]
    /\ UNCHANGED <<session, size, limit, p1, sink, answers, recQ, litQ, lenQ, outQ, sizeQ>>

Part2 ==
    \/ WriteToken \/ WriteLitLen \/ WriteLiteral
    \/ WriteOffset0 \/ WriteOffset1 \/ WriteMatchLen
    \/ OutByte \/ OutEos \/ OutSize \/ OutPad \/ OutEnd

-----------------------------------------------------------------------------
(* The consumer: stream2mmUpsizer reads a byte ahead of each end flag and  *)
(* keeps it only when the flag is 0; multStream2mmSize reads the total.    *)

SinkData ==
    /\ sink.pc = "data" /\ outQ # << >>
    /\ sink' = [sink EXCEPT !.pc = "flag", !.val = Head(outQ)]
    /\ outQ' = Tail(outQ)
    /\ UNCHANGED <<session, size, limit, p1, p2, answers, recQ, litQ, lenQ, eosQ, sizeQ>>

SinkFlag ==
    /\ sink.pc = "flag" /\ eosQ # << >>
    /\ IF Head(eosQ)
       THEN sink' = [sink EXCEPT !.pc = "total"]
       ELSE sink' = [sink EXCEPT !.pc = "data", !.bytes = Append(@, sink.val)]
    /\ eosQ' = Tail(eosQ)
    /\ UNCHANGED <<session, size, limit, p1, p2, answers, recQ, litQ, lenQ, outQ, sizeQ>>

SinkTotal ==
    /\ sink.pc = "total" /\ sizeQ # << >>
    /\ sink' = [sink EXCEPT !.pc = "done", !.total = Head(sizeQ)]
    /\ sizeQ' = Tail(sizeQ)
    /\ UNCHANGED <<session, size, limit, p1, p2, answers, recQ, litQ, lenQ, outQ, eosQ>>

Sink == SinkData \/ SinkFlag \/ SinkTotal

-----------------------------------------------------------------------------
Finished == p1.pc = "idle" /\ Len(answers) = Len(session)

(* The run is over: nothing calls the engine again. *)
Rest == Finished /\ UNCHANGED vars

Next == Call \/ Return \/ Part1 \/ Part2 \/ Sink \/ Rest

(* Each process is a piece of hardware that runs whenever its FIFOs let it. *)
Fairness ==
    /\ WF_vars(Call) /\ WF_vars(Return)
    /\ WF_vars(Part1) /\ WF_vars(Part2) /\ WF_vars(Sink)

Spec == Init /\ [][Next]_vars
FairSpec == Spec /\ Fairness
-----------------------------------------------------------------------------
(* Properties *)

P1Type ==
    [pc : {"idle", "first", "loop", "emit", "done"}, i : Nat, litCount : 0..MaxLit,
     flag : BOOLEAN, next : Record, tmp : Record, pushed : Nat]

P2Type ==
    [pc : {"idle", "loop", "out", "eos", "pad", "end", "done"}, inIdx : Int,
     st : {"token", "litlen", "literal", "offset0", "offset1", "matchlen"},
     litLen : Nat, matchLen : Nat, writeLit : Int, off : Nat,
     ending : BOOLEAN, extra : BOOLEAN, fresh : BOOLEAN,
     csize : Nat, out : Int, upto : Nat]

SinkType ==
    [pc : {"idle", "data", "flag", "total", "done"}, val : Int,
     bytes : Seq(Int), total : Nat]

SequenceType == [lit : Nat, match : Int, off : Nat, upto : Nat]

(* Every variable has the type of its C++ counterpart: the unsigned        *)
(* lengths that Part2 counts down never wrap, and the literal FIFO and the *)
(* sequence FIFO never exceed the depths of their pragmas.                 *)
TypeOK ==
    /\ session \in Seq(BlockType) /\ size \in Nat /\ limit \in BOOLEAN
    /\ p1 \in P1Type /\ p2 \in P2Type /\ sink \in SinkType
    /\ recQ \in Seq(Record)
    /\ litQ \in Seq(0..ByteMax) /\ Len(litQ) <= MaxLit
    /\ lenQ \in Seq(SequenceType) /\ Len(lenQ) <= LenDepth
    /\ outQ \in Seq(Int) /\ eosQ \in Seq(BOOLEAN) /\ sizeQ \in Seq(Nat)
    /\ answers \in Seq([size : Nat, bytes : Seq(Int)])

(* Part2 reads literals without asking whether they are there: once a      *)
(* sequence is announced on lenOffset_Stream, all its literals have        *)
(* already been pushed on lit_outStream and nobody else takes them.        *)
AnnouncedLiteralsPresent == Len(litQ) >= p2.writeLit

(* A literal FIFO as deep as the literal limit is enough: Part1 is never   *)
(* blocked on a full FIFO while Part2 is blocked on an empty one.          *)
P1Blocked ==
    /\ p1.pc = "emit" /\ ~LitLimitReached
    /\ IF p1.tmp.len > 0 THEN ~HasRoom(lenQ, LenDepth) ELSE ~HasRoom(litQ, MaxLit)
P2Starved ==
    \/ InState("token") /\ lenQ = << >>
    \/ InState("literal") /\ litQ = << >>
NoCrossWait == ~(P1Blocked /\ P2Starved)

(* A finished call leaves nothing behind in any FIFO, whatever happened in *)
(* it (limit hit, output truncated), so the next call starts clean.        *)
StreamsDrained ==
    p1.pc \in {"idle", "done"} /\ p2.pc \in {"idle", "done"} /\ sink.pc \in {"idle", "done"}
        => /\ recQ = << >> /\ litQ = << >> /\ lenQ = << >>
           /\ outQ = << >> /\ eosQ = << >> /\ sizeQ = << >>

(* The lengths of an LZ4 sequence, straight from the block format: token,  *)
(* extra length bytes, literals and, for a match, offset and extra bytes.  *)
ExtraBytes(n) == IF n < NibbleMax THEN 0 ELSE 1 + (n - NibbleMax) \div ByteMax

LitRun(recs, k) ==
    LET matches == {j \in 1..k - 1 : recs[j].len > 0}
    IN  k - 1 - (IF matches = {} THEN 0 ELSE CHOOSE j \in matches : \A m \in matches : m <= j)

MatchIdx(recs) == {k \in 1..Len(recs) : recs[k].len > 0}
LongestRun(recs) ==
    LET runs == {LitRun(recs, k) : k \in MatchIdx(recs) \cup {Len(recs) + 1}}
    IN  CHOOSE n \in runs : \A m \in runs : m <= n

EncodedSize(recs) ==
    LET tail == LitRun(recs, Len(recs) + 1)
        SeqSize(k) == 3 + ExtraBytes(LitRun(recs, k)) + LitRun(recs, k)
                        + ExtraBytes(recs[k].len - MinMatch)
    IN  MapThenSumSet(SeqSize, MatchIdx(recs))
          + (IF tail = 0 THEN 0 ELSE 1 + ExtraBytes(tail) + tail)

(* The size a call reports is a function of the block alone: the block's   *)
(* own size if a run of literals reaches the limit or LZ4 would not shrink *)
(* it, the exact LZ4 size otherwise.  No interleaving of the processes and *)
(* nothing left from earlier calls can change it.                          *)
SizeDetermined ==
    \A k \in 1..Len(answers) :
        LET b == session[k]
        IN  answers[k].size = IF LongestRun(b.recs) >= MaxLit THEN b.size
                              ELSE Least(b.size, EncodedSize(b.recs))

(* Every call returns: under weak fairness of the processes all blocks of  *)
(* the session are answered, so no FIFO depth makes the network stop.      *)
AllAnswered == <>(Finished)

-----------------------------------------------------------------------------
(* What the encoder promises. *)
Service == INSTANCE Lz4Service WITH request <- session, reply <- answers

(* The encoder implements the block compression service. *)
ImplementsService == Service!Spec
=============================================================================
