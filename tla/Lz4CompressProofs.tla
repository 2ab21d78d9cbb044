------------------------- MODULE Lz4CompressProofs -------------------------
(***************************************************************************)
(* Theorems about Lz4Compress, for all values of its constants.            *)
(***************************************************************************)
EXTENDS Lz4Compress, SequenceTheorems, FiniteSetTheorems, WellFoundedInduction,
        NaturalsInduction, TLAPS

LEMMA ConstantTypes ==
    /\ NibbleMax \in Nat \ {0} /\ ByteMax \in Nat \ {0} /\ MinMatch \in Nat \ {0}
    /\ MaxLit \in Nat \ {0} /\ LimitMark \in Nat \ {0} /\ LenDepth \in Nat \ {0}
BY FormatAssumption, EncoderAssumption

LEMMA InitType == Init => TypeOK
<1> SUFFICES ASSUME Init PROVE TypeOK
  OBVIOUS
<1> USE ConstantTypes
<1>1. Literal(0) \in Record
  BY DEF Literal, Record, Byte
<1>2. p1 \in P1Type
  BY <1>1 DEF Init, P1At, P1Type
<1>3. p2 \in P2Type
  BY DEF Init, P2At, P2Type
<1>4. sink \in SinkType
  BY DEF Init, SinkAt, SinkType
<1>5. session \in Seq(BlockType)
  BY SessionAssumption DEF Init
<1>6. limit \in BOOLEAN /\ size \in Nat
  BY DEF Init
<1>7. /\ recQ \in Seq(Record) /\ litQ \in Seq(0..ByteMax) /\ lenQ \in Seq(SequenceType)
      /\ outQ \in Seq(Int) /\ eosQ \in Seq(BOOLEAN) /\ sizeQ \in Seq(Nat)
      /\ answers \in Seq([size : Nat, bytes : Seq(Int)])
  BY DEF Init
<1>8. Len(litQ) <= MaxLit /\ Len(lenQ) <= LenDepth
  BY DEF Init
<1>9. QED
  BY <1>2, <1>3, <1>4, <1>5, <1>6, <1>7, <1>8 DEF TypeOK

(* Reading a FIFO keeps its type and makes room. *)
LEMMA TailType ==
    ASSUME NEW S, NEW q \in Seq(S), q # << >>
    PROVE  /\ Head(q) \in S /\ Tail(q) \in Seq(S)
           /\ Len(Tail(q)) = Len(q) - 1 /\ Len(q) \in Nat /\ Len(q) > 0
OBVIOUS

LEMMA AppendType ==
    ASSUME NEW S, NEW q \in Seq(S), NEW e \in S
    PROVE  Append(q, e) \in Seq(S) /\ Len(Append(q, e)) = Len(q) + 1
OBVIOUS

(* Part1 keeps the types. *)
LEMMA Part1Type == TypeOK /\ Part1 => TypeOK'
<1> SUFFICES ASSUME TypeOK, Part1 PROVE TypeOK'
  OBVIOUS
<1> USE ConstantTypes
<1>t. p1 \in P1Type /\ recQ \in Seq(Record)
  BY DEF TypeOK
<1>r. p1.tmp \in Record /\ RecLen(p1.tmp) \in Nat
  BY <1>t DEF P1Type, RecLen, Record
<1>a. p1.i + RecLen(p1.tmp) \in Nat
  BY <1>t, <1>r DEF P1Type
<1>b. Advance(p1) \in P1Type
  BY <1>t, <1>a DEF P1Type, Advance
<1>1. CASE P1First
  <2>1. p1' \in P1Type /\ recQ' \in Seq(Record)
    BY <1>1, <1>t, TailType DEF P1First, P1Type
  <2>2. QED
    BY <1>1, <2>1 DEF P1First, TypeOK
<1>2. CASE P1Fetch
  <2>1. CASE MoreToRead
    <3>1. recQ # << >> /\ recQ' = Tail(recQ)
          /\ p1' = [p1 EXCEPT !.pc = "emit", !.tmp = p1.next, !.next = Head(recQ)]
      BY <1>2, <2>1 DEF P1Fetch
    <3>2. Head(recQ) \in Record /\ recQ' \in Seq(Record)
      BY <3>1, <1>t, TailType
    <3>3. p1' \in P1Type
      BY <3>1, <3>2, <1>t DEF P1Type
    <3>4. QED
      BY <1>2, <3>2, <3>3 DEF P1Fetch, TypeOK
  <2>2. CASE ~MoreToRead
    <3>1. p1' = [p1 EXCEPT !.pc = "emit", !.tmp = p1.next] /\ recQ' = recQ
      BY <1>2, <2>2 DEF P1Fetch
    <3>2. p1' \in P1Type
      BY <3>1, <1>t DEF P1Type
    <3>3. QED
      BY <1>2, <3>1, <3>2 DEF P1Fetch, TypeOK
  <2>3. QED
    BY <2>1, <2>2
<1>3. CASE P1Drop
  <2>1. p1' \in P1Type
    BY <1>3, <1>b DEF P1Drop, P1Type
  <2>2. QED
    BY <1>3, <2>1 DEF P1Drop, TypeOK, streams
<1>4. CASE P1Match
  <2>1. p1' \in P1Type
    BY <1>4, <1>b DEF P1Match, P1Type
  <2>2. [lit |-> p1.litCount, match |-> p1.tmp.len - MinMatch,
         off |-> p1.tmp.off, upto |-> p1.pushed] \in SequenceType
    BY <1>t, <1>r DEF P1Type, Record, SequenceType
  <2>3. lenQ' \in Seq(SequenceType) /\ Len(lenQ') <= LenDepth
    BY <1>4, <2>2, AppendType DEF P1Match, TypeOK, HasRoom, Announce
  <2>4. QED
    BY <1>4, <2>1, <2>3 DEF P1Match, TypeOK
<1>5. CASE P1Literal
  <2>1. p1' = [Advance(p1) EXCEPT !.litCount = @ + 1, !.pushed = @ + 1]
    BY <1>5 DEF P1Literal
  <2>2. Advance(p1).litCount = p1.litCount /\ p1.litCount + 1 \in 0..MaxLit
    BY <1>5, <1>t DEF P1Literal, P1Type, Advance, LitLimitReached
  <2>a. Advance(p1).pushed + 1 \in Nat
    BY <1>b DEF P1Type
  <2>3. p1' \in P1Type
    BY <1>b, <2>1, <2>2, <2>a DEF P1Type
  <2>4. p1.tmp.ch \in 0..ByteMax
    BY <1>r DEF Record, Byte
  <2>5. litQ \in Seq(0..ByteMax) /\ Len(litQ) < MaxLit /\ litQ' = Append(litQ, p1.tmp.ch)
    BY <1>5 DEF P1Literal, TypeOK, HasRoom
  <2>6. litQ' \in Seq(0..ByteMax) /\ Len(litQ') <= MaxLit
    BY <2>4, <2>5, AppendType
  <2>7. QED
    BY <1>5, <2>3, <2>6 DEF P1Literal, TypeOK
<1>6. CASE P1Finish
  <2>1. p1' \in P1Type
    BY <1>6, <1>t DEF P1Finish, P1Type
  <2> DEFINE mark == IF p1.litCount = MaxLit THEN LimitMark ELSE 0
             last == [lit |-> p1.litCount, match |-> mark, off |-> mark, upto |-> p1.pushed]
  <2>2. last \in SequenceType
    BY <1>t DEF P1Type, SequenceType
  <2>a. lenQ \in Seq(SequenceType) /\ Len(lenQ) <= LenDepth
    BY DEF TypeOK
  <2>b. \/ lenQ' = Append(lenQ, last) /\ Len(lenQ) < LenDepth
        \/ lenQ' = lenQ
    BY <1>6 DEF P1Finish, HasRoom, Announce, RunIsFull
  <2> HIDE DEF last
  <2>3. lenQ' \in Seq(SequenceType) /\ Len(lenQ') <= LenDepth
    BY <2>2, <2>a, <2>b, AppendType
  <2>4. limit' \in BOOLEAN
    BY <1>6, <1>t DEF P1Finish, P1Type
  <2>5. QED
    BY <1>6, <2>1, <2>3, <2>4 DEF P1Finish, TypeOK
<1>7. QED
  BY <1>1, <1>2, <1>3, <1>4, <1>5, <1>6 DEF Part1

LEMMA EmitType ==
    ASSUME NEW p \in P2Type, NEW byte \in Int
    PROVE  Emit(p, byte) \in P2Type
BY DEF P2Type, Emit

(* Part2 keeps the types. *)
LEMMA Part2Type == TypeOK /\ Part2 => TypeOK'
<1> SUFFICES ASSUME TypeOK, Part2 PROVE TypeOK'
  OBVIOUS
<1> USE ConstantTypes
<1>t. p2 \in P2Type
  BY DEF TypeOK
<1>1. CASE WriteToken
  <2> DEFINE v  == Head(lenQ)
             hi == Least(v.lit, NibbleMax)
             lo == Least(v.match, NibbleMax)
             limitHit == v.match = LimitMark /\ v.off = LimitMark
             inIdx  == IF limitHit THEN size ELSE p2.inIdx + v.match + v.lit + MinMatch
             ending == p2.ending \/ limitHit \/ (v.off = 0 /\ v.match = 0)
             extra == v.match >= NibbleMax
             st == IF v.lit >= NibbleMax THEN "litlen"
                   ELSE IF v.lit > 0 THEN "literal" ELSE "offset0"
             restLit == v.lit - hi
             restMatch == v.match - lo
             next == [p2 EXCEPT !.inIdx = inIdx, !.ending = ending,
                        !.litLen = restLit, !.writeLit = v.lit,
                        !.matchLen = restMatch, !.extra = extra,
                        !.off = v.off, !.fresh = FALSE, !.upto = v.upto, !.st = st]
  <2>1. lenQ \in Seq(SequenceType) /\ lenQ # << >> /\ lenQ' = Tail(lenQ)
        /\ Len(lenQ) <= LenDepth /\ size \in Nat
    BY <1>1 DEF WriteToken, TypeOK
  <2>2. /\ v \in SequenceType /\ lenQ' \in Seq(SequenceType) /\ Len(lenQ') <= LenDepth
    BY <2>1, TailType
  <2> HIDE DEF v
  <2>3. v.lit \in Nat /\ v.match \in Int /\ v.off \in Nat /\ v.upto \in Nat
    BY <2>2 DEF SequenceType
  <2>4. hi \in Int /\ lo \in Int /\ hi <= v.lit /\ lo <= v.match
    BY <2>3 DEF Least
  <2> HIDE DEF hi, lo
  <2>5. restLit \in Nat /\ restMatch \in Nat /\ TokenByte(hi, lo) \in Int
    BY <2>3, <2>4 DEF TokenByte
  <2>a. p2.inIdx \in Int
    BY <1>t DEF P2Type
  <2>b. p2.inIdx + v.match + v.lit + MinMatch \in Int
    BY <2>a, <2>3
  <2> HIDE DEF limitHit
  <2>6. inIdx \in Int
    BY <2>1, <2>b
  <2>7. st \in {"litlen", "literal", "offset0"}
    OBVIOUS
  <2>8. ending \in BOOLEAN /\ extra \in BOOLEAN
    OBVIOUS
  <2> HIDE DEF inIdx, ending, extra, st, restLit, restMatch
  <2>9. next \in P2Type
    <3> DEFINE half == [p2 EXCEPT !.inIdx = inIdx, !.ending = ending, !.litLen = restLit,
                                  !.writeLit = v.lit, !.matchLen = restMatch]
    <3>a. v.lit \in Int
      BY <2>3
    <3>1. half \in P2Type
      BY <1>t, <2>5, <2>6, <2>8, <3>a DEF P2Type
    <3> HIDE DEF half
    <3>2. [half EXCEPT !.extra = extra, !.off = v.off, !.fresh = FALSE,
                       !.upto = v.upto, !.st = st] \in P2Type
      BY <3>1, <2>3, <2>7, <2>8 DEF P2Type
    <3>3. QED
      BY <3>2 DEF half
  <2>10. p2' = Emit(next, TokenByte(hi, lo))
    BY <1>1 DEF WriteToken, v, hi, lo, limitHit, inIdx, ending, extra, st, restLit, restMatch
  <2> HIDE DEF next
  <2>11. p2' \in P2Type
    BY <2>5, <2>9, <2>10, EmitType
  <2>12. QED
    BY <1>1, <2>2, <2>11 DEF WriteToken, TypeOK
<1>2. CASE WriteLitLen
  <2>1. p2.litLen \in Int /\ [p2 EXCEPT !.st = "literal"] \in P2Type
    BY <1>t DEF P2Type
  <2>2. ASSUME FullByte(p2.litLen) PROVE [p2 EXCEPT !.litLen = AfterFullByte(@)] \in P2Type
    <3>1. AfterFullByte(p2.litLen) \in Nat
      BY <1>t, <2>2 DEF P2Type, FullByte, AfterFullByte
    <3>2. QED
      BY <1>t, <3>1 DEF P2Type
  <2>3. p2' \in P2Type
    BY <1>2, <2>1, <2>2, EmitType DEF WriteLitLen
  <2>4. QED
    BY <1>2, <2>3 DEF WriteLitLen, P2Local, streams, TypeOK
<1>3. CASE WriteLiteral
  <2> DEFINE last == p2.writeLit = 1
             st == IF ~last THEN "literal" ELSE IF p2.ending THEN "token" ELSE "offset0"
             next == [p2 EXCEPT !.writeLit = @ - 1, !.st = st, !.fresh = last /\ p2.ending]
  <2>1. litQ \in Seq(0..ByteMax) /\ litQ # << >> /\ litQ' = Tail(litQ) /\ Len(litQ) <= MaxLit
    BY <1>3 DEF WriteLiteral, TypeOK
  <2>2. Head(litQ) \in Int /\ litQ' \in Seq(0..ByteMax) /\ Len(litQ') <= MaxLit
    BY <2>1, TailType
  <2>3. p2.writeLit - 1 \in Int /\ st \in {"literal", "token", "offset0"}
    BY <1>t DEF P2Type
  <2>4. (last /\ p2.ending) \in BOOLEAN
    OBVIOUS
  <2> HIDE DEF last, st
  <2>5. next \in P2Type
    BY <1>t, <2>3, <2>4 DEF P2Type
  <2>6. p2' = Emit(next, Head(litQ))
    BY <1>3 DEF WriteLiteral, last, st
  <2> HIDE DEF next
  <2>7. p2' \in P2Type
    BY <2>2, <2>5, <2>6, EmitType
  <2>8. QED
    BY <1>3, <2>2, <2>7 DEF WriteLiteral, TypeOK
<1>4. CASE WriteOffset0
  <2>1. StoredOffset(p2.off) \in Nat /\ StoredOffset(p2.off) % ByteBase \in Int
    BY <1>t DEF P2Type, ByteBase, StoredOffset
  <2>2. [p2 EXCEPT !.off = StoredOffset(@), !.st = "offset1"] \in P2Type
    BY <1>t, <2>1 DEF P2Type
  <2>3. p2' \in P2Type
    BY <1>4, <2>1, <2>2, EmitType DEF WriteOffset0
  <2>4. QED
    BY <1>4, <2>3 DEF WriteOffset0, P2Local, streams, TypeOK
<1>5. CASE WriteOffset1
  <2>1. (p2.off \div ByteBase) % ByteBase \in Int
    BY <1>t DEF P2Type, ByteBase
  <2>2. [p2 EXCEPT !.st = IF p2.extra THEN "matchlen" ELSE "token", !.fresh = ~p2.extra] \in P2Type
    BY <1>t DEF P2Type
  <2>3. p2' \in P2Type
    BY <1>5, <2>1, <2>2, EmitType DEF WriteOffset1
  <2>4. QED
    BY <1>5, <2>3 DEF WriteOffset1, P2Local, streams, TypeOK
<1>6. CASE WriteMatchLen
  <2>a. p2.matchLen \in Int
    BY <1>t DEF P2Type
  <2>1. [p2 EXCEPT !.st = "token", !.fresh = TRUE] \in P2Type
    BY <1>t DEF P2Type
  <2>2. ASSUME FullByte(p2.matchLen) PROVE [p2 EXCEPT !.matchLen = AfterFullByte(@)] \in P2Type
    <3>1. AfterFullByte(p2.matchLen) \in Nat
      BY <1>t, <2>2 DEF P2Type, FullByte, AfterFullByte
    <3>2. QED
      BY <1>t, <3>1 DEF P2Type
  <2>3. p2' \in P2Type
    BY <1>6, <2>a, <2>1, <2>2, EmitType DEF WriteMatchLen
  <2>4. QED
    BY <1>6, <2>3 DEF WriteMatchLen, P2Local, streams, TypeOK
<1>7. CASE OutByte
  <2>1. p2.out \in Int /\ p2' \in P2Type
    BY <1>7, <1>t DEF OutByte, P2Type
  <2>2. outQ' \in Seq(Int)
    BY <1>7, <2>1, AppendType DEF OutByte, TypeOK
  <2>3. QED
    BY <1>7, <2>1, <2>2 DEF OutByte, TypeOK
<1>8. CASE OutEos
  <2>1. p2.csize + 1 \in Nat
    BY <1>t DEF P2Type
  <2>2. p2' \in P2Type
    BY <1>8, <2>1, <1>t DEF OutEos, P2Type
  <2>3. eosQ' \in Seq(BOOLEAN)
    BY <1>8, AppendType DEF OutEos, TypeOK
  <2>4. QED
    BY <1>8, <2>2, <2>3 DEF OutEos, TypeOK
<1>9. CASE OutSize
  <2>1. p2.csize \in Nat /\ p2' \in P2Type
    BY <1>9, <1>t DEF OutSize, P2Type
  <2>2. sizeQ' \in Seq(Nat)
    BY <1>9, <2>1, AppendType DEF OutSize, TypeOK
  <2>3. QED
    BY <1>9, <2>1, <2>2 DEF OutSize, TypeOK
<1>10. CASE OutPad
  <2>1. p2' \in P2Type
    BY <1>10, <1>t DEF OutPad, P2Type
  <2>2. outQ' \in Seq(Int)
    BY <1>10, AppendType DEF OutPad, TypeOK
  <2>3. QED
    BY <1>10, <2>1, <2>2 DEF OutPad, TypeOK
<1>11. CASE OutEnd
  <2>1. p2' \in P2Type
    BY <1>11, <1>t DEF OutEnd, P2Type
  <2>2. eosQ' \in Seq(BOOLEAN)
    BY <1>11, AppendType DEF OutEnd, TypeOK
  <2>3. QED
    BY <1>11, <2>1, <2>2 DEF OutEnd, TypeOK
<1>12. QED
  BY <1>1, <1>2, <1>3, <1>4, <1>5, <1>6, <1>7, <1>8, <1>9, <1>10, <1>11 DEF Part2

(* The consumer and the caller keep the types. *)
LEMMA SinkStepType == TypeOK /\ Sink => TypeOK'
<1> SUFFICES ASSUME TypeOK, Sink PROVE TypeOK'
  OBVIOUS
<1>t. sink \in SinkType /\ outQ \in Seq(Int) /\ eosQ \in Seq(BOOLEAN) /\ sizeQ \in Seq(Nat)
  BY DEF TypeOK
<1>1. CASE SinkData
  <2>1. Head(outQ) \in Int /\ outQ' \in Seq(Int)
    BY <1>1, <1>t, TailType DEF SinkData
  <2>2. sink' \in SinkType
    BY <1>1, <1>t, <2>1 DEF SinkData, SinkType
  <2>3. QED
    BY <1>1, <2>1, <2>2 DEF SinkData, TypeOK
<1>2. CASE SinkFlag
  <2>1. eosQ' \in Seq(BOOLEAN)
    BY <1>2, <1>t, TailType DEF SinkFlag
  <2>2. Append(sink.bytes, sink.val) \in Seq(Int)
    BY <1>t, AppendType DEF SinkType
  <2>3. sink' \in SinkType
    BY <1>2, <1>t, <2>2 DEF SinkFlag, SinkType
  <2>4. QED
    BY <1>2, <2>1, <2>3 DEF SinkFlag, TypeOK
<1>3. CASE SinkTotal
  <2>1. Head(sizeQ) \in Nat /\ sizeQ' \in Seq(Nat)
    BY <1>3, <1>t, TailType DEF SinkTotal
  <2>2. sink' \in SinkType
    BY <1>3, <1>t, <2>1 DEF SinkTotal, SinkType
  <2>3. QED
    BY <1>3, <2>1, <2>2 DEF SinkTotal, TypeOK
<1>4. QED
  BY <1>1, <1>2, <1>3 DEF Sink

LEMMA ResetTypes ==
    ASSUME TypeOK, NEW pc \in {"idle", "first", "done"}, NEW qc \in {"idle", "loop"},
           NEW sc \in {"idle", "data"}
    PROVE  /\ P1At(pc, p1.pushed) \in P1Type /\ P2At(qc, p2.upto) \in P2Type
           /\ SinkAt(sc) \in SinkType
<1>1. p1.pushed \in Nat /\ p2.upto \in Nat
  BY DEF TypeOK, P1Type, P2Type
<1>2. Literal(0) \in Record /\ 0 \in 0..MaxLit
  BY ConstantTypes DEF Literal, Record, Byte
<1>3. P1At(pc, p1.pushed) \in P1Type
  BY <1>1, <1>2 DEF P1At, P1Type
<1>4. P2At(qc, p2.upto) \in P2Type
  BY <1>1 DEF P2At, P2Type
<1>5. SinkAt(sc) \in SinkType
  BY DEF SinkAt, SinkType
<1>6. QED
  BY <1>3, <1>4, <1>5

LEMMA CallType == TypeOK /\ Call => TypeOK'
<1> SUFFICES ASSUME TypeOK, Call PROVE TypeOK'
  OBVIOUS
<1>1. Block \in BlockType
  <2>1. session \in Seq(BlockType) /\ Len(answers) \in Nat /\ Len(answers) < Len(session)
    BY DEF TypeOK, Call
  <2>2. QED
    BY <2>1 DEF Block
<1>2. Block.size \in Nat /\ Block.recs \in Seq(Record)
  BY <1>1 DEF BlockType
<1>3. recQ' \in Seq(Record) /\ size' \in Nat /\ limit' \in BOOLEAN
  <2>1. recQ' = recQ \o Block.recs /\ size' = Block.size /\ limit' = FALSE
    BY DEF Call
  <2>2. recQ \in Seq(Record)
    BY DEF TypeOK
  <2>3. QED
    BY <1>2, <2>1, <2>2, ConcatProperties
<1> DEFINE start == IF size' = 0 THEN "done" ELSE "first"
<1>a. start \in {"idle", "first", "done"}
  OBVIOUS
<1>b. p1' = P1At(start, p1.pushed) /\ p2' = P2At("loop", p2.upto) /\ sink' = SinkAt("data")
  BY DEF Call
<1> HIDE DEF start
<1>4. p1' \in P1Type /\ p2' \in P2Type /\ sink' \in SinkType
  BY <1>a, <1>b, ResetTypes
<1>5. QED
  BY <1>3, <1>4 DEF Call, TypeOK

LEMMA ReturnType == TypeOK /\ Return => TypeOK'
<1> SUFFICES ASSUME TypeOK, Return PROVE TypeOK'
  OBVIOUS
<1> DEFINE a == [size |-> IF limit THEN size ELSE sink.total, bytes |-> sink.bytes]
<1>1. a \in [size : Nat, bytes : Seq(Int)]
  BY DEF TypeOK, SinkType
<1>2. answers' = Append(answers, a)
  BY DEF Return
<1> HIDE DEF a
<1>3. answers' \in Seq([size : Nat, bytes : Seq(Int)])
  BY <1>1, <1>2, AppendType DEF TypeOK
<1>4. p1' \in P1Type /\ p2' \in P2Type /\ sink' \in SinkType
  BY ResetTypes DEF Return
<1>5. QED
  BY <1>3, <1>4 DEF Return, TypeOK, streams

(* Type correctness of the encoder: in particular both internal FIFOs stay *)
(* within the depths the pragmas give them, for every block and depth.     *)
THEOREM TypeCorrect == Spec => []TypeOK
<1>1. Init => TypeOK
  BY InitType
<1>2. TypeOK /\ [Next]_vars => TypeOK'
  <2> SUFFICES ASSUME TypeOK, [Next]_vars PROVE TypeOK'
    OBVIOUS
  <2>1. CASE UNCHANGED vars
    BY <2>1 DEF vars, streams, TypeOK
  <2>2. CASE Rest
    BY <2>2 DEF Rest, vars, streams, TypeOK
  <2>3. QED
    BY <2>1, <2>2, Part1Type, Part2Type, SinkStepType, CallType, ReturnType DEF Next
<1>3. QED
  BY <1>1, <1>2, PTL DEF Spec

-----------------------------------------------------------------------------
(***************************************************************************)
(* Where every literal is.  A literal is counted when it is pushed;        *)
(* sequence k of lenQ announces the literals between the end of its        *)
(* predecessor and its own upto.  The literal FIFO then holds, in order,   *)
(* what Part2 has left of its current sequence, what lenQ announces, and   *)
(* what Part1 has not announced yet.                                       *)
(***************************************************************************)
Unannounced == IF p1.pc \in {"idle", "done"} THEN 0 ELSE p1.litCount

LastUpto == IF lenQ = << >> THEN p2.upto ELSE lenQ[Len(lenQ)].upto

Balance == Len(litQ) = p1.pushed - p2.upto + p2.writeLit

Chain ==
    \A k \in 1..Len(lenQ) :
        /\ lenQ[k].upto - lenQ[k].lit = IF k = 1 THEN p2.upto ELSE lenQ[k - 1].upto
        /\ lenQ[k].upto <= p1.pushed

(* Part2 owes literals exactly in the two states that precede or write     *)
(* them, reads a sequence exactly at a token, and owes none when it is not *)
(* in the loop.                                                            *)
Part2Control ==
    /\ p2.writeLit >= 0
    /\ p2.writeLit > 0 <=> p2.st \in {"litlen", "literal"}
    /\ p2.fresh <=> p2.st = "token"
    /\ p2.pc \in {"idle", "pad", "end", "done"} => p2.fresh

Accounting ==
    /\ Balance
    /\ Chain
    /\ LastUpto = p1.pushed - Unannounced
    /\ p2.upto <= p1.pushed
    /\ Part2Control

LEMMA InitAccounting == Init => Accounting
<1> SUFFICES ASSUME Init PROVE Accounting
  OBVIOUS
<1>1. p1.pushed = 0 /\ p1.pc = "idle"
  BY DEF Init, P1At
<1>2. p2.upto = 0 /\ p2.writeLit = 0 /\ p2.st = "token" /\ p2.fresh
  BY DEF Init, P2At
<1>3. litQ = << >> /\ lenQ = << >>
  BY DEF Init
<1>4. QED
  BY <1>1, <1>2, <1>3 DEF Accounting, Balance, Chain, LastUpto, Unannounced, Part2Control

(* Steps that neither push nor announce nor take a literal. *)
LEMMA Frame ==
    ASSUME Accounting, litQ' = litQ, lenQ' = lenQ,
           p1'.pushed = p1.pushed, Unannounced' = Unannounced,
           p2'.upto = p2.upto, p2'.writeLit = p2.writeLit, Part2Control'
    PROVE  Accounting'
BY DEF Accounting, Balance, Chain, LastUpto
(* Announcing all unannounced literals as one more sequence. *)
LEMMA AnnounceStep ==
    ASSUME TypeOK, Accounting, NEW e, lenQ' = Append(lenQ, e), litQ' = litQ,
           e.upto = p1.pushed, e.lit = p1.litCount, Unannounced = p1.litCount,
           p1'.pushed = p1.pushed, Unannounced' = 0, p2' = p2, Part2Control'
    PROVE  Accounting'
<1>1. lenQ \in Seq(SequenceType) /\ Len(lenQ) \in Nat
  BY DEF TypeOK
<1>2. p1.pushed \in Nat /\ p2.upto \in Nat /\ p1.litCount \in Nat
  BY DEF TypeOK, P1Type, P2Type
<1>3. /\ Len(lenQ') = Len(lenQ) + 1
      /\ lenQ'[Len(lenQ) + 1] = e
      /\ \A k \in 1..Len(lenQ) : lenQ'[k] = lenQ[k]
  BY <1>1
<1>4. e.upto - e.lit = LastUpto
  BY <1>2 DEF Accounting
<1>5. Chain'
  <2> SUFFICES ASSUME NEW k \in 1..Len(lenQ')
               PROVE  /\ lenQ'[k].upto - lenQ'[k].lit
                           = IF k = 1 THEN p2.upto ELSE lenQ'[k - 1].upto
                      /\ lenQ'[k].upto <= p1.pushed
    BY DEF Chain
  <2>1. CASE k \in 1..Len(lenQ)
    <3>1. k # 1 => k - 1 \in 1..Len(lenQ)
      BY <2>1, <1>1
    <3>2. QED
      BY <2>1, <3>1, <1>3 DEF Accounting, Chain
  <2>2. CASE k = Len(lenQ) + 1
    <3>1. lenQ'[k] = e
      BY <2>2, <1>3
    <3>2. LastUpto = IF k = 1 THEN p2.upto ELSE lenQ'[k - 1].upto
      <4>1. CASE lenQ = << >>
        BY <4>1, <2>2 DEF LastUpto
      <4>2. CASE lenQ # << >>
        <5>1. Len(lenQ) > 0 /\ k - 1 = Len(lenQ) /\ k # 1
          BY <4>2, <2>2, <1>1
        <5>2. lenQ'[k - 1] = lenQ[Len(lenQ)]
          BY <5>1, <1>1, <1>3
        <5>3. QED
          BY <4>2, <5>1, <5>2 DEF LastUpto
      <4>3. QED
        BY <4>1, <4>2
    <3>3. QED
      BY <3>1, <3>2, <1>2, <1>4
  <2>3. QED
    BY <2>1, <2>2, <1>1, <1>3
<1>6. LastUpto' = p1'.pushed - Unannounced'
  <2>1. LastUpto' = e.upto
    BY <1>1, <1>3 DEF LastUpto
  <2>2. QED
    BY <2>1, <1>2
<1>7. Balance' /\ p2'.upto <= p1'.pushed
  BY DEF Accounting, Balance
<1>8. QED
  BY <1>5, <1>6, <1>7 DEF Accounting

LEMMA Part1Accounting == TypeOK /\ Accounting /\ Part1 => Accounting'
<1> SUFFICES ASSUME TypeOK, Accounting, Part1 PROVE Accounting'
  OBVIOUS
<1>t. p1 \in P1Type /\ p2 \in P2Type
  BY DEF TypeOK
<1>q. lenQ \in Seq(SequenceType) /\ litQ \in Seq(0..ByteMax)
  BY DEF TypeOK
<1>p. p2' = p2
  BY DEF Part1, P1First, P1Fetch, P1Drop, P1Match, P1Literal, P1Finish
<1>c. Part2Control'
  BY <1>p DEF Accounting, Part2Control
<1>1. CASE P1First
  <2>1. p1'.pushed = p1.pushed /\ Unannounced' = Unannounced /\ litQ' = litQ /\ lenQ' = lenQ
    BY <1>1, <1>t DEF P1First, P1Type, Unannounced
  <2>2. QED
    BY <2>1, <1>p, <1>c, Frame
<1>2. CASE P1Fetch
  <2>1. p1'.pushed = p1.pushed /\ Unannounced' = Unannounced /\ litQ' = litQ /\ lenQ' = lenQ
    BY <1>2, <1>t DEF P1Fetch, P1Type, Unannounced
  <2>2. QED
    BY <2>1, <1>p, <1>c, Frame
<1>3. CASE P1Drop
  <2>1. p1'.pushed = p1.pushed /\ Unannounced' = Unannounced /\ litQ' = litQ /\ lenQ' = lenQ
    BY <1>3, <1>t DEF P1Drop, P1Type, Unannounced, Advance, streams
  <2>2. QED
    BY <2>1, <1>p, <1>c, Frame
<1>4. CASE P1Match
  <2> DEFINE e == [lit |-> p1.litCount, match |-> p1.tmp.len - MinMatch,
                   off |-> p1.tmp.off, upto |-> p1.pushed]
  <2>1. p1'.pushed = p1.pushed /\ Unannounced = p1.litCount /\ Unannounced' = 0 /\ litQ' = litQ
    BY <1>4, <1>t DEF P1Match, P1Type, Unannounced, Advance
  <2>2. lenQ' = Append(lenQ, e) /\ e.upto = p1.pushed /\ e.lit = p1.litCount
    BY <1>4 DEF P1Match, Announce
  <2> HIDE DEF e
  <2>3. QED
    BY <2>1, <2>2, <1>p, <1>c, <1>q, AnnounceStep
<1>5. CASE P1Literal
  <2>1. p1'.pushed = p1.pushed + 1 /\ Unannounced' = Unannounced + 1 /\ lenQ' = lenQ
    BY <1>5, <1>t DEF P1Literal, P1Type, Unannounced, Advance
  <2>2. Len(litQ') = Len(litQ) + 1
    BY <1>5, <1>q DEF P1Literal
  <2>3. p1.pushed \in Nat /\ p2.upto \in Nat /\ p2.writeLit \in Int /\ Unannounced \in Int
    BY <1>t DEF P1Type, P2Type, Unannounced
  <2>4. Balance'
    BY <2>1, <2>2, <2>3, <1>p DEF Accounting, Balance
  <2>5. Chain'
    <3>0. \A k \in 1..Len(lenQ) : lenQ[k] \in SequenceType
      BY <1>q
    <3>1. \A k \in 1..Len(lenQ) : lenQ[k].upto \in Nat
      BY <3>0 DEF SequenceType
    <3>2. p1'.pushed = p1.pushed + 1 /\ p2'.upto = p2.upto
      BY <2>1, <1>p
    <3>3. \A k \in 1..Len(lenQ) : lenQ[k].upto <= p1'.pushed
      <4> SUFFICES ASSUME NEW k \in 1..Len(lenQ) PROVE lenQ[k].upto <= p1'.pushed
        OBVIOUS
      <4>1. lenQ[k].upto <= p1.pushed /\ lenQ[k].upto \in Nat
        BY <3>1 DEF Accounting, Chain
      <4>2. QED
        BY <4>1, <3>2, <2>3
    <3>4. QED
      BY <2>1, <3>2, <3>3 DEF Accounting, Chain
  <2>6. LastUpto' = p1'.pushed - Unannounced' /\ p2'.upto <= p1'.pushed
    BY <2>1, <2>3, <1>p DEF Accounting, LastUpto
  <2>7. QED
    BY <2>4, <2>5, <2>6, <1>c DEF Accounting
<1>6. CASE P1Finish
  <2> DEFINE mark == IF p1.litCount = MaxLit THEN LimitMark ELSE 0
             e == [lit |-> p1.litCount, match |-> mark, off |-> mark, upto |-> p1.pushed]
  <2>1. p1'.pushed = p1.pushed /\ Unannounced = p1.litCount /\ Unannounced' = 0 /\ litQ' = litQ
    BY <1>6, <1>t DEF P1Finish, P1Type, Unannounced
  <2>2. CASE p1.litCount > 0
    <3>1. lenQ' = Append(lenQ, e) /\ e.upto = p1.pushed /\ e.lit = p1.litCount
      BY <1>6, <2>2 DEF P1Finish, Announce, RunIsFull
    <3> HIDE DEF e
    <3>2. QED
      BY <2>1, <3>1, <1>p, <1>c, <1>q, AnnounceStep
  <2>3. CASE ~(p1.litCount > 0)
    <3>1. p1.litCount = 0 /\ lenQ' = lenQ
      BY <1>6, <1>t, <2>3 DEF P1Finish, P1Type
    <3>2. QED
      BY <2>1, <3>1, <1>p, <1>c, Frame
  <2>4. QED
    BY <2>2, <2>3
<1>7. QED
  BY <1>1, <1>2, <1>3, <1>4, <1>5, <1>6 DEF Part1

LEMMA Part2Accounting == TypeOK /\ Accounting /\ Part2 => Accounting'
<1> SUFFICES ASSUME TypeOK, Accounting, Part2 PROVE Accounting'
  OBVIOUS
<1>t. p1 \in P1Type /\ p2 \in P2Type /\ lenQ \in Seq(SequenceType) /\ litQ \in Seq(0..ByteMax)
  BY DEF TypeOK
<1>n. p1.pushed \in Nat /\ p2.upto \in Nat /\ p2.writeLit \in Int
  BY <1>t DEF P1Type, P2Type
<1>c. Part2Control
  BY DEF Accounting
<1>p. p1' = p1 /\ Unannounced' = Unannounced /\ p1'.pushed = p1.pushed
  <2>1. p1' = p1
    BY DEF Part2, WriteToken, WriteLitLen, WriteLiteral, WriteOffset0, WriteOffset1,
           WriteMatchLen, OutByte, OutEos, OutSize, OutPad, OutEnd, P2Local
  <2>2. QED
    BY <2>1 DEF Unannounced
<1>1. CASE WriteToken
  <2> DEFINE v == Head(lenQ)
  <2>1. lenQ # << >> /\ lenQ' = Tail(lenQ) /\ litQ' = litQ /\ p2.st = "token"
    BY <1>1 DEF WriteToken, InState
  <2>2. v = lenQ[1] /\ v \in SequenceType /\ Len(lenQ) >= 1
    BY <1>t, <2>1
  <2>3. v.lit \in Nat /\ v.upto \in Nat
    BY <2>2 DEF SequenceType
  <2>4. v.upto - v.lit = p2.upto /\ v.upto <= p1.pushed
    BY <2>2 DEF Accounting, Chain
  <2>5. /\ p2'.upto = v.upto /\ p2'.writeLit = v.lit /\ p2'.fresh = FALSE
        /\ p2'.st = IF v.lit >= NibbleMax THEN "litlen"
                    ELSE IF v.lit > 0 THEN "literal" ELSE "offset0"
        /\ p2'.pc \in {"out", "loop"}
    BY <1>1, <1>t DEF WriteToken, Emit, P2Type
  <2> HIDE DEF v
  <2>6. p2.writeLit = 0
    BY <1>c, <1>n, <2>1 DEF Part2Control
  <2>7. Balance'
    BY <1>n, <1>p, <2>1, <2>3, <2>4, <2>5, <2>6 DEF Accounting, Balance
  <2>8. Chain'
    <3> SUFFICES ASSUME NEW k \in 1..Len(lenQ')
                 PROVE  /\ lenQ'[k].upto - lenQ'[k].lit
                             = IF k = 1 THEN v.upto ELSE lenQ'[k - 1].upto
                        /\ lenQ'[k].upto <= p1.pushed
      BY <1>p, <2>5 DEF Chain
    <3>1. k + 1 \in 1..Len(lenQ) /\ lenQ'[k] = lenQ[k + 1] /\ k + 1 # 1
      BY <1>t, <2>1
    <3>2. /\ lenQ[k + 1].upto - lenQ[k + 1].lit = lenQ[k].upto
          /\ lenQ[k + 1].upto <= p1.pushed
      BY <3>1 DEF Accounting, Chain
    <3>3. k # 1 => lenQ'[k - 1] = lenQ[k]
      BY <1>t, <2>1, <3>1
    <3>4. k = 1 => lenQ[k].upto = v.upto
      BY <2>2
    <3>5. QED
      BY <3>1, <3>2, <3>3, <3>4
  <2>9. LastUpto' = LastUpto
    <3>1. CASE Len(lenQ) = 1
      <4>1. Len(lenQ') = 0 /\ lenQ' \in Seq(SequenceType)
        BY <3>1, <1>t, <2>1, TailType
      <4>a. lenQ' = << >>
        BY <4>1, EmptySeq
      <4>2. QED
        BY <4>a, <3>1, <2>1, <2>2, <2>5 DEF LastUpto
    <3>2. CASE Len(lenQ) # 1
      <4>1. Len(lenQ') = Len(lenQ) - 1 /\ Len(lenQ) - 1 \in 1..Len(lenQ) - 1
        <5>1. Len(Tail(lenQ)) = Len(lenQ) - 1 /\ Len(lenQ) \in Nat
          BY <1>t, <2>1, TailType
        <5>2. QED
          BY <3>2, <2>1, <2>2, <5>1
      <4>a. \A k \in 1..Len(lenQ) - 1 : lenQ'[k] = lenQ[k + 1]
        BY <1>t, <2>1
      <4>b. lenQ'[Len(lenQ')] = lenQ[Len(lenQ)]
        BY <4>1, <4>a, <1>t
      <4>c. lenQ' # << >>
        BY <4>1
      <4>2. QED
        BY <4>b, <4>c, <2>1 DEF LastUpto
    <3>3. QED
      BY <3>1, <3>2
  <2>10. Part2Control'
    BY <2>3, <2>5, ConstantTypes DEF Part2Control
  <2>11. QED
    BY <1>p, <2>4, <2>5, <2>7, <2>8, <2>9, <2>10 DEF Accounting
<1>2. CASE WriteLiteral
  <2> DEFINE last == p2.writeLit = 1
  <2>1. litQ # << >> /\ litQ' = Tail(litQ) /\ lenQ' = lenQ /\ p2.st = "literal"
    BY <1>2 DEF WriteLiteral, InState
  <2>2. Len(litQ') = Len(litQ) - 1
    BY <2>1, <1>t
  <2>3. p2.writeLit > 0
    BY <1>c, <2>1 DEF Part2Control
  <2>4. /\ p2'.upto = p2.upto /\ p2'.writeLit = p2.writeLit - 1
        /\ p2'.st = IF ~last THEN "literal" ELSE IF p2.ending THEN "token" ELSE "offset0"
        /\ p2'.fresh <=> (last /\ p2.ending)
        /\ p2'.pc \in {"out", "loop"}
    BY <1>2, <1>t DEF WriteLiteral, Emit, P2Type
  <2>5. Balance'
    BY <1>n, <1>p, <2>2, <2>4 DEF Accounting, Balance
  <2>6. Chain' /\ LastUpto' = LastUpto
    BY <1>p, <2>1, <2>4 DEF Accounting, Chain, LastUpto
  <2>7. Part2Control'
    BY <1>n, <2>3, <2>4 DEF Part2Control
  <2>8. QED
    BY <1>p, <2>4, <2>5, <2>6, <2>7 DEF Accounting
<1>3. CASE WriteLitLen
  <2>1. /\ p2'.upto = p2.upto /\ p2'.writeLit = p2.writeLit /\ p2'.fresh = p2.fresh
        /\ p2.st = "litlen" /\ p2'.st \in {"litlen", "literal"} /\ p2'.pc \in {"out", "loop"}
        /\ litQ' = litQ /\ lenQ' = lenQ
    BY <1>3, <1>t DEF WriteLitLen, InState, Emit, P2Type, P2Local, streams
  <2>2. Part2Control'
    BY <1>c, <2>1 DEF Part2Control
  <2>3. QED
    BY <1>p, <2>1, <2>2, Frame
<1>4. CASE WriteOffset0
  <2>1. /\ p2'.upto = p2.upto /\ p2'.writeLit = p2.writeLit /\ p2'.fresh = p2.fresh
        /\ p2.st = "offset0" /\ p2'.st = "offset1" /\ p2'.pc \in {"out", "loop"}
        /\ litQ' = litQ /\ lenQ' = lenQ
    BY <1>4, <1>t DEF WriteOffset0, InState, Emit, P2Type, P2Local, streams
  <2>2. Part2Control'
    BY <1>c, <2>1 DEF Part2Control
  <2>3. QED
    BY <1>p, <2>1, <2>2, Frame
<1>5. CASE WriteOffset1
  <2>1. /\ p2'.upto = p2.upto /\ p2'.writeLit = p2.writeLit /\ p2'.fresh = ~p2.extra
        /\ p2.st = "offset1" /\ p2'.st = (IF p2.extra THEN "matchlen" ELSE "token")
        /\ p2'.pc \in {"out", "loop"} /\ litQ' = litQ /\ lenQ' = lenQ
    BY <1>5, <1>t DEF WriteOffset1, InState, Emit, P2Type, P2Local, streams
  <2>2. Part2Control'
    BY <1>c, <2>1 DEF Part2Control
  <2>3. QED
    BY <1>p, <2>1, <2>2, Frame
<1>6. CASE WriteMatchLen
  <2>1. /\ p2'.upto = p2.upto /\ p2'.writeLit = p2.writeLit
        /\ p2.st = "matchlen" /\ p2'.pc \in {"out", "loop"} /\ litQ' = litQ /\ lenQ' = lenQ
        /\ \/ p2'.st = "matchlen" /\ p2'.fresh = p2.fresh
           \/ p2'.st = "token" /\ p2'.fresh = TRUE
    BY <1>6, <1>t DEF WriteMatchLen, InState, Emit, P2Type, P2Local, streams
  <2>2. Part2Control'
    BY <1>c, <2>1 DEF Part2Control
  <2>3. QED
    BY <1>p, <2>1, <2>2, Frame
<1>7. CASE OutByte \/ OutEos \/ OutSize \/ OutPad \/ OutEnd
  <2>1. /\ p2'.upto = p2.upto /\ p2'.writeLit = p2.writeLit /\ p2'.fresh = p2.fresh
        /\ p2'.st = p2.st /\ litQ' = litQ /\ lenQ' = lenQ
    BY <1>7, <1>t DEF OutByte, OutEos, OutSize, OutPad, OutEnd, P2Type
  <2>2. p2'.pc \in {"idle", "pad", "end", "done"} => p2.fresh
    BY <1>7, <1>t, <1>c
       DEF OutByte, OutEos, OutSize, OutPad, OutEnd, P2Type, LoopAgain, Part2Control
  <2>3. Part2Control'
    BY <1>c, <2>1, <2>2 DEF Part2Control
  <2>4. QED
    BY <1>p, <2>1, <2>3, Frame
<1>8. QED
  BY <1>1, <1>2, <1>3, <1>4, <1>5, <1>6, <1>7 DEF Part2

LEMMA OtherAccounting == TypeOK /\ Accounting /\ (Sink \/ Call \/ Return) => Accounting'
<1> SUFFICES ASSUME TypeOK, Accounting, Sink \/ Call \/ Return PROVE Accounting'
  OBVIOUS
<1>c. Part2Control /\ p2.writeLit \in Int
  BY DEF Accounting, TypeOK, P2Type
<1>1. CASE Sink
  <2>1. p1' = p1 /\ p2' = p2 /\ litQ' = litQ /\ lenQ' = lenQ
    BY <1>1 DEF Sink, SinkData, SinkFlag, SinkTotal
  <2>2. Unannounced' = Unannounced /\ Part2Control'
    BY <2>1, <1>c DEF Unannounced, Part2Control
  <2>3. QED
    BY <2>1, <2>2, Frame
<1>2. CASE Call
  <2>1. /\ p1.pc = "idle" /\ p2.pc = "idle" /\ litQ' = litQ /\ lenQ' = lenQ
        /\ p1'.pushed = p1.pushed /\ p1'.litCount = 0
        /\ p2'.upto = p2.upto /\ p2'.writeLit = 0 /\ p2'.st = "token" /\ p2'.fresh
    BY <1>2 DEF Call, P1At, P2At
  <2>2. p2.writeLit = 0
    BY <1>c, <2>1 DEF Part2Control
  <2>3. Unannounced = 0 /\ Unannounced' = 0
    BY <2>1 DEF Unannounced
  <2>4. Part2Control'
    BY <2>1 DEF Part2Control
  <2>5. QED
    BY <2>1, <2>2, <2>3, <2>4, Frame
<1>3. CASE Return
  <2>1. /\ p1.pc = "done" /\ p2.pc = "done" /\ litQ' = litQ /\ lenQ' = lenQ
        /\ p1'.pc = "idle" /\ p1'.pushed = p1.pushed
        /\ p2'.upto = p2.upto /\ p2'.writeLit = 0 /\ p2'.st = "token" /\ p2'.fresh
    BY <1>3 DEF Return, P1At, P2At, streams
  <2>2. p2.writeLit = 0
    BY <1>c, <2>1 DEF Part2Control
  <2>3. Unannounced = 0 /\ Unannounced' = 0
    BY <2>1 DEF Unannounced
  <2>4. Part2Control'
    BY <2>1 DEF Part2Control
  <2>5. QED
    BY <2>1, <2>2, <2>3, <2>4, Frame
<1>4. QED
  BY <1>1, <1>2, <1>3

(* The accounting of literals holds in every reachable state. *)
THEOREM AccountingInvariant == Spec => []Accounting
<1>1. Init => Accounting
  BY InitAccounting
<1>2. TypeOK /\ Accounting /\ [Next]_vars => Accounting'
  <2> SUFFICES ASSUME TypeOK, Accounting, [Next]_vars PROVE Accounting'
    OBVIOUS
  <2>1. CASE UNCHANGED vars \/ Rest
    <3>1. p1' = p1 /\ p2' = p2 /\ litQ' = litQ /\ lenQ' = lenQ
      BY <2>1 DEF Rest, vars, streams
    <3>2. Unannounced' = Unannounced /\ Part2Control'
      BY <3>1 DEF Unannounced, Accounting, Part2Control
    <3>3. QED
      BY <3>1, <3>2, Frame
  <2>2. QED
    BY <2>1, Part1Accounting, Part2Accounting, OtherAccounting DEF Next
<1>3. QED
  BY <1>1, <1>2, TypeCorrect, PTL DEF Spec

(* Part2 never waits for a literal of an announced sequence: they are all  *)
(* in the FIFO by the time the sequence can be read.                       *)
THEOREM LiteralsPresent == Spec => []AnnouncedLiteralsPresent
<1>1. TypeOK /\ Accounting => AnnouncedLiteralsPresent
  <2> SUFFICES ASSUME TypeOK, Accounting PROVE AnnouncedLiteralsPresent
    OBVIOUS
  <2>1. p1.pushed \in Nat /\ p2.upto \in Nat /\ p2.writeLit \in Int
    BY DEF TypeOK, P1Type, P2Type
  <2>2. QED
    BY <2>1 DEF Accounting, Balance, AnnouncedLiteralsPresent
<1>2. QED
  BY <1>1, TypeCorrect, AccountingInvariant, PTL

(* The two processes never wait for each other: a literal FIFO of depth    *)
(* MaxLit is enough for every block and every depth of the other FIFOs.    *)
THEOREM NeverCrossWait == Spec => []NoCrossWait
<1>1. TypeOK /\ Accounting => NoCrossWait
  <2> SUFFICES ASSUME TypeOK, Accounting, P1Blocked, P2Starved PROVE FALSE
    BY DEF NoCrossWait
  <2>1. /\ p1.pushed \in Nat /\ p2.upto \in Nat /\ p2.writeLit \in Int
        /\ p1.litCount \in 0..MaxLit /\ Len(litQ) \in Nat
    BY DEF TypeOK, P1Type, P2Type
  <2>2. Part2Control /\ Balance /\ p2.upto <= p1.pushed
    BY DEF Accounting
  <2>3. CASE InState("literal") /\ litQ = << >>
    <3>1. p2.writeLit > 0 /\ Len(litQ) = 0
      BY <2>2, <2>3 DEF Part2Control, InState
    <3>2. QED
      BY <3>1, <2>1, <2>2 DEF Balance
  <2>4. CASE InState("token") /\ lenQ = << >>
    <3>1. p2.writeLit = 0 /\ Len(lenQ) = 0
      BY <2>1, <2>2, <2>4 DEF Part2Control, InState
    <3>2. p2.upto = p1.pushed - p1.litCount
      BY <2>4 DEF Accounting, LastUpto, Unannounced, P1Blocked
    <3>3. Len(litQ) = p1.litCount
      BY <3>1, <3>2, <2>1, <2>2 DEF Balance
    <3>4. Len(litQ) = MaxLit
      BY <3>1, ConstantTypes DEF P1Blocked, HasRoom, TypeOK
    <3>5. p1.litCount < MaxLit
      BY <2>1, ConstantTypes DEF P1Blocked, LitLimitReached
    <3>6. QED
      BY <3>3, <3>4, <3>5, <2>1, ConstantTypes
  <2>5. QED
    BY <2>3, <2>4 DEF P2Starved
<1>2. QED
  BY <1>1, TypeCorrect, AccountingInvariant, PTL
-----------------------------------------------------------------------------
(***************************************************************************)
(* The format.  Facts about numbers, copies, and the two functions defined *)
(* by recursion, Text and Decoded.                                         *)
(***************************************************************************)
LEMMA Smallest ==
    ASSUME NEW T \in SUBSET Nat, T # {}
    PROVE  \E x \in T : \A y \in T : x <= y
<1> DEFINE R == OpToRel(<, Nat)
<1>1. IsWellFoundedOn(R, Nat)
  BY NatLessThanWellFounded
<1>2. PICK x \in T : \A y \in T : ~(<<y, x>> \in R)
  <2> HIDE DEF R
  <2> QED
    BY <1>1, WFMin
<1>3. \A y \in T : ~(y < x)
  BY <1>2 DEF OpToRel
<1> QED
  BY <1>3

(* A number and what is one turn below it leave the same remainder; the    *)
(* quotient and remainder of a sum of digits are the digits.               *)
LEMMA Digits ==
    ASSUME NEW d \in Nat, d > 0, NEW q \in Nat, NEW r \in Nat, r < d
    PROVE  (q * d + r) \div d = q /\ (q * d + r) % d = r
<1> DEFINE n == q * d + r
           a == n \div d
           b == n % d
<1>1. n \in Nat
  OBVIOUS
<1>2. a \in Int /\ b \in 0..d - 1
  BY <1>1
<1>3. n = d * a + b
  BY <1>1
<1>4. n = q * d + r
  OBVIOUS
<1> HIDE DEF n, a, b
<1>5. d * a = a * d
  BY <1>2
<1>6. (a - q) * d = a * d - q * d
  BY <1>2
<1> DEFINE x == a - q
<1>7. x \in Int /\ x * d = r - b
  BY <1>2, <1>3, <1>4, <1>5, <1>6
<1>8. x * d < d /\ x * d > -d
  BY <1>7, <1>2
<1> HIDE DEF x
<1>9. \A m \in Int : m >= 1 => m * d >= d
  OBVIOUS
<1>10. \A m \in Int : m <= -1 => m * d <= -d
  OBVIOUS
<1>11. x = 0
  BY <1>7, <1>8, <1>9, <1>10
<1>12. x * d = 0
  BY <1>11
<1>13. a = q /\ b = r
  BY <1>2, <1>7, <1>11, <1>12 DEF x
<1> QED
  BY <1>13 DEF n, a, b

LEMMA OneTurn ==
    ASSUME NEW d \in Nat, d > 0, NEW k \in Nat, k >= d
    PROVE  (k - d) % d = k % d
<1> DEFINE q == (k - d) \div d
           r == (k - d) % d
<1>1. k - d \in Nat
  OBVIOUS
<1>2. q \in Int /\ r \in 0..d - 1 /\ k - d = d * q + r
  BY <1>1
<1> HIDE DEF q, r
<1>3. q >= 0
  <2>1. \A m \in Int : m <= -1 => d * m <= -d
    OBVIOUS
  <2> QED
    BY <1>1, <1>2, <2>1
<1>4. (q + 1) * d = d * q + d
  BY <1>2
<1>5. k = (q + 1) * d + r /\ q + 1 \in Nat /\ r \in Nat /\ r < d
  BY <1>2, <1>3, <1>4
<1>6. k % d = r
  <2> DEFINE p == q + 1
  <2>1. p \in Nat /\ k = p * d + r
    BY <1>5
  <2> HIDE DEF p
  <2> QED
    BY <1>5, <2>1, Digits
<1> QED
  BY <1>6 DEF r

-----------------------------------------------------------------------------
(* Copies *)

LEMMA CopyIs ==
    ASSUME NEW text \in Seq(Int), NEW d \in 1..Len(text), NEW n \in Nat
    PROVE  /\ Copy(text, d, n) \in Seq(Int)
           /\ Len(Copy(text, d, n)) = Len(text) + n
           /\ \A j \in 1..Len(text) : Copy(text, d, n)[j] = text[j]
           /\ \A j \in 1..n :
                Copy(text, d, n)[Len(text) + j] = text[Len(text) - d + 1 + ((j - 1) % d)]
<1> DEFINE tail == [k \in 1..n |-> text[Len(text) - d + 1 + ((k - 1) % d)]]
<1>1. Len(text) \in Nat /\ d \in Nat /\ d > 0 /\ d <= Len(text)
  OBVIOUS
<1>2. ASSUME NEW k \in 1..n PROVE text[Len(text) - d + 1 + ((k - 1) % d)] \in Int
  <2> DEFINE r == (k - 1) % d
  <2>1. r \in 0..d - 1
    BY <1>1
  <2> HIDE DEF r
  <2>2. Len(text) - d + 1 + r \in 1..Len(text)
    BY <1>1, <2>1
  <2>3. text[Len(text) - d + 1 + r] \in Int
    BY <2>2
  <2> QED
    BY <2>3 DEF r
<1>3. tail \in Seq(Int) /\ Len(tail) = n
  BY <1>2
<1>4. \A k \in 1..n : tail[k] = text[Len(text) - d + 1 + ((k - 1) % d)]
  OBVIOUS
<1> HIDE DEF tail
<1>5. /\ text \o tail \in Seq(Int) /\ Len(text \o tail) = Len(text) + n
      /\ \A j \in 1..Len(text) : (text \o tail)[j] = text[j]
      /\ \A j \in 1..n : (text \o tail)[Len(text) + j] = tail[j]
  BY <1>3, SMTT(30)
<1>6. Copy(text, d, n) = text \o tail
  BY DEF Copy, tail
<1> QED
  BY <1>4, <1>5, <1>6

(* The same bytes, said of the text itself: the copy repeats what is off+1 *)
(* bytes back, itself included when it overlaps.                           *)
Repeats(t, p, off, n) == \A j \in 1..n : t[p + j] = t[p + j - off - 1]

LEMMA CopyRepeats ==
    ASSUME NEW text \in Seq(Int), NEW off \in Nat, off < Len(text), NEW n \in Nat
    PROVE  Repeats(Copy(text, off + 1, n), Len(text), off, n)
<1> DEFINE d == off + 1
           c == Copy(text, d, n)
           p == Len(text)
<1>1. p \in Nat /\ d \in 1..Len(text) /\ d > 0 /\ d \in Nat
  OBVIOUS
<1>2. /\ \A j \in 1..p : c[j] = text[j]
      /\ \A j \in 1..n : c[p + j] = text[p - d + 1 + ((j - 1) % d)]
  BY <1>1, CopyIs
<1> HIDE DEF c
<1>3. ASSUME NEW j \in 1..n PROVE c[p + j] = c[p + j - d]
  <2>1. CASE j <= d
    <3>1. (j - 1) % d = j - 1
      BY <2>1, <1>1, SMTT(30)
    <3>2. p - d + 1 + (j - 1) = p + j - d /\ p + j - d \in 1..p
      BY <2>1, <1>1
    <3>3. c[p + j - d] = text[p + j - d]
      BY <1>2, <3>2
    <3> QED
      BY <1>2, <3>1, <3>2, <3>3
  <2>2. CASE j > d
    <3>1. j - d \in 1..n /\ j - 1 \in Nat /\ j - 1 >= d
      BY <2>2, <1>1
    <3>2. ((j - 1) - d) % d = (j - 1) % d
      BY <3>1, <1>1, OneTurn
    <3>3. (j - d) - 1 = (j - 1) - d /\ p + (j - d) = p + j - d
      BY <1>1
    <3>4. c[p + (j - d)] = text[p - d + 1 + (((j - d) - 1) % d)]
      BY <1>2, <3>1
    <3>5. c[p + j] = text[p - d + 1 + ((j - 1) % d)]
      BY <1>2
    <3> HIDE DEF d, p
    <3> QED
      BY <3>2, <3>3, <3>4, <3>5
  <2> QED
    BY <1>1, <2>1, <2>2
<1>4. \A j \in 1..n : p + j - d = p + j - off - 1
  BY <1>1
<1>5. Repeats(c, p, off, n)
  BY <1>3, <1>4 DEF Repeats
<1> QED
  BY <1>5 DEF c

LEMMA RepeatsSource ==
    ASSUME NEW t, NEW p \in Nat, NEW off \in Nat, off < p, NEW n \in Nat, Repeats(t, p, off, n)
    PROVE  \A j \in 1..n : t[p + j] = t[p - (off + 1) + 1 + ((j - 1) % (off + 1))]
<1> DEFINE d == off + 1
           Right(j) == t[p + j] = t[p - d + 1 + ((j - 1) % d)]
           bad == {j \in 1..n : ~Right(j)}
<1>1. d \in Nat /\ d > 0
  OBVIOUS
<1>2. ASSUME bad # {} PROVE FALSE
  <2>1. PICK j \in bad : \A m \in bad : j <= m
    <3>1. bad \in SUBSET Nat
      OBVIOUS
    <3> HIDE DEF bad
    <3> QED
      BY <1>2, <3>1, Smallest
  <2>2. j \in 1..n /\ ~Right(j)
    OBVIOUS
  <2>3. t[p + j] = t[p + j - off - 1] /\ p + j - off - 1 = p + j - d
    BY <2>2 DEF Repeats
  <2>4. CASE j <= d
    <3>1. (j - 1) % d = j - 1 /\ p - d + 1 + (j - 1) = p + j - d
      BY <1>1, <2>2, <2>4
    <3> QED
      BY <2>2, <2>3, <3>1
  <2>5. CASE j > d
    <3>1. j - d \in 1..n /\ j - 1 \in Nat /\ j - 1 >= d /\ ~(j <= j - d)
      BY <1>1, <2>2, <2>5
    <3>2. ((j - 1) - d) % d = (j - 1) % d
      BY <1>1, <3>1, OneTurn
    <3>3. Right(j - d)
      BY <2>1, <3>1
    <3>4. (j - d) - 1 = (j - 1) - d /\ p + (j - d) = p + j - d
      BY <2>2, <1>1
    <3>5. t[p + (j - d)] = t[p - d + 1 + (((j - d) - 1) % d)]
      BY <3>3
    <3>6. t[p + j] # t[p - d + 1 + ((j - 1) % d)]
      BY <2>2
    <3> HIDE DEF bad, d, Right
    <3> QED
      BY <2>3, <3>2, <3>4, <3>5, <3>6
  <2> QED
    BY <1>1, <2>2, <2>4, <2>5
<1> HIDE DEF bad
<1>3. ASSUME NEW j \in 1..n PROVE Right(j)
  BY <1>2 DEF bad
<1> QED
  BY <1>3

(* s holds the first bytes of t. *)
Begins(s, t) == s \in Seq(Int) /\ Len(s) <= Len(t) /\ \A j \in 1..Len(s) : s[j] = t[j]

LEMMA BeginsCopy ==
    ASSUME NEW t \in Seq(Int), NEW s, Begins(s, t), NEW off \in Nat, off < Len(s), NEW n \in Nat,
           Len(s) + n <= Len(t), Repeats(t, Len(s), off, n)
    PROVE  Begins(Copy(s, off + 1, n), t) /\ Len(Copy(s, off + 1, n)) = Len(s) + n
<1> DEFINE d == off + 1
           c == Copy(s, d, n)
           p == Len(s)
<1>1. s \in Seq(Int) /\ \A j \in 1..p : s[j] = t[j]
  BY DEF Begins
<1>2. p \in Nat /\ d \in 1..p /\ d > 0 /\ d \in Nat
  BY <1>1
<1>3. /\ c \in Seq(Int) /\ Len(c) = p + n /\ \A j \in 1..p : c[j] = s[j]
      /\ \A j \in 1..n : c[p + j] = s[p - d + 1 + ((j - 1) % d)]
  BY <1>1, <1>2, CopyIs, ZenonT(30)
<1> HIDE DEF c
<1>4. \A j \in 1..n : t[p + j] = t[p - d + 1 + ((j - 1) % d)]
  BY <1>2, RepeatsSource, SMTT(30)
<1>5. ASSUME NEW j \in 1..n PROVE c[p + j] = t[p + j]
  <2> DEFINE r == (j - 1) % d
  <2>1. r \in 0..d - 1
    BY <1>2
  <2>2. c[p + j] = s[p - d + 1 + r] /\ t[p + j] = t[p - d + 1 + r]
    BY <1>3, <1>4
  <2> HIDE DEF r
  <2>3. p - d + 1 + r \in 1..p
    BY <1>2, <2>1
  <2> QED
    BY <1>1, <2>2, <2>3
<1>6. ASSUME NEW j \in 1..Len(c) PROVE c[j] = t[j]
  <2>1. CASE j <= p
    <3>1. j \in 1..p
      BY <1>2, <1>3, <2>1
    <3> QED
      BY <1>1, <1>3, <3>1
  <2>2. CASE j > p
    <3>1. j - p \in 1..n /\ p + (j - p) = j
      BY <1>2, <1>3, <2>2
    <3> QED
      BY <1>5, <3>1
  <2> QED
    BY <1>2, <2>1, <2>2
<1>7. Begins(c, t) /\ Len(c) = Len(s) + n
  BY <1>3, <1>6 DEF Begins
<1> QED
  BY <1>7 DEF c

LEMMA BeginsMore ==
    ASSUME NEW t \in Seq(Int), NEW s, Begins(s, t), Len(s) < Len(t), NEW b, b = t[Len(s) + 1]
    PROVE  Begins(Append(s, b), t) /\ Len(Append(s, b)) = Len(s) + 1
<1>1. s \in Seq(Int) /\ Len(s) \in Nat /\ Len(t) \in Nat
  BY DEF Begins
<1>2. b \in Int
  BY <1>1
<1>3. /\ Append(s, b) \in Seq(Int) /\ Len(Append(s, b)) = Len(s) + 1
      /\ Append(s, b)[Len(s) + 1] = b /\ \A j \in 1..Len(s) : Append(s, b)[j] = s[j]
  BY <1>1, <1>2
<1>4. ASSUME NEW j \in 1..Len(s) + 1 PROVE Append(s, b)[j] = t[j]
  BY <1>1, <1>3 DEF Begins
<1> QED
  BY <1>1, <1>3, <1>4 DEF Begins

LEMMA BeginsAll ==
    ASSUME NEW t \in Seq(Int), NEW s, Begins(s, t), Len(s) = Len(t)
    PROVE  s = t
<1>1. s \in Seq(Int) /\ \A j \in 1..Len(s) : s[j] = t[j]
  BY DEF Begins
<1> QED
  BY <1>1, SeqEqual

-----------------------------------------------------------------------------
(* The recursion Decoded is defined with: d[k] is the decoder after the    *)
(* first k of m bytes.                                                     *)
Decoding(s, m, d) ==
    d = [k \in 0..m |-> IF k = 0 THEN DecodeStart ELSE DecodeByte(d[k - 1], s[k])]

LEMMA DecodingStep ==
    ASSUME NEW s, NEW m \in Nat, NEW d, Decoding(s, m, d)
    PROVE  d[0] = DecodeStart /\ \A k \in 1..m : d[k] = DecodeByte(d[k - 1], s[k])
<1>1. d[0] = DecodeStart
  BY DEF Decoding
<1>2. ASSUME NEW k \in 1..m PROVE d[k] = DecodeByte(d[k - 1], s[k])
  <2>1. k \in 0..m /\ k # 0
    OBVIOUS
  <2>2. d[k] = IF k = 0 THEN DecodeStart ELSE DecodeByte(d[k - 1], s[k])
    BY <2>1, Zenon DEF Decoding
  <2> QED
    BY <2>1, <2>2, Zenon
<1> QED
  BY <1>1, <1>2

LEMMA DecodingExists == ASSUME NEW s, NEW n \in Nat PROVE \E d : Decoding(s, n, d)
<1> DEFINE bad == {m \in Nat : m <= n /\ ~\E d : Decoding(s, m, d)}
<1>1. ASSUME bad # {} PROVE FALSE
  <2>1. PICK m \in bad : \A y \in bad : m <= y
    <3>1. bad \in SUBSET Nat
      OBVIOUS
    <3> HIDE DEF bad
    <3> QED
      BY <1>1, <3>1, Smallest
  <2>2. m \in Nat /\ m <= n /\ ~\E d : Decoding(s, m, d)
    OBVIOUS
  <2>3. m # 0
    <3> DEFINE d == [k \in 0..0 |-> DecodeStart]
    <3>1. Decoding(s, 0, d)
      <4>1. \A k \in 0..0 : k = 0
        OBVIOUS
      <4> QED
        BY <4>1 DEF Decoding
    <3> QED
      BY <2>2, <3>1
  <2>4. m - 1 \in Nat /\ m - 1 \notin bad /\ m - 1 <= n
    BY <2>1, <2>2, <2>3
  <2>5. PICK d : Decoding(s, m - 1, d)
    BY <2>4
  <2>6. d[0] = DecodeStart /\ \A k \in 1..m - 1 : d[k] = DecodeByte(d[k - 1], s[k])
    BY <2>4, <2>5, DecodingStep
  <2> DEFINE e == [k \in 0..m |-> IF k = m THEN DecodeByte(d[m - 1], s[m]) ELSE d[k]]
  <2> HIDE DEF bad
  <2>7. ASSUME NEW k \in 0..m
        PROVE  e[k] = IF k = 0 THEN DecodeStart ELSE DecodeByte(e[k - 1], s[k])
    <3>1. CASE k = 0
      <4>1. k # m /\ e[k] = d[0]
        BY <2>2, <2>3, <3>1
      <4> QED
        BY <3>1, <4>1, <2>6
    <3>2. CASE k # 0
      <4>1. k - 1 \in 0..m /\ k - 1 # m
        BY <2>2, <3>2
      <4>2. e[k - 1] = d[k - 1]
        BY <4>1
      <4>3. CASE k = m
        <5>1. e[k] = DecodeByte(d[m - 1], s[m])
          BY <4>3
        <5> HIDE DEF e
        <5> QED
          BY <3>2, <4>2, <4>3, <5>1
      <4>4. CASE k # m
        <5>1. e[k] = d[k]
          BY <4>4
        <5>2. k \in 1..m - 1
          BY <2>2, <3>2, <4>4
        <5> HIDE DEF e
        <5> QED
          BY <3>2, <4>2, <5>1, <5>2, <2>6
      <4> QED
        BY <4>3, <4>4
    <3> QED
      BY <3>1, <3>2
  <2>8. e = [k \in 0..m |-> e[k]]
    OBVIOUS
  <2> HIDE DEF e
  <2>9. Decoding(s, m, e)
    <3>1. [k \in 0..m |-> e[k]]
            = [k \in 0..m |-> IF k = 0 THEN DecodeStart ELSE DecodeByte(e[k - 1], s[k])]
      BY <2>7, Zenon
    <3> QED
      BY <2>8, <3>1, Zenon DEF Decoding
  <2> QED
    BY <2>2, <2>9
<1>2. n \notin bad
  <2> HIDE DEF bad
  <2> QED
    BY <1>1
<1> QED
  BY <1>2

(* Decoders that read the same bytes agree. *)
SameUpto(s, u, n) == \A k \in 1..n : s[k] = u[k]

LEMMA DecodingUnique ==
    ASSUME NEW s, NEW u, NEW m \in Nat, NEW l \in Nat, NEW n \in Nat, n <= m, n <= l,
           SameUpto(s, u, n), NEW d, Decoding(s, m, d), NEW e, Decoding(u, l, e)
    PROVE  d[n] = e[n]
<1> DEFINE differ == {k \in Nat : k <= n /\ d[k] # e[k]}
<1>1. d[0] = DecodeStart /\ \A k \in 1..m : d[k] = DecodeByte(d[k - 1], s[k])
  BY DecodingStep
<1>2. e[0] = DecodeStart /\ \A k \in 1..l : e[k] = DecodeByte(e[k - 1], u[k])
  BY DecodingStep
<1>3. ASSUME differ # {} PROVE FALSE
  <2>1. PICK x \in differ : \A y \in differ : x <= y
    <3>1. differ \in SUBSET Nat
      OBVIOUS
    <3> HIDE DEF differ
    <3> QED
      BY <1>3, <3>1, Smallest
  <2>2. x \in Nat /\ x <= n /\ d[x] # e[x]
    OBVIOUS
  <2>3. x # 0
    BY <1>1, <1>2, <2>2
  <2>4. x - 1 \in Nat /\ x - 1 <= n /\ x - 1 \notin differ
    BY <2>1, <2>2, <2>3
  <2>5. d[x - 1] = e[x - 1] /\ x \in 1..m /\ x \in 1..l /\ s[x] = u[x]
    BY <2>2, <2>3, <2>4 DEF SameUpto
  <2> HIDE DEF differ
  <2> QED
    BY <1>1, <1>2, <2>2, <2>5
<1>4. n \notin differ
  <2> HIDE DEF differ
  <2> QED
    BY <1>3
<1> QED
  BY <1>4

LEMMA DecodedIs ==
    ASSUME NEW s \in Seq(Int), NEW d, Decoding(s, Len(s), d)
    PROVE  Decoded(s) = d[Len(s)]
<1> DEFINE upto == CHOOSE e : Decoding(s, Len(s), e)
<1>1. Decoding(s, Len(s), upto)
  OBVIOUS
<1>2. Decoded(s) = upto[Len(s)]
  BY DEF Decoded, Decoding
<1> HIDE DEF upto
<1>3. Len(s) \in Nat /\ SameUpto(s, s, Len(s))
  BY DEF SameUpto
<1> QED
  BY <1>1, <1>2, <1>3, DecodingUnique

(* Decoding is byte by byte. *)
LEMMA DecodedNone == Decoded(<< >>) = DecodeStart
<1>1. << >> \in Seq(Int) /\ Len(<< >>) = 0
  OBVIOUS
<1>2. PICK d : Decoding(<< >>, 0, d)
  BY DecodingExists
<1>3. d[0] = DecodeStart
  BY <1>2, DecodingStep
<1> QED
  BY <1>1, <1>2, <1>3, DecodedIs

LEMMA DecodedMore ==
    ASSUME NEW s \in Seq(Int), NEW b \in Int
    PROVE  Decoded(Append(s, b)) = DecodeByte(Decoded(s), b)
<1> DEFINE u == Append(s, b)
           n == Len(s)
           m == n + 1
<1>1. u \in Seq(Int) /\ n \in Nat /\ Len(u) = m /\ u[m] = b /\ \A k \in 1..n : s[k] = u[k]
  OBVIOUS
<1>2. m \in Nat /\ n <= m /\ m \in 1..m /\ m - 1 = n /\ n <= n
  BY <1>1
<1> HIDE DEF u, m
<1>3. PICK d : Decoding(s, n, d)
  BY <1>1, DecodingExists
<1>4. PICK e : Decoding(u, m, e)
  BY <1>2, DecodingExists
<1>5. d[n] = e[n]
  <2> HIDE DEF n
  <2>1. SameUpto(s, u, n)
    BY <1>1 DEF SameUpto
  <2> QED
    BY <1>1, <1>2, <1>3, <1>4, <2>1, DecodingUnique
<1>6. e[m] = DecodeByte(e[m - 1], u[m])
  BY <1>2, <1>4, DecodingStep
<1>7. Decoded(s) = d[n]
  BY <1>3, DecodedIs
<1>8. Decoded(u) = e[m]
  BY <1>1, <1>4, DecodedIs
<1>9. Decoded(u) = DecodeByte(Decoded(s), b)
  BY <1>1, <1>2, <1>5, <1>6, <1>7, <1>8
<1> QED
  BY <1>9 DEF u

(* The recursion Text is defined with. *)
Expanding(recs, m, u) ==
    u = [k \in 0..m |-> IF k = 0 THEN << >> ELSE Extend(u[k - 1], recs[k])]

LEMMA ExpandingStep ==
    ASSUME NEW recs, NEW m \in Nat, NEW u, Expanding(recs, m, u)
    PROVE  u[0] = << >> /\ \A k \in 1..m : u[k] = Extend(u[k - 1], recs[k])
<1>1. u[0] = << >>
  BY DEF Expanding
<1>2. ASSUME NEW k \in 1..m PROVE u[k] = Extend(u[k - 1], recs[k])
  <2>1. k \in 0..m /\ k # 0
    OBVIOUS
  <2>2. u[k] = IF k = 0 THEN << >> ELSE Extend(u[k - 1], recs[k])
    BY <2>1, Zenon DEF Expanding
  <2> QED
    BY <2>1, <2>2, Zenon
<1> QED
  BY <1>1, <1>2

LEMMA ExpandingExists == ASSUME NEW recs, NEW n \in Nat PROVE \E u : Expanding(recs, n, u)
<1> DEFINE bad == {m \in Nat : m <= n /\ ~\E u : Expanding(recs, m, u)}
<1>1. ASSUME bad # {} PROVE FALSE
  <2>1. PICK m \in bad : \A y \in bad : m <= y
    <3>1. bad \in SUBSET Nat
      OBVIOUS
    <3> HIDE DEF bad
    <3> QED
      BY <1>1, <3>1, Smallest
  <2>2. m \in Nat /\ m <= n /\ ~\E u : Expanding(recs, m, u)
    OBVIOUS
  <2>3. m # 0
    <3> DEFINE u == [k \in 0..0 |-> << >>]
    <3>1. Expanding(recs, 0, u)
      <4>1. \A k \in 0..0 : k = 0
        OBVIOUS
      <4> QED
        BY <4>1 DEF Expanding
    <3> QED
      BY <2>2, <3>1
  <2>4. m - 1 \in Nat /\ m - 1 \notin bad /\ m - 1 <= n
    BY <2>1, <2>2, <2>3
  <2>5. PICK u : Expanding(recs, m - 1, u)
    BY <2>4
  <2>6. u[0] = << >> /\ \A k \in 1..m - 1 : u[k] = Extend(u[k - 1], recs[k])
    BY <2>4, <2>5, ExpandingStep
  <2> DEFINE w == [k \in 0..m |-> IF k = m THEN Extend(u[m - 1], recs[m]) ELSE u[k]]
  <2> HIDE DEF bad
  <2>7. ASSUME NEW k \in 0..m
        PROVE  w[k] = IF k = 0 THEN << >> ELSE Extend(w[k - 1], recs[k])
    <3>1. CASE k = 0
      <4>1. k # m /\ w[k] = u[0]
        BY <2>2, <2>3, <3>1
      <4> QED
        BY <3>1, <4>1, <2>6
    <3>2. CASE k # 0
      <4>1. k - 1 \in 0..m /\ k - 1 # m
        BY <2>2, <3>2
      <4>2. w[k - 1] = u[k - 1]
        BY <4>1
      <4>3. CASE k = m
        <5>1. w[k] = Extend(u[m - 1], recs[m])
          BY <4>3
        <5> HIDE DEF w
        <5> QED
          BY <3>2, <4>2, <4>3, <5>1
      <4>4. CASE k # m
        <5>1. w[k] = u[k]
          BY <4>4
        <5>2. k \in 1..m - 1
          BY <2>2, <3>2, <4>4
        <5> HIDE DEF w
        <5> QED
          BY <3>2, <4>2, <5>1, <5>2, <2>6
      <4> QED
        BY <4>3, <4>4
    <3> QED
      BY <3>1, <3>2
  <2>8. w = [k \in 0..m |-> w[k]]
    OBVIOUS
  <2> HIDE DEF w
  <2>9. Expanding(recs, m, w)
    <3>1. [k \in 0..m |-> w[k]]
            = [k \in 0..m |-> IF k = 0 THEN << >> ELSE Extend(w[k - 1], recs[k])]
      BY <2>7, Zenon
    <3> QED
      BY <2>8, <3>1, Zenon DEF Expanding
  <2> QED
    BY <2>2, <2>9
<1>2. n \notin bad
  <2> HIDE DEF bad
  <2> QED
    BY <1>1
<1> QED
  BY <1>2

LEMMA TextUptoIs ==
    ASSUME NEW recs, Len(recs) \in Nat
    PROVE  /\ TextUpto(recs)[0] = << >>
           /\ \A k \in 1..Len(recs) :
                TextUpto(recs)[k] = Extend(TextUpto(recs)[k - 1], recs[k])
<1> DEFINE n == Len(recs)
           upto == CHOOSE u : Expanding(recs, n, u)
<1>1. Expanding(recs, n, upto)
  BY ExpandingExists
<1>2. TextUpto(recs) = upto
  BY DEF TextUpto, Expanding
<1> HIDE DEF upto, n
<1>3. upto[0] = << >> /\ \A k \in 1..n : upto[k] = Extend(upto[k - 1], recs[k])
  <2> n \in Nat
    BY DEF n
  <2> QED
    BY <1>1, ExpandingStep
<1> QED
  BY <1>2, <1>3 DEF n

-----------------------------------------------------------------------------
(***************************************************************************)
(* Places in the block.  A sequence of steps is a path from p to e if each *)
(* element leads from where its predecessor leads to: the records lead     *)
(* from byte to byte of the text t, and so do the sequences made of them.  *)
(***************************************************************************)
Path(S, q, p, e) ==
    \E at \in [1..Len(q) + 1 -> Nat] :
        /\ at[1] = p /\ at[Len(q) + 1] = e
        /\ \A k \in 1..Len(q) : <<at[k], q[k], at[k + 1]>> \in S

LEMMA PathNone ==
    ASSUME NEW S, NEW p \in Nat, NEW e
    PROVE  Path(S, << >>, p, e) <=> p = e
<1>1. Len(<< >>) = 0
  OBVIOUS
<1>2. ASSUME Path(S, << >>, p, e) PROVE p = e
  BY <1>1, <1>2 DEF Path
<1>3. Path(S, << >>, p, p)
  <2> DEFINE at == [k \in 1..0 + 1 |-> p]
  <2>1. at \in [1..0 + 1 -> Nat] /\ at[1] = p /\ at[0 + 1] = p /\ \A k \in 1..0 : FALSE
    OBVIOUS
  <2> HIDE DEF at
  <2> QED
    BY <1>1, <2>1 DEF Path
<1> QED
  BY <1>2, <1>3

LEMMA PathMore ==
    ASSUME NEW V, NEW S, NEW q \in Seq(V), NEW p, NEW e, Path(S, q, p, e),
           NEW v \in V, NEW f \in Nat, <<e, v, f>> \in S
    PROVE  Path(S, Append(q, v), p, f)
<1> DEFINE n == Len(q)
           r == Append(q, v)
<1>1. n \in Nat /\ Len(r) = n + 1 /\ r[n + 1] = v /\ \A k \in 1..n : r[k] = q[k]
  OBVIOUS
<1>2. PICK at \in [1..n + 1 -> Nat] :
        /\ at[1] = p /\ at[n + 1] = e /\ \A k \in 1..n : <<at[k], q[k], at[k + 1]>> \in S
  BY DEF Path
<1> HIDE DEF n, r
<1> DEFINE bt == [k \in 1..(n + 1) + 1 |-> IF k = (n + 1) + 1 THEN f ELSE at[k]]
<1>3. /\ bt \in [1..(n + 1) + 1 -> Nat] /\ bt[1] = p /\ bt[(n + 1) + 1] = f
      /\ \A k \in 1..n + 1 : bt[k] = at[k]
  BY <1>1, <1>2
<1> HIDE DEF bt
<1>4. ASSUME NEW k \in 1..n + 1 PROVE <<bt[k], r[k], bt[k + 1]>> \in S
  <2>1. CASE k = n + 1
    BY <1>1, <1>2, <1>3, <2>1
  <2>2. CASE k # n + 1
    <3>1. k \in 1..n /\ k + 1 \in 1..n + 1
      BY <1>1, <2>2
    <3>2. bt[k] = at[k] /\ bt[k + 1] = at[k + 1] /\ r[k] = q[k]
      BY <1>1, <1>3, <3>1
    <3> QED
      BY <1>2, <3>1, <3>2
  <2> QED
    BY <2>1, <2>2
<1>5. Path(S, r, p, f)
  BY <1>1, <1>3, <1>4 DEF Path
<1> QED
  BY <1>5 DEF r

LEMMA PathLess ==
    ASSUME NEW V, NEW S, NEW q \in Seq(V), q # << >>, NEW p, NEW e, Path(S, q, p, e)
    PROVE  \E f \in Nat : p \in Nat /\ <<p, Head(q), f>> \in S /\ Path(S, Tail(q), f, e)
<1> DEFINE n == Len(q)
           m == n - 1
           r == Tail(q)
<1>1. /\ n \in Nat /\ n >= 1 /\ Head(q) = q[1] /\ Len(r) = m
      /\ \A k \in 1..m : r[k] = q[k + 1]
  OBVIOUS
<1>2. m \in Nat /\ m + 1 = n
  BY <1>1
<1>3. PICK at \in [1..n + 1 -> Nat] :
        /\ at[1] = p /\ at[n + 1] = e /\ \A k \in 1..n : <<at[k], q[k], at[k + 1]>> \in S
  BY DEF Path
<1> HIDE DEF n, m, r
<1> DEFINE bt == [k \in 1..m + 1 |-> at[k + 1]]
<1>4. /\ bt \in [1..m + 1 -> Nat] /\ bt[1] = at[2] /\ bt[m + 1] = e
      /\ \A k \in 1..m : bt[k] = at[k + 1] /\ bt[k + 1] = at[(k + 1) + 1]
  <2>1. \A k \in 1..m + 1 : k + 1 \in 1..n + 1
    BY <1>1, <1>2
  <2>2. \A k \in 1..m : k \in 1..m + 1 /\ k + 1 \in 1..m + 1
    BY <1>2
  <2>3. \A k \in 1..m + 1 : bt[k] = at[k + 1]
    OBVIOUS
  <2>4. bt \in [1..m + 1 -> Nat]
    BY <2>1
  <2>5. 1 \in 1..m + 1 /\ m + 1 \in 1..m + 1 /\ (m + 1) + 1 = n + 1 /\ 1 + 1 = 2
    BY <1>2
  <2> HIDE DEF bt
  <2> QED
    BY <1>3, <2>2, <2>3, <2>4, <2>5
<1>5. 1 \in 1..n /\ 1 + 1 = 2 /\ 2 \in 1..n + 1
  BY <1>1
<1>6. at[2] \in Nat /\ p \in Nat /\ <<p, q[1], at[2]>> \in S
  BY <1>3, <1>5, <1>1
<1> HIDE DEF bt
<1>7. ASSUME NEW k \in 1..m PROVE <<bt[k], r[k], bt[k + 1]>> \in S
  <2>1. k + 1 \in 1..n
    BY <1>2
  <2>2. <<at[k + 1], q[k + 1], at[(k + 1) + 1]>> \in S
    BY <1>3, <2>1
  <2> QED
    BY <1>1, <1>4, <2>2
<1>8. Path(S, r, at[2], e)
  BY <1>1, <1>4, <1>7 DEF Path
<1> QED
  BY <1>1, <1>6, <1>8 DEF r

(* More steps may be allowed later. *)
LEMMA PathKeep ==
    ASSUME NEW S, NEW U, NEW q, NEW p, NEW e, Path(S, q, p, e),
           \A k \in 1..Len(q), a \in Nat, b \in Nat : <<a, q[k], b>> \in S => <<a, q[k], b>> \in U
    PROVE  Path(U, q, p, e)
<1> DEFINE n == Len(q)
<1>1. PICK at \in [1..n + 1 -> Nat] :
        /\ at[1] = p /\ at[n + 1] = e /\ \A k \in 1..n : <<at[k], q[k], at[k + 1]>> \in S
  BY DEF Path
<1>2. ASSUME NEW k \in 1..n PROVE <<at[k], q[k], at[k + 1]>> \in U
  <2>1. k \in 1..n + 1 /\ k + 1 \in 1..n + 1
    <3>1. k \in Int /\ k >= 1 /\ k <= n
      OBVIOUS
    <3> QED
      BY <3>1
  <2>2. at[k] \in Nat /\ at[k + 1] \in Nat
    BY <2>1
  <2> QED
    BY <1>1, <2>2
<1> QED
  BY <1>1, <1>2 DEF Path

LEMMA ByteSeq == ASSUME NEW s \in Seq(Byte) PROVE s \in Seq(Int) /\ Len(s) \in Nat
<1>1. ASSUME NEW k \in 1..Len(s) PROVE s[k] \in Int
  <2>1. s[k] \in Byte
    OBVIOUS
  <2> QED
    BY <2>1, ConstantTypes DEF Byte
<1> QED
  BY <1>1

(* A match of n bytes at position p: it can be encoded, it is true of the  *)
(* text, and it is not the last thing in it.                               *)
MatchAt(t, p, n, off) ==
    /\ n >= MinMatch /\ off < p /\ off + 1 < ByteBase * ByteBase
    /\ ~IsMark(n - MinMatch, off)
    /\ p + n < Len(t) /\ Repeats(t, p, off, n)

RecAt(t, p, r) ==
    /\ p + RecLen(r) <= Len(t)
    /\ IF r.len = 0 THEN r.ch = t[p + 1] ELSE MatchAt(t, p, r.len, r.off)

RecSteps(t) ==
    {s \in Nat \X Record \X Nat : RecAt(t, s[1], s[2]) /\ s[3] = s[1] + RecLen(s[2])}

LEMMA RecordFacts ==
    ASSUME NEW r \in Record
    PROVE  /\ r.ch \in Byte /\ r.len \in Nat /\ r.off \in Nat
           /\ RecLen(r) \in Nat /\ RecLen(r) > 0
           /\ r.len = 0 => RecLen(r) = 1
           /\ r.len > 0 => RecLen(r) = r.len
<1>1. r.ch \in Byte /\ r.len \in Nat /\ r.off \in Nat
  BY DEF Record, Byte
<1> QED
  BY <1>1 DEF RecLen

LEMMA RecStep ==
    ASSUME NEW t, NEW p \in Nat, NEW r \in Record, NEW e
    PROVE  <<p, r, e>> \in RecSteps(t) <=> RecAt(t, p, r) /\ e = p + RecLen(r)
<1>1. p + RecLen(r) \in Nat
  BY RecordFacts
<1> QED
  BY <1>1, Zenon DEF RecSteps

(* From the end of the text no step is possible. *)
LEMMA NoMoreRecords ==
    ASSUME NEW t \in Seq(Byte), NEW S, S \subseteq RecSteps(t),
           NEW q \in Seq(Record), NEW e, Path(S, q, Len(t), e)
    PROVE  q = << >> /\ e = Len(t)
<1>1. Len(t) \in Nat
  OBVIOUS
<1>2. ASSUME q # << >> PROVE FALSE
  <2>1. PICK f \in Nat : <<Len(t), Head(q), f>> \in S
    BY <1>2, PathLess
  <2>2. Head(q) \in Record
    BY <1>2
  <2>3. Len(t) + RecLen(Head(q)) <= Len(t)
    BY <1>1, <2>1, <2>2, RecStep DEF RecAt
  <2> QED
    BY <1>1, <2>2, <2>3, RecordFacts
<1> QED
  BY <1>1, <1>2, PathNone

(* One record adds its bytes to the text before it. *)
LEMMA ExtendIs ==
    ASSUME NEW u \in Seq(Byte), NEW r \in Record, r.len > 0 => r.off < Len(u)
    PROVE  /\ Extend(u, r) \in Seq(Byte)
           /\ Len(Extend(u, r)) = Len(u) + RecLen(r)
           /\ \A j \in 1..Len(u) : Extend(u, r)[j] = u[j]
           /\ IF r.len = 0 THEN Extend(u, r)[Len(u) + 1] = r.ch
              ELSE Repeats(Extend(u, r), Len(u), r.off, r.len)
<1>1. r.ch \in Byte /\ r.len \in Nat /\ r.off \in Nat
  BY RecordFacts
<1>2. CASE r.len = 0
  <2>1. Extend(u, r) = Append(u, r.ch) /\ RecLen(r) = 1
    BY <1>2, RecordFacts DEF Extend
  <2>2. /\ Append(u, r.ch) \in Seq(Byte) /\ Len(Append(u, r.ch)) = Len(u) + 1
        /\ Append(u, r.ch)[Len(u) + 1] = r.ch
        /\ \A j \in 1..Len(u) : Append(u, r.ch)[j] = u[j]
    BY <1>1
  <2> QED
    BY <1>2, <2>1, <2>2
<1>3. CASE r.len # 0
  <2> DEFINE d == r.off + 1
             c == Copy(u, d, r.len)
  <2>1. r.len > 0 /\ RecLen(r) = r.len /\ r.off < Len(u)
    BY <1>1, <1>3, RecordFacts
  <2>2. Extend(u, r) = c
    BY <1>3 DEF Extend
  <2>3. u \in Seq(Int) /\ d \in 1..Len(u) /\ d \in Nat /\ d > 0 /\ Len(u) \in Nat
    <3>1. u \in Seq(Int) /\ Len(u) \in Nat
      BY ByteSeq
    <3> QED
      BY <1>1, <2>1, <3>1
  <2> HIDE DEF d
  <2>4. /\ c \in Seq(Int) /\ Len(c) = Len(u) + r.len /\ \A j \in 1..Len(u) : c[j] = u[j]
        /\ \A j \in 1..r.len : c[Len(u) + j] = u[Len(u) - d + 1 + ((j - 1) % d)]
    BY <1>1, <2>3, CopyIs
  <2>5. Repeats(c, Len(u), r.off, r.len)
    BY <1>1, <2>1, <2>3, CopyRepeats DEF d
  <2> HIDE DEF c
  <2>6. ASSUME NEW j \in 1..Len(c) PROVE c[j] \in Byte
    <3>1. CASE j <= Len(u)
      <4>1. j \in 1..Len(u)
        BY <2>3, <3>1
      <4>2. u[j] \in Byte
        BY <4>1
      <4> QED
        BY <2>4, <4>1, <4>2
    <3>2. CASE j > Len(u)
      <4> DEFINE i == j - Len(u)
                 m == (i - 1) % d
      <4>1. i \in 1..r.len /\ Len(u) + i = j /\ i - 1 \in Nat
        BY <1>1, <2>3, <2>4, <3>2, SMTT(30)
      <4> HIDE DEF i
      <4>2. m \in 0..d - 1
        BY <2>3, <4>1
      <4>3. c[j] = u[Len(u) - d + 1 + m]
        BY <2>4, <4>1
      <4> HIDE DEF m
      <4>4. Len(u) - d + 1 + m \in 1..Len(u)
        BY <2>3, <4>2
      <4>5. u[Len(u) - d + 1 + m] \in Byte
        BY <4>4
      <4> QED
        BY <4>3, <4>5
    <3> QED
      BY <2>3, <3>1, <3>2
  <2>7. c \in Seq(Byte)
    BY <2>4, <2>6
  <2> QED
    BY <1>3, <2>1, <2>2, <2>4, <2>5, <2>7
<1> QED
  BY <1>2, <1>3

(* Where the k-th record ends, and the steps that the records are.         *)
PlaceOf(recs, k) == Len(TextUpto(recs)[k])
Places(recs) == {<<PlaceOf(recs, k - 1), recs[k], PlaceOf(recs, k)>> : k \in 1..Len(recs)}
PlaceFacts(recs) ==
    /\ recs \in Seq(Record) /\ Len(recs) \in Nat
    /\ PlaceOf(recs, 0) = 0 /\ PlaceOf(recs, Len(recs)) = Len(Text(recs))
    /\ \A k \in 0..Len(recs) : PlaceOf(recs, k) \in Nat
    /\ \A k \in 1..Len(recs) : /\ PlaceOf(recs, k) = PlaceOf(recs, k - 1) + RecLen(recs[k])
                               /\ RecLen(recs[k]) \in Nat /\ RecLen(recs[k]) > 0

(* The records of a block lead from its start to its end. *)
LEMMA ParseLeads ==
    ASSUME NEW b \in BlockType, IsParse(b)
    PROVE  /\ Text(b.recs) \in Seq(Byte) /\ b.size = Len(Text(b.recs))
           /\ PlaceFacts(b.recs) /\ Places(b.recs) \subseteq RecSteps(Text(b.recs))
           /\ Path(Places(b.recs), b.recs, 0, Len(Text(b.recs)))
<1> DEFINE q == b.recs
           n == Len(q)
           u == TextUpto(q)
           t == Text(q)
<1>1. q \in Seq(Record) /\ n \in Nat
  BY DEF BlockType
<1>2. b.size = Len(t) /\ t = u[n]
  BY DEF IsParse, Text
<1>3. ASSUME NEW k \in 1..n, q[k].len > 0
      PROVE  /\ k < n /\ q[k].len >= MinMatch /\ q[k].off < Len(u[k - 1])
             /\ q[k].off + 1 < ByteBase * ByteBase
             /\ ~IsMark(q[k].len - MinMatch, q[k].off)
  BY <1>3 DEF IsParse
<1>4. u[0] = << >> /\ \A k \in 1..n : u[k] = Extend(u[k - 1], q[k])
  BY <1>1, TextUptoIs
<1>5. \A k \in 1..n : q[k] \in Record
  BY <1>1
<1> HIDE DEF q, n, u, t
<1> DEFINE Grown(k) ==
             /\ u[k] \in Seq(Byte) /\ Len(u[k]) = Len(u[k - 1]) + RecLen(q[k])
             /\ \A j \in 1..Len(u[k - 1]) : u[k][j] = u[k - 1][j]
             /\ IF q[k].len = 0 THEN u[k][Len(u[k - 1]) + 1] = q[k].ch
                ELSE Repeats(u[k], Len(u[k - 1]), q[k].off, q[k].len)
<1>6. ASSUME NEW k \in 1..n, u[k - 1] \in Seq(Byte) PROVE Grown(k)
  <2> DEFINE v == u[k - 1]
             r == q[k]
  <2>1. r \in Record /\ u[k] = Extend(v, r) /\ (r.len > 0 => r.off < Len(v)) /\ v \in Seq(Byte)
    BY <1>3, <1>4, <1>5, <1>6
  <2> HIDE DEF v, r
  <2>2. /\ Extend(v, r) \in Seq(Byte)
        /\ Len(Extend(v, r)) = Len(v) + RecLen(r)
        /\ \A j \in 1..Len(v) : Extend(v, r)[j] = v[j]
        /\ IF r.len = 0 THEN Extend(v, r)[Len(v) + 1] = r.ch
           ELSE Repeats(Extend(v, r), Len(v), r.off, r.len)
    BY <2>1, ExtendIs
  <2> QED
    BY <2>1, <2>2 DEF v, r
<1>7. \A k \in 0..n : u[k] \in Seq(Byte)
  <2> DEFINE bad == {k \in 0..n : u[k] \notin Seq(Byte)}
  <2>1. ASSUME bad # {} PROVE FALSE
    <3>1. PICK k \in bad : \A y \in bad : k <= y
      <4>1. bad \in SUBSET Nat
        OBVIOUS
      <4> HIDE DEF bad
      <4> QED
        BY <2>1, <4>1, Smallest
    <3>2. k \in 0..n /\ u[k] \notin Seq(Byte)
      OBVIOUS
    <3>3. k # 0
      <4> << >> \in Seq(Byte)
        OBVIOUS
      <4> QED
        BY <1>4, <3>2
    <3>4. k \in 1..n /\ k - 1 \in 0..n /\ k - 1 \notin bad
      BY <1>1, <3>1, <3>2, <3>3
    <3>5. u[k - 1] \in Seq(Byte)
      BY <3>4
    <3> HIDE DEF bad
    <3>6. Grown(k)
      BY <1>6, <3>4, <3>5
    <3> QED
      BY <3>2, <3>6
  <2> HIDE DEF bad
  <2> QED
    BY <2>1 DEF bad
<1>8. \A k \in 1..n : Grown(k) /\ k - 1 \in 0..n
  BY <1>1, <1>6, <1>7
<1>9. \A k \in 0..n : Len(u[k]) \in Nat
  BY <1>7
<1>10. ASSUME NEW k \in 0..n PROVE Begins(u[k], t)
  <2> DEFINE bad == {m \in 0..n : ~Begins(u[n - m], t)}
  <2>1. \A i \in 0..n : u[i] \in Seq(Int)
    BY <1>7, ByteSeq
  <2>2. ASSUME bad # {} PROVE FALSE
    <3>1. PICK m \in bad : \A y \in bad : m <= y
      <4>1. bad \in SUBSET Nat
        OBVIOUS
      <4> HIDE DEF bad
      <4> QED
        BY <2>2, <4>1, Smallest
    <3>2. m \in 0..n /\ ~Begins(u[n - m], t)
      OBVIOUS
    <3>3. m # 0
      <4>1. u[n] \in Seq(Int)
        BY <1>1, <2>1
      <4>2. Begins(u[n], t)
        BY <1>2, <4>1 DEF Begins
      <4>3. n - 0 = n
        BY <1>1
      <4> QED
        BY <3>2, <4>2, <4>3
    <3> DEFINE i == n - m
    <3>4. m - 1 \in 0..n /\ m - 1 \notin bad /\ i + 1 \in 1..n /\ i \in 0..n /\ i + 1 \in 0..n
          /\ n - (m - 1) = i + 1 /\ (i + 1) - 1 = i
      BY <1>1, <3>1, <3>2, <3>3
    <3>5. Begins(u[i + 1], t)
      BY <3>4
    <3>6. ~Begins(u[i], t)
      BY <3>2
    <3> HIDE DEF bad, i
    <3>7. /\ Len(u[i + 1]) = Len(u[i]) + RecLen(q[i + 1])
          /\ \A j \in 1..Len(u[i]) : u[i + 1][j] = u[i][j]
      BY <1>8, <3>4
    <3>8. RecLen(q[i + 1]) \in Nat /\ Len(u[i]) \in Nat /\ Len(u[i + 1]) \in Nat
      BY <1>5, <1>9, <3>4, RecordFacts
    <3>9. u[i] \in Seq(Int)
      BY <2>1, <3>4
    <3>10. \A j \in 1..Len(u[i]) : j \in 1..Len(u[i + 1])
      BY <3>7, <3>8
    <3>11. Len(u[i + 1]) <= Len(t) /\ \A j \in 1..Len(u[i + 1]) : u[i + 1][j] = t[j]
      BY <3>5 DEF Begins
    <3>a. Len(t) \in Nat
      BY <1>1, <1>2, <1>9
    <3>12. Len(u[i]) <= Len(t)
      BY <3>7, <3>8, <3>11, <3>a
    <3>13. \A j \in 1..Len(u[i]) : u[i][j] = t[j]
      BY <3>7, <3>10, <3>11
    <3> QED
      BY <3>6, <3>9, <3>12, <3>13 DEF Begins
  <2>3. n - k \in 0..n /\ n - (n - k) = k
    BY <1>1
  <2>4. n - k \notin bad
    <3> HIDE DEF bad
    <3> QED
      BY <2>2
  <2> QED
    BY <2>3, <2>4
<1> DEFINE at == [k \in 1..n + 1 |-> Len(u[k - 1])]
<1>11. \A k \in 1..n + 1 : k - 1 \in 0..n
  BY <1>1
<1>12. at \in [1..n + 1 -> Nat]
  BY <1>9, <1>11
<1>13. at[1] = 0 /\ at[n + 1] = Len(t)
  <2>1. 1 \in 1..n + 1 /\ n + 1 \in 1..n + 1 /\ 1 - 1 = 0 /\ (n + 1) - 1 = n
    BY <1>1
  <2>2. at[1] = Len(u[0]) /\ at[n + 1] = Len(u[n])
    BY <2>1
  <2>3. Len(<< >>) = 0
    OBVIOUS
  <2> QED
    BY <1>2, <1>4, <2>2, <2>3
<1>14. ASSUME NEW k \in 1..n PROVE <<at[k], q[k], at[k + 1]>> \in RecSteps(t)
  <2> DEFINE p == Len(u[k - 1])
             r == q[k]
  <2>1. k - 1 \in 0..n /\ k \in 0..n /\ k \in 1..n + 1 /\ k + 1 \in 1..n + 1 /\ (k + 1) - 1 = k
    BY <1>1
  <2>2. at[k] = p /\ at[k + 1] = Len(u[k])
    BY <2>1
  <2> HIDE DEF at
  <2>3. Grown(k)
    BY <1>8
  <2>4. p \in Nat /\ r \in Record /\ Len(u[k]) = p + RecLen(r) /\ Len(u[k]) \in Nat
    BY <1>5, <1>9, <2>1, <2>3
  <2>5. /\ IF r.len = 0 THEN u[k][p + 1] = r.ch ELSE Repeats(u[k], p, r.off, r.len)
    BY <2>3
  <2>6. r.len > 0 => /\ k < n /\ r.len >= MinMatch /\ r.off < p
                     /\ r.off + 1 < ByteBase * ByteBase /\ ~IsMark(r.len - MinMatch, r.off)
    BY <1>3
  <2>7. k < n => k + 1 \in 1..n /\ k + 1 \in 0..n
    BY <1>1
  <2>8. Begins(u[k], t) /\ (k < n => Begins(u[k + 1], t))
    BY <1>10, <2>1, <2>7
  <2>9. k < n => Len(u[k + 1]) = Len(u[k]) + RecLen(q[k + 1]) /\ RecLen(q[k + 1]) > 0
                 /\ RecLen(q[k + 1]) \in Nat
    BY <1>5, <1>8, <2>1, <2>7, RecordFacts
  <2> HIDE DEF p, r
  <2>a. Len(t) \in Nat
    BY <1>1, <1>2, <1>9
  <2>10. Len(u[k]) <= Len(t) /\ (k < n => Len(u[k]) < Len(t))
    BY <2>4, <2>8, <2>9, <2>a DEF Begins
  <2>11. \A j \in 1..Len(u[k]) : u[k][j] = t[j]
    BY <2>8 DEF Begins
  <2>12. RecAt(t, p, r)
    <3>1. r.len \in Nat /\ r.off \in Nat /\ RecLen(r) > 0 /\ RecLen(r) \in Nat
      BY <2>4, RecordFacts
    <3>2. CASE r.len = 0
      <4>1. p + 1 \in 1..Len(u[k])
        BY <2>4, <3>1
      <4> QED
        BY <2>4, <2>5, <2>10, <2>11, <3>2, <4>1 DEF RecAt
    <3>3. CASE r.len # 0
      <4>1. r.len > 0 /\ RecLen(r) = r.len
        BY <2>4, <3>1, <3>3, RecordFacts
      <4>2. ASSUME NEW j \in 1..r.len PROVE t[p + j] = t[p + j - r.off - 1]
        <5>1. u[k][p + j] = u[k][p + j - r.off - 1]
          BY <2>5, <3>3 DEF Repeats
        <5>2. p + j \in 1..Len(u[k]) /\ p + j - r.off - 1 \in 1..Len(u[k])
          <6>1. r.off < p /\ r.len \in Nat /\ r.off \in Nat /\ p \in Nat
            BY <2>4, <2>6, <3>1, <4>1
          <6>2. p + j \in 1..p + r.len /\ p + j - r.off - 1 \in 1..p + r.len
            BY <6>1
          <6> QED
            BY <2>4, <4>1, <6>2
        <5> QED
          BY <2>11, <5>1, <5>2
      <4>3. Repeats(t, p, r.off, r.len)
        BY <4>2 DEF Repeats
      <4>4. p + r.len < Len(t)
        BY <2>4, <2>6, <2>10, <4>1
      <4>5. MatchAt(t, p, r.len, r.off)
        BY <2>6, <4>1, <4>3, <4>4 DEF MatchAt
      <4> QED
        BY <2>4, <2>10, <3>3, <4>5 DEF RecAt
    <3> QED
      BY <3>2, <3>3
  <2> QED
    BY <2>2, <2>4, <2>12, RecStep DEF r
<1>15. \A k \in 0..n : PlaceOf(q, k) = Len(u[k])
  BY DEF PlaceOf, u
<1>16. ASSUME NEW k \in 1..n
       PROVE  /\ at[k] = PlaceOf(q, k - 1) /\ at[k + 1] = PlaceOf(q, k)
              /\ PlaceOf(q, k) = PlaceOf(q, k - 1) + RecLen(q[k])
              /\ RecLen(q[k]) \in Nat /\ RecLen(q[k]) > 0
  <2>1. k - 1 \in 0..n /\ k \in 0..n /\ k \in 1..n + 1 /\ k + 1 \in 1..n + 1 /\ (k + 1) - 1 = k
    BY <1>1
  <2>2. at[k] = Len(u[k - 1]) /\ at[k + 1] = Len(u[k])
    BY <2>1
  <2> HIDE DEF at
  <2>3. RecLen(q[k]) \in Nat /\ RecLen(q[k]) > 0
    BY <1>5, RecordFacts
  <2> QED
    BY <1>8, <1>15, <2>1, <2>2, <2>3
<1> HIDE DEF at
<1> DEFINE P == Places(q)
<1>17. P = {<<PlaceOf(q, k - 1), q[k], PlaceOf(q, k)>> : k \in 1..n}
  BY DEF Places, n
<1> HIDE DEF P
<1>18. \A k \in 1..n : <<at[k], q[k], at[k + 1]>> \in P
  BY <1>16, <1>17
<1>19. P \subseteq RecSteps(t)
  <2> SUFFICES ASSUME NEW s \in P PROVE s \in RecSteps(t)
    OBVIOUS
  <2>1. PICK k \in 1..n : s = <<PlaceOf(q, k - 1), q[k], PlaceOf(q, k)>>
    BY <1>17
  <2> QED
    BY <1>14, <1>16, <2>1
<1>20. Path(P, q, 0, Len(t))
  BY <1>12, <1>13, <1>18 DEF Path, n
<1>21. t \in Seq(Byte)
  BY <1>1, <1>2, <1>7
<1>22. PlaceFacts(q)
  <2>1. PlaceOf(q, 0) = 0
    <3>1. 0 \in 0..n /\ Len(<< >>) = 0
      BY <1>1
    <3> QED
      BY <1>4, <1>15, <3>1
  <2>2. PlaceOf(q, n) = Len(t)
    <3>1. n \in 0..n
      BY <1>1
    <3> QED
      BY <1>2, <1>15, <3>1
  <2>3. Text(q) = t
    BY DEF t, q
  <2> QED
    BY <1>1, <1>9, <1>15, <1>16, <2>1, <2>2, <2>3 DEF PlaceFacts, n
<1> QED
  BY <1>2, <1>19, <1>20, <1>21, <1>22 DEF t, q, P

(* L[g] is the g-th literal pushed since the reset; the n literals after   *)
(* the g-th are the bytes of t from position p on.                         *)
LitsAt(L, g, n, t, p) == \A j \in 1..n : L[g + j] = t[p + j]

IsLimit(v) == v.match = LimitMark /\ v.off = LimitMark
IsRest(v) == v.match = 0 /\ v.off = 0

(* A sequence at position p: its literals and its match are those of the   *)
(* text, or it is the last one.                                            *)
SeqAt(t, L, lim, p, v) ==
    /\ p < Len(t)
    /\ IF IsLimit(v) THEN lim
       ELSE /\ LitsAt(L, v.upto - v.lit, v.lit, t, p)
            /\ IF IsRest(v) THEN v.lit > 0 /\ p + v.lit = Len(t)
               ELSE MatchAt(t, p + v.lit, v.match + MinMatch, v.off)
SeqEnd(t, p, v) ==
    IF IsMark(v.match, v.off) THEN Len(t) ELSE p + v.lit + v.match + MinMatch
SeqSteps(t, L, lim) ==
    {s \in Nat \X SequenceType \X Nat :
        SeqAt(t, L, lim, s[1], s[2]) /\ s[3] = SeqEnd(t, s[1], s[2])}

-----------------------------------------------------------------------------
(***************************************************************************)
(* The inductive invariant of a call, for the text t of its block, the     *)
(* literals L pushed since the reset, and the bytes out that Part2 has     *)
(* written.                                                                *)
(***************************************************************************)
Context(t, L) ==
    /\ p1.pc # "idle" /\ p2.pc # "idle" /\ sink.pc # "idle"
    /\ Len(answers) < Len(session)
    /\ t \in Seq(Byte) /\ size = Len(t)
    /\ L \in [Int -> Byte]

(* Part1 holds the record of position p; recQ holds those after it, which  *)
(* lead to end.  S are the steps that the records of the block may be: all *)
(* those a parse may consist of, or those one source of records takes.     *)
Ahead(t, p, r, q, S, end) ==
    IF p < Len(t)
    THEN <<p, r, p + RecLen(r)>> \in S /\ Path(S, q, p + RecLen(r), end)
    ELSE p = Len(t) /\ q = << >> /\ end = Len(t)
Part1Place(t, p, q, S, end) ==
    /\ S \subseteq RecSteps(t)
    /\ p.pc = "first" => /\ Len(t) > 0 /\ Path(S, q, 0, end)
                         /\ p.i = 0 /\ p.litCount = 0 /\ ~p.flag
    /\ p.pc = "loop" => Ahead(t, p.i, p.next, q, S, end)
    /\ p.pc = "emit" => /\ <<p.i, p.tmp, p.i + RecLen(p.tmp)>> \in S
                        /\ Ahead(t, p.i + RecLen(p.tmp), p.next, q, S, end)
    /\ p.pc = "done" => q = << >> /\ end = Len(t)

(* The literals not announced yet are the bytes before p.i, unless some    *)
(* were dropped; there are some at the end of the block.                   *)
Part1Run(t, L, p, lim) ==
    p.pc # "done" =>
        /\ ~lim
        /\ IF p.flag THEN p.litCount = MaxLit
           ELSE /\ p.litCount <= p.i
                /\ LitsAt(L, p.pushed - p.litCount, p.litCount, t, p.i - p.litCount)
        /\ p.pc = "loop" /\ p.i = Len(t) => p.litCount > 0

(* lenQ leads from where Part2 is to where Part1's unannounced run starts, *)
(* and to the end of the block once Part1 is done.                         *)
Part2Pos(t, p) == IF p.ending THEN Len(t) ELSE p.inIdx
RunStart(t, p, e) ==
    IF p.pc = "done" THEN e = Len(t) ELSE e < Len(t) /\ (~p.flag => e = p.i - p.litCount)
Queued(t, L) ==
    \E e \in Nat : RunStart(t, p1, e) /\ Path(SeqSteps(t, L, limit), lenQ, Part2Pos(t, p2), e)

(* The literal FIFO continues L where Part2 stopped reading. *)
LiteralsIn(L) == \A k \in 1..Len(litQ) : litQ[k] = L[p2.upto - p2.writeLit + k]

Part1Inv(t, L, S, end) ==
    Part1Place(t, p1, recQ, S, end) /\ Part1Run(t, L, p1, limit) /\ Queued(t, L) /\ LiteralsIn(L)

-----------------------------------------------------------------------------
LEMMA SequenceFacts ==
    ASSUME NEW v \in SequenceType
    PROVE  v.lit \in Nat /\ v.match \in Int /\ v.off \in Nat /\ v.upto \in Nat
BY DEF SequenceType

LEMMA SeqStep ==
    ASSUME NEW t, NEW L, NEW lim, NEW p \in Nat, NEW v \in SequenceType, NEW e
    PROVE  <<p, v, e>> \in SeqSteps(t, L, lim)
             <=> e \in Nat /\ SeqAt(t, L, lim, p, v) /\ e = SeqEnd(t, p, v)
BY Zenon DEF SeqSteps

LEMMA NoMoreSequences ==
    ASSUME NEW t \in Seq(Byte), NEW L, NEW lim, NEW q \in Seq(SequenceType), NEW e,
           Path(SeqSteps(t, L, lim), q, Len(t), e)
    PROVE  q = << >> /\ e = Len(t)
<1>1. Len(t) \in Nat
  OBVIOUS
<1>2. ASSUME q # << >> PROVE FALSE
  <2>1. PICK f \in Nat : <<Len(t), Head(q), f>> \in SeqSteps(t, L, lim)
    BY <1>2, PathLess
  <2>2. Head(q) \in SequenceType
    BY <1>2
  <2>3. Len(t) < Len(t)
    BY <1>1, <2>1, <2>2, SeqStep DEF SeqAt
  <2> QED
    BY <1>1, <2>3
<1> QED
  BY <1>1, <1>2, PathNone

(* What Part1 may assume. *)
LEMMA Part1Facts ==
    ASSUME TypeOK
    PROVE  /\ p1 \in P1Type /\ recQ \in Seq(Record) /\ lenQ \in Seq(SequenceType)
           /\ litQ \in Seq(Byte) /\ limit \in BOOLEAN
           /\ p1.i \in Nat /\ p1.litCount \in 0..MaxLit /\ p1.pushed \in Nat
           /\ p1.flag \in BOOLEAN /\ p1.next \in Record /\ p1.tmp \in Record
           /\ p2.upto \in Nat /\ p2.writeLit \in Int
           /\ MaxLit \in Nat /\ MaxLit > 0 /\ MinMatch \in Nat /\ MinMatch > 0
           /\ LimitMark \in Nat /\ LimitMark > 0
BY ConstantTypes DEF TypeOK, P1Type, P2Type, Byte

LEMMA FirstStep ==
    ASSUME TypeOK, NEW t, NEW L, NEW S, NEW end,
           Context(t, L), Part1Inv(t, L, S, end), P1First
    PROVE  Part1Inv(t, L, S, end)'
<1>1. /\ recQ # << >> /\ recQ' = Tail(recQ) /\ p1.pc = "first"
      /\ p1' = [p1 EXCEPT !.pc = "loop", !.next = Head(recQ)]
      /\ p2' = p2 /\ lenQ' = lenQ /\ litQ' = litQ /\ limit' = limit
  BY DEF P1First
<1>2. /\ p1'.pc = "loop" /\ p1'.i = p1.i /\ p1'.next = Head(recQ)
      /\ p1'.litCount = p1.litCount /\ p1'.flag = p1.flag /\ p1'.pushed = p1.pushed
  BY <1>1, Part1Facts DEF P1Type
<1>3. t \in Seq(Byte) /\ Len(t) \in Nat
  BY DEF Context
<1>4. /\ Len(t) > 0 /\ S \subseteq RecSteps(t) /\ Path(S, recQ, 0, end)
      /\ p1.i = 0 /\ p1.litCount = 0 /\ ~p1.flag
  BY <1>1 DEF Part1Inv, Part1Place
<1>5. Head(recQ) \in Record
  BY <1>1, Part1Facts
<1>6. PICK f \in Nat : /\ <<0, Head(recQ), f>> \in S
                       /\ Path(S, Tail(recQ), f, end)
  BY <1>1, <1>4, Part1Facts, PathLess
<1>7. f = 0 + RecLen(Head(recQ))
  <2>1. <<0, Head(recQ), f>> \in RecSteps(t)
    BY <1>4, <1>6
  <2> QED
    BY <1>5, <2>1, RecStep
<1>8. Ahead(t, 0, Head(recQ), Tail(recQ), S, end)
  BY <1>4, <1>6, <1>7 DEF Ahead
<1>9. Part1Place(t, p1', recQ', S, end)
  BY <1>1, <1>2, <1>4, <1>8 DEF Part1Place
<1>10. Part1Run(t, L, p1', limit')
  BY <1>1, <1>2, <1>3, <1>4 DEF Part1Run, LitsAt, Part1Inv
<1>11. Queued(t, L)'
  <2>1. PICK e \in Nat : /\ RunStart(t, p1, e)
                         /\ Path(SeqSteps(t, L, limit), lenQ, Part2Pos(t, p2), e)
    BY DEF Part1Inv, Queued
  <2>2. RunStart(t, p1', e)
    BY <1>1, <1>2, <2>1 DEF RunStart
  <2> QED
    BY <1>1, <2>1, <2>2 DEF Queued
<1>12. LiteralsIn(L)'
  BY <1>1 DEF Part1Inv, LiteralsIn
<1> QED
  BY <1>9, <1>10, <1>11, <1>12 DEF Part1Inv

LEMMA FetchStep ==
    ASSUME TypeOK, NEW t, NEW L, NEW S, NEW end,
           Context(t, L), Part1Inv(t, L, S, end), P1Fetch
    PROVE  Part1Inv(t, L, S, end)'
<1>1. /\ p1.pc = "loop" /\ p1.i < size
      /\ p2' = p2 /\ lenQ' = lenQ /\ litQ' = litQ /\ limit' = limit
  BY DEF P1Fetch
<1>2. /\ p1'.pc = "emit" /\ p1'.i = p1.i /\ p1'.tmp = p1.next
      /\ p1'.litCount = p1.litCount /\ p1'.flag = p1.flag /\ p1'.pushed = p1.pushed
  BY Part1Facts DEF P1Type, P1Fetch
<1>3. t \in Seq(Byte) /\ Len(t) \in Nat /\ size = Len(t)
  BY DEF Context
<1> DEFINE n == p1.i + RecLen(p1.next)
<1>s. S \subseteq RecSteps(t)
  BY DEF Part1Inv, Part1Place
<1>4. RecAt(t, p1.i, p1.next) /\ <<p1.i, p1.next, n>> \in S /\ Path(S, recQ, n, end)
  <2>1. <<p1.i, p1.next, n>> \in S /\ Path(S, recQ, n, end)
    BY <1>1, <1>3 DEF Part1Inv, Part1Place, Ahead
  <2>2. <<p1.i, p1.next, n>> \in RecSteps(t)
    BY <1>s, <2>1
  <2> HIDE DEF n
  <2> QED
    BY <2>1, <2>2, RecStep, Part1Facts
<1>5. RecLen(p1.next) \in Nat /\ n \in Nat /\ n <= Len(t)
  <2>1. p1.next \in Record /\ p1.i \in Nat
    BY Part1Facts
  <2>2. RecLen(p1.next) \in Nat
    BY <2>1, RecordFacts
  <2>3. n \in Nat
    BY <2>1, <2>2
  <2> QED
    BY <1>4, <2>2, <2>3 DEF RecAt
<1>6. p1.next.len # 0 => n < Len(t)
  <2>1. p1.next.len \in Nat /\ (p1.next.len > 0 => RecLen(p1.next) = p1.next.len)
    BY Part1Facts, RecordFacts
  <2> QED
    BY <1>4, <2>1 DEF RecAt, MatchAt
<1>7. p1.next.len = 0 => n = p1.i + 1
  BY Part1Facts, RecordFacts
<1>8. Ahead(t, n, p1'.next, recQ', S, end)
  <2>1. CASE MoreToRead
    <3>1. recQ # << >> /\ recQ' = Tail(recQ) /\ p1'.next = Head(recQ)
      BY <2>1, Part1Facts DEF P1Fetch, P1Type
    <3>2. Head(recQ) \in Record
      BY <3>1, Part1Facts
    <3>3. PICK f \in Nat : /\ <<n, Head(recQ), f>> \in S
                           /\ Path(S, Tail(recQ), f, end)
      BY <1>4, <3>1, Part1Facts, PathLess
    <3>4. f = n + RecLen(Head(recQ))
      <4>1. <<n, Head(recQ), f>> \in RecSteps(t)
        BY <1>s, <3>3
      <4> HIDE DEF n
      <4> QED
        BY <1>5, <3>2, <4>1, RecStep
    <3>5. n < Len(t)
      <4>1. p1.i \in Nat /\ p1.i < Len(t) - 1
        BY <1>3, <2>1, Part1Facts DEF MoreToRead
      <4> HIDE DEF n
      <4> QED
        BY <1>3, <1>6, <1>7, <4>1
    <3> HIDE DEF n
    <3> QED
      BY <3>1, <3>3, <3>4, <3>5 DEF Ahead
  <2>2. CASE ~MoreToRead
    <3>1. recQ' = recQ
      BY <2>2 DEF P1Fetch
    <3>2. p1.i = Len(t) - 1
      BY <1>1, <1>3, <2>2, Part1Facts DEF MoreToRead
    <3>3. n = Len(t)
      BY <1>3, <1>5, <1>6, <1>7, <3>2, Part1Facts, RecordFacts
    <3>4. recQ = << >> /\ end = Len(t)
      <4>1. Path(S, recQ, Len(t), end)
        BY <1>4, <3>3
      <4> QED
        BY <1>3, <1>s, <4>1, Part1Facts, NoMoreRecords
    <3> HIDE DEF n
    <3> QED
      BY <1>3, <3>1, <3>3, <3>4 DEF Ahead
  <2> QED
    BY <2>1, <2>2
<1>9. Part1Place(t, p1', recQ', S, end)
  BY <1>2, <1>4, <1>s, <1>8 DEF Part1Place
<1>10. Part1Run(t, L, p1', limit')
  BY <1>1, <1>2 DEF Part1Run, Part1Inv
<1>11. Queued(t, L)'
  <2>1. PICK e \in Nat : /\ RunStart(t, p1, e)
                         /\ Path(SeqSteps(t, L, limit), lenQ, Part2Pos(t, p2), e)
    BY DEF Part1Inv, Queued
  <2>2. RunStart(t, p1', e)
    BY <1>1, <1>2, <2>1 DEF RunStart
  <2> QED
    BY <1>1, <2>1, <2>2 DEF Queued
<1>12. LiteralsIn(L)'
  BY <1>1 DEF Part1Inv, LiteralsIn
<1> QED
  BY <1>9, <1>10, <1>11, <1>12 DEF Part1Inv

(* Whatever it does with a record, Part1 then stands at the next. *)
LEMMA AdvanceFacts ==
    ASSUME TypeOK, NEW t, NEW L, NEW S, NEW end,
           Context(t, L), Part1Inv(t, L, S, end), p1.pc = "emit",
           p1'.pc = "loop", p1'.i = p1.i + RecLen(p1.tmp), p1'.next = p1.next, recQ' = recQ
    PROVE  /\ Part1Place(t, p1', recQ', S, end)
           /\ RecAt(t, p1.i, p1.tmp) /\ p1'.i \in Nat /\ p1'.i <= Len(t) /\ Len(t) \in Nat
<1>1. /\ S \subseteq RecSteps(t) /\ <<p1.i, p1.tmp, p1'.i>> \in S
      /\ Ahead(t, p1'.i, p1'.next, recQ', S, end)
  BY DEF Part1Inv, Part1Place
<1>r. RecAt(t, p1.i, p1.tmp)
  <2>1. <<p1.i, p1.tmp, p1'.i>> \in RecSteps(t)
    BY <1>1
  <2> QED
    BY <2>1, RecStep, Part1Facts
<1>2. Part1Place(t, p1', recQ', S, end)
  BY <1>1 DEF Part1Place
<1>3. p1'.i \in Nat
  BY Part1Facts, RecordFacts
<1> QED
  BY <1>1, <1>r, <1>2, <1>3 DEF RecAt, Context

LEMMA DropStep ==
    ASSUME TypeOK, NEW t, NEW L, NEW S, NEW end,
           Context(t, L), Part1Inv(t, L, S, end), P1Drop
    PROVE  Part1Inv(t, L, S, end)'
<1>1. /\ p1.pc = "emit" /\ LitLimitReached
      /\ p2' = p2 /\ lenQ' = lenQ /\ litQ' = litQ /\ limit' = limit /\ recQ' = recQ
  BY DEF P1Drop, streams
<1>2. /\ p1'.pc = "loop" /\ p1'.i = p1.i + RecLen(p1.tmp) /\ p1'.next = p1.next
      /\ p1'.litCount = p1.litCount /\ p1'.flag
  BY Part1Facts DEF P1Type, P1Drop, Advance
<1>3. p1.litCount = MaxLit
  BY <1>1, Part1Facts DEF LitLimitReached
<1>4. Part1Place(t, p1', recQ', S, end)
  BY <1>1, <1>2, AdvanceFacts
<1>5. Part1Run(t, L, p1', limit')
  BY <1>1, <1>2, <1>3, Part1Facts DEF Part1Run, Part1Inv
<1>6. Queued(t, L)'
  <2>1. PICK e \in Nat : /\ RunStart(t, p1, e)
                         /\ Path(SeqSteps(t, L, limit), lenQ, Part2Pos(t, p2), e)
    BY DEF Part1Inv, Queued
  <2>2. RunStart(t, p1', e)
    BY <1>1, <1>2, <2>1 DEF RunStart
  <2> QED
    BY <1>1, <2>1, <2>2 DEF Queued
<1>7. LiteralsIn(L)'
  BY <1>1 DEF Part1Inv, LiteralsIn
<1> QED
  BY <1>4, <1>5, <1>6, <1>7 DEF Part1Inv

LEMMA MatchStep ==
    ASSUME TypeOK, NEW t, NEW L, NEW S, NEW end,
           Context(t, L), Part1Inv(t, L, S, end), P1Match
    PROVE  Part1Inv(t, L, S, end)'
<1> DEFINE v == Announce(p1.tmp.len - MinMatch, p1.tmp.off)
<1>1. /\ p1.pc = "emit" /\ ~LitLimitReached /\ p1.tmp.len > 0 /\ lenQ' = Append(lenQ, v)
      /\ p2' = p2 /\ litQ' = litQ /\ limit' = limit /\ recQ' = recQ
  BY DEF P1Match
<1>2. /\ p1'.pc = "loop" /\ p1'.i = p1.i + RecLen(p1.tmp) /\ p1'.next = p1.next
      /\ p1'.litCount = 0 /\ p1'.flag = p1.flag /\ p1'.pushed = p1.pushed
  BY Part1Facts DEF P1Type, P1Match, Advance
<1>3. p1.tmp.len \in Nat /\ p1.tmp.off \in Nat /\ RecLen(p1.tmp) = p1.tmp.len
  BY <1>1, Part1Facts, RecordFacts
<1>4. /\ Part1Place(t, p1', recQ', S, end) /\ RecAt(t, p1.i, p1.tmp)
      /\ p1'.i \in Nat /\ Len(t) \in Nat
  BY <1>1, <1>2, AdvanceFacts
<1>5. MatchAt(t, p1.i, p1.tmp.len, p1.tmp.off)
  BY <1>1, <1>4 DEF RecAt
<1>6. /\ ~limit /\ ~p1.flag /\ p1.litCount <= p1.i
      /\ LitsAt(L, p1.pushed - p1.litCount, p1.litCount, t, p1.i - p1.litCount)
  BY <1>1, Part1Facts DEF Part1Inv, Part1Run, LitLimitReached
<1>7. p1'.i < Len(t)
  BY <1>2, <1>3, <1>5 DEF MatchAt
<1>8. Part1Run(t, L, p1', limit')
  BY <1>1, <1>2, <1>4, <1>6, <1>7 DEF Part1Run, LitsAt
<1>9. PICK e \in Nat : /\ RunStart(t, p1, e)
                       /\ Path(SeqSteps(t, L, limit), lenQ, Part2Pos(t, p2), e)
  BY DEF Part1Inv, Queued
<1>10. e = p1.i - p1.litCount /\ e < Len(t)
  BY <1>1, <1>6, <1>9 DEF RunStart
<1>a. /\ p1.litCount \in Nat /\ p1.pushed \in Nat /\ p1.i \in Nat
      /\ MinMatch \in Nat /\ p1.tmp.len - MinMatch \in Int
  BY <1>3, Part1Facts
<1>11. /\ v.lit = p1.litCount /\ v.match = p1.tmp.len - MinMatch /\ v.off = p1.tmp.off
       /\ v.upto = p1.pushed /\ v \in SequenceType
  BY <1>3, <1>a DEF Announce, SequenceType
<1> HIDE DEF v
<1>12. ~IsMark(v.match, v.off)
  BY <1>5, <1>11 DEF MatchAt
<1>13. e + v.lit = p1.i /\ v.match + MinMatch = p1.tmp.len
  BY <1>3, <1>a, <1>10, <1>11
<1>14. SeqAt(t, L, limit, e, v)
  BY <1>5, <1>6, <1>10, <1>11, <1>12, <1>13 DEF SeqAt, IsMark, IsLimit, IsRest
<1>15. SeqEnd(t, e, v) = p1'.i
  <2>1. SeqEnd(t, e, v) = e + v.lit + v.match + MinMatch
    BY <1>12 DEF SeqEnd
  <2>2. v.match \in Int
    BY <1>a, <1>11
  <2> QED
    BY <1>2, <1>3, <1>a, <1>11, <1>13, <2>1, <2>2
<1>16. <<e, v, p1'.i>> \in SeqSteps(t, L, limit)
  BY <1>4, <1>11, <1>14, <1>15, SeqStep
<1>17. Path(SeqSteps(t, L, limit), lenQ', Part2Pos(t, p2), p1'.i)
  BY <1>1, <1>4, <1>9, <1>11, <1>16, Part1Facts, PathMore
<1>18. RunStart(t, p1', p1'.i)
  BY <1>2, <1>4, <1>7 DEF RunStart
<1>19. Queued(t, L)'
  BY <1>1, <1>4, <1>17, <1>18 DEF Queued
<1>20. LiteralsIn(L)'
  BY <1>1 DEF Part1Inv, LiteralsIn
<1> QED
  BY <1>4, <1>8, <1>19, <1>20 DEF Part1Inv

(* A pushed literal extends L; what was announced before is not affected.  *)
Pushed(L, g, ch) == [L EXCEPT ![g + 1] = ch]

LEMMA PushedLits ==
    ASSUME NEW L \in [Int -> Byte], NEW g \in Nat, NEW ch \in Byte,
           NEW a \in Int, NEW n \in Int, a + n <= g, NEW t, NEW p, LitsAt(L, a, n, t, p)
    PROVE  LitsAt(Pushed(L, g, ch), a, n, t, p)
BY DEF LitsAt, Pushed

LEMMA PushedPath ==
    ASSUME TypeOK, Accounting, NEW t, NEW L \in [Int -> Byte], NEW ch \in Byte, NEW p, NEW e,
           Path(SeqSteps(t, L, limit), lenQ, p, e)
    PROVE  Path(SeqSteps(t, Pushed(L, p1.pushed, ch), limit), lenQ, p, e)
<1> DEFINE M == Pushed(L, p1.pushed, ch)
<1>1. ASSUME NEW k \in 1..Len(lenQ), NEW a \in Nat, NEW b \in Nat,
             <<a, lenQ[k], b>> \in SeqSteps(t, L, limit)
      PROVE  <<a, lenQ[k], b>> \in SeqSteps(t, M, limit)
  <2> DEFINE v == lenQ[k]
  <2>1. v \in SequenceType /\ v.upto <= p1.pushed
    BY Part1Facts DEF Accounting, Chain
  <2>a. <<a, v, b>> \in SeqSteps(t, L, limit)
    BY <1>1
  <2> HIDE DEF v, M
  <2>2. SeqAt(t, L, limit, a, v) /\ b = SeqEnd(t, a, v)
    BY <2>1, <2>a, SeqStep
  <2>3. v.lit \in Nat /\ v.upto \in Nat /\ p1.pushed \in Nat
    BY <2>1, Part1Facts, SequenceFacts
  <2>4. v.upto - v.lit \in Int /\ v.lit \in Int /\ v.upto - v.lit + v.lit <= p1.pushed
    BY <2>1, <2>3
  <2>5. LitsAt(L, v.upto - v.lit, v.lit, t, a) => LitsAt(M, v.upto - v.lit, v.lit, t, a)
    BY <2>3, <2>4, PushedLits DEF M
  <2>6. SeqAt(t, M, limit, a, v)
    BY <2>2, <2>5 DEF SeqAt
  <2>7. <<a, v, b>> \in SeqSteps(t, M, limit)
    BY <2>1, <2>2, <2>6, SeqStep
  <2> QED
    BY <2>7 DEF v
<1> QED
  BY <1>1, PathKeep

LEMMA LiteralStep ==
    ASSUME TypeOK, Accounting, NEW t, NEW L, NEW S, NEW end,
           Context(t, L), Part1Inv(t, L, S, end), P1Literal,
           NEW M, M = Pushed(L, p1.pushed, p1.tmp.ch)
    PROVE  Part1Inv(t, M, S, end)'
<1> DEFINE ch == p1.tmp.ch
<1>1. /\ p1.pc = "emit" /\ ~LitLimitReached /\ p1.tmp.len = 0 /\ litQ' = Append(litQ, ch)
      /\ p2' = p2 /\ lenQ' = lenQ /\ limit' = limit /\ recQ' = recQ
  BY DEF P1Literal
<1>2. /\ p1'.pc = "loop" /\ p1'.i = p1.i + RecLen(p1.tmp) /\ p1'.next = p1.next
      /\ p1'.litCount = p1.litCount + 1 /\ p1'.flag = p1.flag /\ p1'.pushed = p1.pushed + 1
  BY Part1Facts DEF P1Type, P1Literal, Advance
<1>3. ch \in Byte /\ RecLen(p1.tmp) = 1 /\ L \in [Int -> Byte]
  BY <1>1, Part1Facts, RecordFacts DEF Context
<1>4. /\ Part1Place(t, p1', recQ', S, end) /\ RecAt(t, p1.i, p1.tmp)
      /\ p1'.i \in Nat /\ Len(t) \in Nat
  BY <1>1, <1>2, AdvanceFacts
<1>5. ch = t[p1.i + 1]
  BY <1>1, <1>4 DEF RecAt
<1>6. /\ ~limit /\ ~p1.flag /\ p1.litCount <= p1.i
      /\ LitsAt(L, p1.pushed - p1.litCount, p1.litCount, t, p1.i - p1.litCount)
  BY <1>1, Part1Facts DEF Part1Inv, Part1Run, LitLimitReached
<1>7. M[p1.pushed + 1] = ch /\ \A g \in Int : g # p1.pushed + 1 => M[g] = L[g]
  BY <1>3, Part1Facts DEF Pushed
<1>b. M = Pushed(L, p1.pushed, ch)
  OBVIOUS
<1> HIDE DEF ch
<1> DEFINE c == p1.litCount
           g == p1.pushed
           i == p1.i
<1>8. LitsAt(M, (g + 1) - (c + 1), c + 1, t, (i + 1) - (c + 1))
  <2>0. c \in Nat /\ g \in Nat /\ i \in Nat
    BY Part1Facts
  <2>1. SUFFICES ASSUME NEW j \in 1..c + 1
                 PROVE  M[((g + 1) - (c + 1)) + j] = t[((i + 1) - (c + 1)) + j]
    BY DEF LitsAt
  <2>2. CASE j = c + 1
    <3>1. ((g + 1) - (c + 1)) + j = g + 1 /\ ((i + 1) - (c + 1)) + j = i + 1
      BY <2>0, <2>2
    <3> QED
      BY <1>5, <1>7, <3>1
  <2>3. CASE j # c + 1
    <3>1. j \in 1..c
      BY <2>0, <2>3
    <3>2. L[(g - c) + j] = t[(i - c) + j]
      BY <1>6, <3>1 DEF LitsAt
    <3>3. /\ ((g + 1) - (c + 1)) + j = (g - c) + j /\ ((i + 1) - (c + 1)) + j = (i - c) + j
          /\ (g - c) + j \in Int /\ (g - c) + j # g + 1
      BY <2>0, <3>1
    <3> HIDE DEF g, c, i
    <3> QED
      BY <1>7, <3>2, <3>3 DEF g
  <2> QED
    BY <2>2, <2>3
<1>9. Part1Run(t, M, p1', limit')
  <2>a. p1.i \in Nat /\ p1.litCount \in Nat
    BY Part1Facts
  <2>1. p1'.litCount <= p1'.i /\ p1'.litCount > 0
    BY <1>2, <1>3, <1>6, <2>a
  <2>2. LitsAt(M, p1'.pushed - p1'.litCount, p1'.litCount, t, p1'.i - p1'.litCount)
    BY <1>2, <1>3, <1>8
  <2> QED
    BY <1>1, <1>2, <1>6, <2>1, <2>2 DEF Part1Run
<1>10. PICK e \in Nat : /\ RunStart(t, p1, e)
                        /\ Path(SeqSteps(t, L, limit), lenQ, Part2Pos(t, p2), e)
  BY DEF Part1Inv, Queued
<1>11. Path(SeqSteps(t, M, limit), lenQ, Part2Pos(t, p2), e)
  BY <1>3, <1>10, <1>b, PushedPath
<1>12. RunStart(t, p1', e)
  <2>1. e < Len(t) /\ e = p1.i - p1.litCount
    BY <1>1, <1>6, <1>10 DEF RunStart
  <2>2. p1'.i - p1'.litCount = p1.i - p1.litCount
    <3>1. p1.i \in Nat /\ p1.litCount \in Nat
      BY Part1Facts
    <3> QED
      BY <1>2, <1>3, <3>1
  <2> QED
    BY <1>2, <2>1, <2>2 DEF RunStart
<1>13. Queued(t, M)'
  BY <1>1, <1>11, <1>12 DEF Queued
<1>14. LiteralsIn(M)'
  <2> DEFINE n == Len(litQ)
             a == p2.upto - p2.writeLit
  <2>1. /\ n \in Nat /\ Len(litQ') = n + 1 /\ litQ'[n + 1] = ch
        /\ \A k \in 1..n : litQ'[k] = litQ[k]
    BY <1>1, <1>3, Part1Facts
  <2>2. a \in Int /\ a + n = g
    <3>1. n = g - p2.upto + p2.writeLit
      BY DEF Accounting, Balance
    <3>2. g \in Nat /\ p2.upto \in Nat /\ p2.writeLit \in Int
      BY Part1Facts
    <3> HIDE DEF n, g
    <3> QED
      BY <3>1, <3>2
  <2>3. \A k \in 1..n : litQ[k] = L[a + k]
    BY DEF Part1Inv, LiteralsIn
  <2>4. ASSUME NEW k \in 1..n + 1 PROVE litQ'[k] = M[a + k]
    <3>1. CASE k = n + 1
      <4>1. a + k = g + 1
        BY <2>1, <2>2, <3>1
      <4> QED
        BY <1>7, <2>1, <3>1, <4>1
    <3>2. CASE k # n + 1
      <4>1. k \in 1..n
        BY <2>1, <3>2
      <4>2. a + k \in Int /\ a + k # g + 1
        BY <2>1, <2>2, <4>1
      <4> HIDE DEF n, a, g
      <4> QED
        BY <1>7, <2>1, <2>3, <4>1, <4>2 DEF g
    <3> QED
      BY <3>1, <3>2
  <2>5. p2'.upto - p2'.writeLit = a
    BY <1>1
  <2> HIDE DEF a, n
  <2> QED
    BY <2>1, <2>4, <2>5 DEF LiteralsIn
<1> QED
  BY <1>4, <1>9, <1>13, <1>14 DEF Part1Inv

LEMMA FinishStep ==
    ASSUME TypeOK, NEW t, NEW L, NEW S, NEW end,
           Context(t, L), Part1Inv(t, L, S, end), P1Finish
    PROVE  Part1Inv(t, L, S, end)' /\ recQ = << >>
<1> DEFINE mark == IF RunIsFull THEN LimitMark ELSE 0
           v == Announce(mark, mark)
<1>1. /\ p1.pc = "loop" /\ p1.i >= size
      /\ p2' = p2 /\ litQ' = litQ /\ recQ' = recQ /\ p1' = [p1 EXCEPT !.pc = "done"]
  BY DEF P1Finish
<1>2. t \in Seq(Byte) /\ Len(t) \in Nat /\ size = Len(t)
  BY DEF Context
<1>3. p1.i = Len(t) /\ recQ = << >> /\ end = Len(t) /\ S \subseteq RecSteps(t)
  BY <1>1, <1>2, Part1Facts, SMTT(30) DEF Part1Inv, Part1Place, Ahead
<1>4. /\ ~limit /\ p1.litCount > 0
      /\ IF p1.flag THEN p1.litCount = MaxLit
         ELSE LitsAt(L, p1.pushed - p1.litCount, p1.litCount, t, p1.i - p1.litCount)
  BY <1>1, <1>3 DEF Part1Inv, Part1Run
<1>5. lenQ' = Append(lenQ, v) /\ limit' = (p1.flag \/ RunIsFull)
  BY <1>4 DEF P1Finish
<1>6. p1'.pc = "done"
  BY <1>1, Part1Facts DEF P1Type
<1>7. Part1Place(t, p1', recQ', S, end) /\ Part1Run(t, L, p1', limit')
  BY <1>1, <1>3, <1>6 DEF Part1Place, Part1Run
<1>8. PICK e \in Nat : /\ RunStart(t, p1, e)
                       /\ Path(SeqSteps(t, L, limit), lenQ, Part2Pos(t, p2), e)
  BY DEF Part1Inv, Queued
<1>9. e < Len(t) /\ (~p1.flag => e = p1.i - p1.litCount)
  BY <1>1, <1>8 DEF RunStart
<1>10. Path(SeqSteps(t, L, limit'), lenQ, Part2Pos(t, p2), e)
  <2>1. ASSUME NEW k \in 1..Len(lenQ), NEW a \in Nat, NEW b \in Nat,
               <<a, lenQ[k], b>> \in SeqSteps(t, L, limit)
        PROVE  <<a, lenQ[k], b>> \in SeqSteps(t, L, limit')
    <3>1. lenQ[k] \in SequenceType
      BY Part1Facts
    <3>2. SeqAt(t, L, limit, a, lenQ[k]) /\ b = SeqEnd(t, a, lenQ[k])
      BY <2>1, <3>1, SeqStep
    <3>3. SeqAt(t, L, limit', a, lenQ[k])
      BY <1>4, <3>2 DEF SeqAt
    <3> QED
      BY <3>1, <3>2, <3>3, SeqStep
  <2> QED
    BY <1>8, <2>1, PathKeep
<1>11. /\ v.lit = p1.litCount /\ v.match = mark /\ v.off = mark
       /\ v.upto = p1.pushed /\ v \in SequenceType
  BY Part1Facts DEF Announce, SequenceType
<1> HIDE DEF v
<1>12. SeqAt(t, L, limit', e, v) /\ SeqEnd(t, e, v) = Len(t)
  <2>1. CASE RunIsFull
    <3>1. IsLimit(v) /\ IsMark(v.match, v.off) /\ limit'
      BY <1>5, <1>11, <2>1 DEF IsLimit, IsMark
    <3> QED
      BY <1>9, <3>1 DEF SeqAt, SeqEnd
  <2>2. CASE ~RunIsFull
    <3>1. ~IsLimit(v) /\ IsRest(v) /\ IsMark(v.match, v.off)
      BY <1>11, <2>2, Part1Facts DEF IsLimit, IsRest, IsMark
    <3>2. ~p1.flag /\ e = p1.i - p1.litCount
      BY <1>4, <1>9, <2>2 DEF RunIsFull
    <3>a. p1.i \in Nat /\ p1.litCount \in Nat
      BY Part1Facts
    <3>3. v.lit > 0 /\ e + v.lit = Len(t)
      BY <1>3, <1>4, <1>11, <3>2, <3>a
    <3>4. LitsAt(L, v.upto - v.lit, v.lit, t, e)
      BY <1>4, <1>11, <3>2
    <3> QED
      BY <1>9, <3>1, <3>3, <3>4 DEF SeqAt, SeqEnd
  <2> QED
    BY <2>1, <2>2
<1>13. <<e, v, Len(t)>> \in SeqSteps(t, L, limit')
  BY <1>2, <1>11, <1>12, SeqStep
<1>14. Path(SeqSteps(t, L, limit'), lenQ', Part2Pos(t, p2), Len(t))
  BY <1>2, <1>5, <1>10, <1>11, <1>13, Part1Facts, PathMore
<1>15. RunStart(t, p1', Len(t))
  BY <1>6 DEF RunStart
<1>16. Queued(t, L)'
  BY <1>1, <1>2, <1>14, <1>15 DEF Queued
<1>17. LiteralsIn(L)'
  BY <1>1 DEF Part1Inv, LiteralsIn
<1> QED
  BY <1>3, <1>7, <1>16, <1>17 DEF Part1Inv

-----------------------------------------------------------------------------
(* What each byte does to the decoder. *)
Decoder ==
    [st : {"token", "litlen", "literal", "offset0", "offset1", "matchlen"},
     lit : Int, match : Int, off : Int, text : Seq(Int), ok : BOOLEAN]

LEMMA DecoderFields ==
    ASSUME NEW d \in Decoder
    PROVE  /\ d.lit \in Int /\ d.match \in Int /\ d.off \in Int
           /\ d.text \in Seq(Int) /\ Len(d.text) \in Nat /\ d.ok \in BOOLEAN
           /\ NibbleMax \in Nat /\ NibbleMax > 0 /\ ByteMax \in Nat /\ ByteMax > 0
           /\ ByteBase = ByteMax + 1 /\ MinMatch \in Nat /\ MinMatch > 0
<1>1. d.text \in Seq(Int) /\ d.lit \in Int /\ d.match \in Int /\ d.off \in Int /\ d.ok \in BOOLEAN
  BY DEF Decoder
<1> QED
  BY <1>1, ConstantTypes DEF ByteBase

LEMMA StartDecoder == DecodeStart \in Decoder /\ Len(DecodeStart.text) = 0
<1>1. << >> \in Seq(Int) /\ Len(<< >>) = 0
  OBVIOUS
<1> QED
  BY <1>1 DEF DecodeStart, Decoder

LEMMA DecodeToken ==
    ASSUME NEW d \in Decoder, d.st = "token",
           NEW hi \in 0..NibbleMax, NEW lo \in 0..NibbleMax,
           NEW e, e = DecodeByte(d, TokenByte(hi, lo))
    PROVE  /\ e \in Decoder /\ e.lit = hi /\ e.match = lo /\ e.text = d.text /\ e.ok = d.ok
           /\ e.st = IF hi = NibbleMax THEN "litlen"
                     ELSE IF hi > 0 THEN "literal" ELSE "offset0"
<1> DEFINE b == TokenByte(hi, lo)
           m == NibbleMax + 1
           h == b \div m
           l == b % m
<1>1. m \in Nat /\ m > 0 /\ hi \in Nat /\ lo \in Nat /\ lo < m
  BY DecoderFields
<1>2. h = hi /\ l = lo
  <2>1. b = hi * m + lo
    BY DEF TokenByte
  <2> HIDE DEF b, m
  <2> QED
    BY <1>1, <2>1, Digits
<1>3. e = [d EXCEPT !.lit = h, !.match = l,
                    !.st = IF h = NibbleMax THEN "litlen"
                           ELSE IF h > 0 THEN "literal" ELSE "offset0"]
  BY DEF DecodeByte
<1> DEFINE st == IF hi = NibbleMax THEN "litlen" ELSE IF hi > 0 THEN "literal" ELSE "offset0"
<1> HIDE DEF h, l
<1>4. e = [d EXCEPT !.lit = hi, !.match = lo, !.st = st]
  BY <1>2, <1>3
<1>5. st \in {"litlen", "literal", "offset0"} /\ hi \in Int /\ lo \in Int
  BY <1>1
<1> HIDE DEF st
<1>6. e \in Decoder /\ e.lit = hi /\ e.match = lo /\ e.text = d.text /\ e.ok = d.ok /\ e.st = st
  BY <1>4, <1>5 DEF Decoder
<1> QED
  BY <1>6 DEF st

LEMMA DecodeLitLen ==
    ASSUME NEW d \in Decoder, d.st = "litlen", NEW b \in Int, NEW e, e = DecodeByte(d, b)
    PROVE  /\ e \in Decoder /\ e.lit = d.lit + b /\ e.match = d.match
           /\ e.text = d.text /\ e.ok = d.ok
           /\ e.st = IF b = ByteMax THEN "litlen" ELSE "literal"
<1>1. e = [d EXCEPT !.lit = d.lit + b, !.st = IF b = ByteMax THEN "litlen" ELSE "literal"]
  BY DEF DecodeByte
<1>2. d.lit + b \in Int
  BY DecoderFields
<1> QED
  BY <1>1, <1>2 DEF Decoder

LEMMA DecodeLiteral ==
    ASSUME NEW d \in Decoder, d.st = "literal", NEW b \in Int, NEW e, e = DecodeByte(d, b)
    PROVE  /\ e \in Decoder /\ e.lit = d.lit - 1 /\ e.match = d.match
           /\ e.text = Append(d.text, b) /\ e.ok = d.ok
           /\ e.st = IF d.lit = 1 THEN "offset0" ELSE "literal"
<1>1. e = [d EXCEPT !.text = Append(d.text, b), !.lit = d.lit - 1,
                    !.st = IF d.lit = 1 THEN "offset0" ELSE "literal"]
  BY DEF DecodeByte
<1>2. d.lit - 1 \in Int /\ Append(d.text, b) \in Seq(Int)
  BY DecoderFields
<1> HIDE DEF Decoder
<1> DEFINE s == Append(d.text, b)
           n == d.lit - 1
<1> HIDE DEF s, n
<1>3. e = [d EXCEPT !.text = s, !.lit = n, !.st = IF d.lit = 1 THEN "offset0" ELSE "literal"]
  BY <1>1 DEF s, n
<1>4. s \in Seq(Int) /\ n \in Int
  BY <1>2 DEF s, n
<1>5. /\ e \in Decoder /\ e.lit = n /\ e.match = d.match /\ e.text = s /\ e.ok = d.ok
      /\ e.st = IF d.lit = 1 THEN "offset0" ELSE "literal"
  BY <1>3, <1>4 DEF Decoder
<1> QED
  BY <1>5 DEF s, n

LEMMA DecodeOffset0 ==
    ASSUME NEW d \in Decoder, d.st = "offset0", NEW b \in Int, NEW e, e = DecodeByte(d, b)
    PROVE  /\ e \in Decoder /\ e.off = b /\ e.match = d.match
           /\ e.text = d.text /\ e.ok = d.ok /\ e.st = "offset1"
BY DEF DecodeByte, Decoder

(* A whole match whose distance is inside the text is copied. *)
LEMMA DecodeCopy ==
    ASSUME NEW d \in Decoder, d.off \in 1..Len(d.text), d.match \in Nat
    PROVE  /\ CopyMatch(d) \in Decoder /\ CopyMatch(d).st = "token" /\ CopyMatch(d).ok = d.ok
           /\ CopyMatch(d).text = Copy(d.text, d.off, d.match + MinMatch)
<1> DEFINE c == Copy(d.text, d.off, d.match + MinMatch)
<1>1. CopyMatch(d) = [d EXCEPT !.st = "token", !.text = c]
  BY DEF CopyMatch
<1>2. c \in Seq(Int)
  <2>1. d.text \in Seq(Int) /\ d.match + MinMatch \in Nat
    BY DecoderFields
  <2> QED
    BY <2>1, CopyIs
<1> HIDE DEF c
<1>3. /\ CopyMatch(d) \in Decoder /\ CopyMatch(d).st = "token" /\ CopyMatch(d).ok = d.ok
      /\ CopyMatch(d).text = c
  BY <1>1, <1>2 DEF Decoder
<1> QED
  BY <1>3 DEF c

LEMMA DecodeOffset1 ==
    ASSUME NEW d \in Decoder, d.st = "offset1", NEW b \in Int, NEW e, e = DecodeByte(d, b),
           NEW off \in Int, off = d.off + b * ByteBase
    PROVE  IF d.match = NibbleMax
           THEN /\ e \in Decoder /\ e.off = off /\ e.match = d.match
                /\ e.text = d.text /\ e.ok = d.ok /\ e.st = "matchlen"
           ELSE off \in 1..Len(d.text) /\ d.match \in Nat
                  => /\ e \in Decoder /\ e.st = "token" /\ e.ok = d.ok
                     /\ e.text = Copy(d.text, off, d.match + MinMatch)
<1> DEFINE f == [d EXCEPT !.off = off]
<1>1. f \in Decoder /\ f.off = off /\ f.match = d.match /\ f.text = d.text /\ f.ok = d.ok
  BY DEF Decoder
<1>2. f = [d EXCEPT !.off = d.off + b * ByteBase]
  OBVIOUS
<1>3. e = IF d.match = NibbleMax THEN [f EXCEPT !.st = "matchlen"] ELSE CopyMatch(f)
  BY <1>2 DEF DecodeByte
<1> HIDE DEF f
<1>4. CASE d.match = NibbleMax
  BY <1>1, <1>3, <1>4 DEF Decoder
<1>5. CASE d.match # NibbleMax
  BY <1>1, <1>3, <1>5, DecodeCopy
<1> QED
  BY <1>4, <1>5

LEMMA DecodeMatchLen ==
    ASSUME NEW d \in Decoder, d.st = "matchlen", NEW b \in Int, NEW e, e = DecodeByte(d, b),
           NEW n \in Int, n = d.match + b
    PROVE  IF b = ByteMax
           THEN /\ e \in Decoder /\ e.off = d.off /\ e.match = n
                /\ e.text = d.text /\ e.ok = d.ok /\ e.st = "matchlen"
           ELSE d.off \in 1..Len(d.text) /\ n \in Nat
                  => /\ e \in Decoder /\ e.st = "token" /\ e.ok = d.ok
                     /\ e.text = Copy(d.text, d.off, n + MinMatch)
<1> DEFINE f == [d EXCEPT !.match = n]
<1>1. /\ f \in Decoder /\ f.off = d.off /\ f.match = n /\ f.text = d.text /\ f.ok = d.ok
      /\ f.st = d.st
  BY DEF Decoder
<1>2. f = [d EXCEPT !.match = d.match + b]
  OBVIOUS
<1>3. e = IF b = ByteMax THEN f ELSE CopyMatch(f)
  BY <1>2 DEF DecodeByte
<1> HIDE DEF f
<1>4. CASE b = ByteMax
  BY <1>1, <1>3, <1>4
<1>5. CASE b # ByteMax
  BY <1>1, <1>3, <1>5, DecodeCopy
<1> QED
  BY <1>4, <1>5

-----------------------------------------------------------------------------
(* Part2's place: it leaves its loop only at the end of the block.         *)
Part2Place(t, p) ==
    /\ ~p.ending => p.inIdx \in Nat /\ (p.inIdx < Len(t) \/ Len(t) = 0)
    /\ p.ending => p.inIdx >= Len(t)
    /\ p.pc \in {"pad", "end", "done"} => p.inIdx >= Len(t)

(* The decoder has read every byte Part2 has written.  Between sequences   *)
(* it has the text before Part2's position; inside one it is in the state  *)
(* of the same name, and what it knows of the sequence and what Part2 has  *)
(* still to write of it add up to the sequence.                            *)
Distance(p) == IF p.st \in {"offset1", "matchlen"} THEN p.off - 1 ELSE p.off
InMatch(t, d, p) ==
    LET at == Len(d.text) + p.writeLit
        n  == d.match + p.matchLen + MinMatch
    IN  /\ MatchAt(t, at, n, Distance(p)) /\ p.inIdx = at + n
        /\ p.st \in {"offset1", "matchlen"} => p.off > 0
        /\ p.st = "offset1" => d.off = p.off % ByteBase
        /\ p.st = "matchlen" => d.off = p.off
        /\ p.st # "matchlen" => /\ p.extra <=> d.match = NibbleMax
                                /\ ~p.extra => p.matchLen = 0
InStep(t, L, d, p) ==
    /\ d \in Decoder /\ d.ok /\ Begins(d.text, t)
    /\ IF p.fresh
       THEN IF p.ending THEN d.st = "offset0" /\ Len(d.text) = Len(t)
            ELSE d.st = "token" /\ Len(d.text) = p.inIdx
       ELSE /\ d.st = p.st
            /\ LitsAt(L, p.upto - p.writeLit, p.writeLit, t, Len(d.text))
            /\ p.st = "litlen" => d.lit + p.litLen = p.writeLit
            /\ p.st = "literal" => d.lit = p.writeLit
            /\ IF p.ending
               THEN p.st \in {"litlen", "literal"} /\ Len(d.text) + p.writeLit = Len(t)
               ELSE InMatch(t, d, p)

LEMMA Part2Facts ==
    ASSUME TypeOK
    PROVE  /\ p2 \in P2Type /\ size \in Nat /\ lenQ \in Seq(SequenceType) /\ litQ \in Seq(Byte)
           /\ p2.inIdx \in Int /\ p2.litLen \in Nat /\ p2.matchLen \in Nat
           /\ p2.writeLit \in Int /\ p2.off \in Nat /\ p2.ending \in BOOLEAN
           /\ p2.extra \in BOOLEAN /\ p2.fresh \in BOOLEAN /\ p2.csize \in Nat
           /\ p2.out \in Int /\ p2.upto \in Nat
           /\ NibbleMax \in Nat /\ NibbleMax > 0 /\ ByteMax \in Nat /\ ByteMax > 0
           /\ ByteBase = ByteMax + 1 /\ MinMatch \in Nat /\ MinMatch > 0
BY ConstantTypes DEF TypeOK, P2Type, Byte, ByteBase

(* Bytes to write are written while the output is shorter than the input.  *)
AfterByte(pc) == pc = IF p2.csize < size THEN "out" ELSE "loop"

LEMMA TokenFields ==
    ASSUME TypeOK, WriteToken, NEW v, v = Head(lenQ)
    PROVE  /\ p2.pc = "loop" /\ p2.st = "token" /\ p2.fresh /\ p2.inIdx < size
           /\ lenQ # << >> /\ lenQ' = Tail(lenQ) /\ v \in SequenceType
           /\ p2'.inIdx = IF IsLimit(v) THEN size ELSE p2.inIdx + v.match + v.lit + MinMatch
           /\ p2'.ending <=> (p2.ending \/ IsMark(v.match, v.off))
           /\ p2'.litLen = v.lit - Least(v.lit, NibbleMax) /\ p2'.writeLit = v.lit
           /\ p2'.matchLen = v.match - Least(v.match, NibbleMax)
           /\ p2'.extra <=> v.match >= NibbleMax
           /\ p2'.off = v.off /\ ~p2'.fresh /\ p2'.upto = v.upto
           /\ p2'.st = IF v.lit >= NibbleMax THEN "litlen"
                       ELSE IF v.lit > 0 THEN "literal" ELSE "offset0"
           /\ p2'.out = TokenByte(Least(v.lit, NibbleMax), Least(v.match, NibbleMax))
           /\ p2'.csize = p2.csize /\ AfterByte(p2'.pc)
<1> DEFINE limitHit == v.match = LimitMark /\ v.off = LimitMark
<1>1. /\ p2.pc = "loop" /\ p2.st = "token" /\ p2.fresh /\ LoopAgain
      /\ lenQ # << >> /\ lenQ' = Tail(lenQ)
  BY DEF WriteToken, InState
<1>2. p2.inIdx < size
  BY <1>1 DEF LoopAgain
<1>3. v \in SequenceType
  BY <1>1, Part2Facts
<1>4. p2' = Emit([p2 EXCEPT
                    !.inIdx = IF limitHit THEN size ELSE p2.inIdx + v.match + v.lit + MinMatch,
                    !.ending = p2.ending \/ limitHit \/ (v.off = 0 /\ v.match = 0),
                    !.litLen = v.lit - Least(v.lit, NibbleMax), !.writeLit = v.lit,
                    !.matchLen = v.match - Least(v.match, NibbleMax),
                    !.extra = v.match >= NibbleMax,
                    !.off = v.off, !.fresh = FALSE, !.upto = v.upto,
                    !.st = IF v.lit >= NibbleMax THEN "litlen"
                           ELSE IF v.lit > 0 THEN "literal" ELSE "offset0"],
                  TokenByte(Least(v.lit, NibbleMax), Least(v.match, NibbleMax)))
  BY DEF WriteToken
<1>5. (limitHit \/ (v.off = 0 /\ v.match = 0)) <=> IsMark(v.match, v.off)
  BY DEF IsMark
<1> DEFINE inIdx == IF limitHit THEN size ELSE p2.inIdx + v.match + v.lit + MinMatch
           ending == p2.ending \/ limitHit \/ (v.off = 0 /\ v.match = 0)
           litLen == v.lit - Least(v.lit, NibbleMax)
           matchLen == v.match - Least(v.match, NibbleMax)
           extra == v.match >= NibbleMax
           st == IF v.lit >= NibbleMax THEN "litlen"
                 ELSE IF v.lit > 0 THEN "literal" ELSE "offset0"
           byte == TokenByte(Least(v.lit, NibbleMax), Least(v.match, NibbleMax))
<1>6. p2' = Emit([p2 EXCEPT !.inIdx = inIdx, !.ending = ending, !.litLen = litLen,
                    !.writeLit = v.lit, !.matchLen = matchLen, !.extra = extra,
                    !.off = v.off, !.fresh = FALSE, !.upto = v.upto, !.st = st], byte)
  BY <1>4
<1>7. p2 \in P2Type
  BY Part2Facts
<1>8. ending <=> (p2.ending \/ IsMark(v.match, v.off))
  BY <1>5
<1> HIDE DEF inIdx, ending, litLen, matchLen, extra, st, byte, limitHit
<1>9. /\ p2'.inIdx = inIdx /\ p2'.ending = ending /\ p2'.litLen = litLen /\ p2'.writeLit = v.lit
      /\ p2'.matchLen = matchLen /\ p2'.extra = extra
      /\ p2'.off = v.off /\ p2'.fresh = FALSE /\ p2'.upto = v.upto /\ p2'.st = st
      /\ p2'.out = byte /\ p2'.csize = p2.csize
      /\ p2'.pc = IF p2.csize < size THEN "out" ELSE "loop"
  BY <1>1, <1>6, <1>7 DEF Emit, P2Type
<1> QED
  BY <1>1, <1>2, <1>3, <1>8, <1>9
     DEF inIdx, litLen, matchLen, extra, st, byte, limitHit, AfterByte, IsLimit

(* The sequence at the head of lenQ starts where Part2 is. *)
LEMMA TokenReads ==
    ASSUME TypeOK, NEW t, NEW L, NEW S, NEW end,
           Context(t, L), Part1Inv(t, L, S, end), WriteToken,
           NEW v, v = Head(lenQ)
    PROVE  /\ ~p2.ending /\ p2.inIdx \in Nat /\ SeqAt(t, L, limit, p2.inIdx, v)
           /\ \E e \in Nat : /\ RunStart(t, p1, e) /\ SeqEnd(t, p2.inIdx, v) \in Nat
                             /\ Path(SeqSteps(t, L, limit), Tail(lenQ), SeqEnd(t, p2.inIdx, v), e)
<1>1. lenQ # << >> /\ lenQ \in Seq(SequenceType) /\ v \in SequenceType
  BY TokenFields, Part2Facts
<1>2. PICK e \in Nat : /\ RunStart(t, p1, e)
                       /\ Path(SeqSteps(t, L, limit), lenQ, Part2Pos(t, p2), e)
  BY DEF Part1Inv, Queued
<1>3. ~p2.ending
  <2>1. SUFFICES ASSUME p2.ending PROVE FALSE
    OBVIOUS
  <2>2. Path(SeqSteps(t, L, limit), lenQ, Len(t), e) /\ t \in Seq(Byte)
    BY <1>2, <2>1 DEF Part2Pos, Context
  <2> QED
    BY <1>1, <2>2, NoMoreSequences
<1>4. Path(SeqSteps(t, L, limit), lenQ, p2.inIdx, e)
  BY <1>2, <1>3 DEF Part2Pos
<1>5. PICK f \in Nat : /\ p2.inIdx \in Nat /\ <<p2.inIdx, v, f>> \in SeqSteps(t, L, limit)
                       /\ Path(SeqSteps(t, L, limit), Tail(lenQ), f, e)
  BY <1>1, <1>4, PathLess
<1>6. SeqAt(t, L, limit, p2.inIdx, v) /\ f = SeqEnd(t, p2.inIdx, v)
  BY <1>1, <1>5, SeqStep
<1> QED
  BY <1>2, <1>3, <1>5, <1>6

LEMMA TokenStep ==
    ASSUME TypeOK, Accounting, NEW t, NEW L, NEW S, NEW end,
           Context(t, L), Part1Inv(t, L, S, end), WriteToken
    PROVE  Part1Inv(t, L, S, end)' /\ Part2Place(t, p2')
<1> DEFINE v == Head(lenQ)
           p == p2.inIdx
<1>1. /\ p2.fresh /\ lenQ # << >> /\ lenQ' = Tail(lenQ) /\ v \in SequenceType
      /\ p2'.inIdx = IF IsLimit(v) THEN size ELSE p + v.match + v.lit + MinMatch
      /\ p2'.ending <=> (p2.ending \/ IsMark(v.match, v.off))
      /\ p2'.writeLit = v.lit /\ p2'.upto = v.upto /\ AfterByte(p2'.pc)
  BY TokenFields
<1>2. p1' = p1 /\ recQ' = recQ /\ litQ' = litQ /\ limit' = limit
  BY DEF WriteToken
<1>3. ~p2.ending /\ p \in Nat /\ SeqAt(t, L, limit, p, v)
  BY TokenReads
<1>4. PICK e \in Nat : /\ RunStart(t, p1, e) /\ SeqEnd(t, p, v) \in Nat
                       /\ Path(SeqSteps(t, L, limit), Tail(lenQ), SeqEnd(t, p, v), e)
  BY TokenReads
<1>5. v = lenQ[1] /\ 1 \in 1..Len(lenQ)
  BY <1>1, Part2Facts
<1>6. v.upto - v.lit = p2.upto
  BY <1>5 DEF Accounting, Chain
<1>7. p2.writeLit = 0
  <2>1. p2.st = "token"
    BY TokenFields
  <2> QED
    BY <2>1, Part2Facts DEF Accounting, Part2Control
<1>8. IsMark(v.match, v.off) <=> IsLimit(v) \/ IsRest(v)
  BY DEF IsMark, IsLimit, IsRest
<1>9. Len(t) \in Nat /\ size = Len(t)
  BY DEF Context
<1>10. v.lit \in Nat /\ v.match \in Int /\ v.off \in Nat /\ v.upto \in Nat /\ MinMatch \in Nat
       /\ MinMatch > 0
  BY <1>1, SequenceFacts, Part2Facts
<1> HIDE DEF v, p
<1>11. Part2Pos(t, p2') = SeqEnd(t, p, v)
  <2>1. CASE IsMark(v.match, v.off)
    BY <1>1, <2>1 DEF Part2Pos, SeqEnd
  <2>2. CASE ~IsMark(v.match, v.off)
    <3>1. p2'.inIdx = p + v.match + v.lit + MinMatch /\ ~p2'.ending
      BY <1>1, <1>3, <1>8, <2>2
    <3>2. p + v.match + v.lit + MinMatch = p + v.lit + v.match + MinMatch
      BY <1>3, <1>10
    <3> QED
      BY <2>2, <3>1, <3>2 DEF Part2Pos, SeqEnd
  <2> QED
    BY <2>1, <2>2
<1>12. Queued(t, L)'
  <2>1. RunStart(t, p1', e)
    BY <1>2, <1>4
  <2>2. Path(SeqSteps(t, L, limit'), lenQ', Part2Pos(t, p2'), e)
    BY <1>1, <1>2, <1>4, <1>11
  <2> QED
    BY <2>1, <2>2 DEF Queued
<1>13. LiteralsIn(L)'
  <2>1. p2'.upto - p2'.writeLit = p2.upto - p2.writeLit
    BY <1>1, <1>6, <1>7, Part2Facts
  <2> QED
    BY <1>2, <2>1 DEF Part1Inv, LiteralsIn
<1>14. Part1Place(t, p1', recQ', S, end) /\ Part1Run(t, L, p1', limit')
  BY <1>2 DEF Part1Inv
<1>15. Part2Place(t, p2')
  <2>1. p2'.pc \in {"out", "loop"}
    BY <1>1 DEF AfterByte
  <2>2. CASE IsLimit(v)
    <3>1. p2'.ending /\ p2'.inIdx = Len(t)
      BY <1>1, <1>8, <1>9, <2>2
    <3> QED
      BY <1>9, <2>1, <3>1 DEF Part2Place
  <2>3. CASE ~IsLimit(v) /\ IsRest(v)
    <3>1. p2'.ending /\ p2'.inIdx = p + v.match + v.lit + MinMatch /\ v.match = 0
      BY <1>1, <1>8, <2>3 DEF IsRest
    <3>2. p + v.lit = Len(t)
      BY <1>3, <2>3 DEF SeqAt
    <3>3. p2'.inIdx >= Len(t)
      BY <1>3, <1>9, <1>10, <3>1, <3>2
    <3> QED
      BY <2>1, <3>1, <3>3 DEF Part2Place
  <2>4. CASE ~IsLimit(v) /\ ~IsRest(v)
    <3>1. ~p2'.ending /\ p2'.inIdx = p + v.match + v.lit + MinMatch
      BY <1>1, <1>3, <1>8, <2>4
    <3>2. MatchAt(t, p + v.lit, v.match + MinMatch, v.off)
      BY <1>3, <2>4 DEF SeqAt
    <3>3. (p + v.lit) + (v.match + MinMatch) < Len(t) /\ v.match + MinMatch >= MinMatch
      BY <3>2 DEF MatchAt
    <3>a. p \in Nat /\ v.lit \in Nat /\ v.match \in Int /\ MinMatch \in Nat /\ Len(t) \in Nat
      BY <1>3, <1>9, <1>10
    <3>b. \A a, b, m, n \in Nat : \A c \in Int :
            c + m >= m /\ (a + b) + (c + m) < n
              => a + c + b + m < n /\ a + c + b + m \in Nat
      OBVIOUS
    <3>4. p2'.inIdx < Len(t) /\ p2'.inIdx \in Nat
      BY <3>1, <3>3, <3>a, <3>b
    <3> QED
      BY <2>1, <3>1, <3>4 DEF Part2Place
  <2> QED
    BY <2>2, <2>3, <2>4
<1> QED
  BY <1>12, <1>13, <1>14, <1>15 DEF Part1Inv

LEMMA TokenInStep ==
    ASSUME TypeOK, Accounting, NEW t, NEW L, NEW S, NEW end,
           Context(t, L), Part1Inv(t, L, S, end), WriteToken,
           ~limit, NEW d, InStep(t, L, d, p2), NEW e, e = DecodeByte(d, p2'.out)
    PROVE  InStep(t, L, e, p2')
<1> DEFINE v == Head(lenQ)
           p == p2.inIdx
           hi == Least(v.lit, NibbleMax)
           lo == Least(v.match, NibbleMax)
<1>1. /\ p2.fresh /\ v \in SequenceType
      /\ p2'.inIdx = IF IsLimit(v) THEN size ELSE p + v.match + v.lit + MinMatch
      /\ p2'.ending <=> (p2.ending \/ IsMark(v.match, v.off))
      /\ p2'.litLen = v.lit - hi /\ p2'.writeLit = v.lit
      /\ p2'.matchLen = v.match - lo /\ (p2'.extra <=> v.match >= NibbleMax)
      /\ p2'.off = v.off /\ ~p2'.fresh /\ p2'.upto = v.upto
      /\ p2'.st = IF v.lit >= NibbleMax THEN "litlen"
                  ELSE IF v.lit > 0 THEN "literal" ELSE "offset0"
      /\ p2'.out = TokenByte(hi, lo)
  BY TokenFields
<1>2. ~p2.ending /\ p \in Nat /\ SeqAt(t, L, limit, p, v)
  BY TokenReads
<1>3. IsMark(v.match, v.off) <=> IsLimit(v) \/ IsRest(v)
  BY DEF IsMark, IsLimit, IsRest
<1>4. d \in Decoder /\ d.ok /\ Begins(d.text, t) /\ d.st = "token" /\ Len(d.text) = p
  BY <1>1, <1>2 DEF InStep
<1>5. v.lit \in Nat /\ v.match \in Int /\ v.off \in Nat /\ v.upto \in Nat
  BY <1>1, SequenceFacts
<1>c. NibbleMax \in Nat /\ NibbleMax > 0 /\ MinMatch \in Nat
  BY Part2Facts
<1> HIDE DEF v
<1>6. /\ ~IsLimit(v) /\ LitsAt(L, v.upto - v.lit, v.lit, t, p)
      /\ IF IsRest(v) THEN v.lit > 0 /\ p + v.lit = Len(t)
         ELSE MatchAt(t, p + v.lit, v.match + MinMatch, v.off)
  BY <1>2 DEF SeqAt
<1>7. v.match >= 0
  <2>1. CASE IsRest(v)
    BY <2>1 DEF IsRest
  <2>2. CASE ~IsRest(v)
    <3>1. v.match + MinMatch >= MinMatch
      BY <1>6, <2>2 DEF MatchAt
    <3> QED
      BY <1>5, <1>c, <3>1
  <2> QED
    BY <2>1, <2>2
<1>8. /\ hi \in 0..NibbleMax /\ (hi = NibbleMax <=> v.lit >= NibbleMax) /\ (hi > 0 <=> v.lit > 0)
      /\ v.lit < NibbleMax => hi = v.lit
  BY <1>5, <1>c DEF Least
<1>9. /\ lo \in 0..NibbleMax /\ (lo = NibbleMax <=> v.match >= NibbleMax)
      /\ v.match < NibbleMax => lo = v.match
  BY <1>5, <1>7, <1>c DEF Least
<1>d. e = DecodeByte(d, TokenByte(hi, lo))
  BY <1>1
<1> HIDE DEF hi, lo, p
<1>10. /\ e \in Decoder /\ e.lit = hi /\ e.match = lo /\ e.text = d.text /\ e.ok = d.ok
       /\ e.st = IF hi = NibbleMax THEN "litlen" ELSE IF hi > 0 THEN "literal" ELSE "offset0"
  <2>1. d \in Decoder /\ d.st = "token" /\ hi \in 0..NibbleMax /\ lo \in 0..NibbleMax
    BY <1>4, <1>8, <1>9
  <2> QED
    BY <1>d, <2>1, DecodeToken
<1>11. e.st = p2'.st
  BY <1>1, <1>8, <1>10
<1>12. LitsAt(L, p2'.upto - p2'.writeLit, p2'.writeLit, t, Len(e.text))
  BY <1>1, <1>4, <1>6, <1>10
<1>13. p2'.st = "litlen" => e.lit + p2'.litLen = p2'.writeLit
  BY <1>1, <1>5, <1>8, <1>10
<1>14. p2'.st = "literal" => e.lit = p2'.writeLit
  BY <1>1, <1>5, <1>8, <1>c, <1>10
<1>15. CASE IsRest(v)
  <2>1. p2'.ending /\ p2'.st \in {"litlen", "literal"} /\ Len(e.text) + p2'.writeLit = Len(t)
    BY <1>1, <1>3, <1>4, <1>6, <1>10, <1>15
  <2> QED
    BY <1>1, <1>4, <1>10, <1>11, <1>12, <1>13, <1>14, <2>1 DEF InStep
<1>16. CASE ~IsRest(v)
  <2>1. ~p2'.ending /\ p2'.inIdx = p + v.match + v.lit + MinMatch
    BY <1>1, <1>2, <1>3, <1>6, <1>16
  <2>2. p2'.st \in {"litlen", "literal", "offset0"} /\ Distance(p2') = v.off
    BY <1>1 DEF Distance
  <2>3. e.match + p2'.matchLen + MinMatch = v.match + MinMatch
    BY <1>1, <1>5, <1>9, <1>c, <1>10
  <2>4. MatchAt(t, Len(e.text) + p2'.writeLit, e.match + p2'.matchLen + MinMatch, Distance(p2'))
    BY <1>1, <1>4, <1>6, <1>10, <1>16, <2>2, <2>3
  <2>5. p2'.inIdx = Len(e.text) + p2'.writeLit + (e.match + p2'.matchLen + MinMatch)
    <3>1. Len(e.text) + p2'.writeLit = p + v.lit
      BY <1>1, <1>4, <1>10
    <3>2. p + v.match + v.lit + MinMatch = p + v.lit + (v.match + MinMatch)
      BY <1>2, <1>5, <1>c
    <3> QED
      BY <2>1, <2>3, <3>1, <3>2
  <2>6. (p2'.extra <=> e.match = NibbleMax) /\ (~p2'.extra => p2'.matchLen = 0)
    BY <1>1, <1>5, <1>9, <1>c, <1>10
  <2>7. InMatch(t, e, p2')
    BY <2>2, <2>4, <2>5, <2>6 DEF InMatch
  <2> QED
    BY <1>1, <1>4, <1>10, <1>11, <1>12, <1>13, <1>14, <2>1, <2>7 DEF InStep
<1> QED
  BY <1>15, <1>16

-----------------------------------------------------------------------------
(* Steps that leave the parse and Part2's place in it alone. *)
LEMMA SameParse ==
    ASSUME NEW t, NEW L, NEW S, NEW end, Part1Inv(t, L, S, end),
           p1' = p1, recQ' = recQ, lenQ' = lenQ, litQ' = litQ, limit' = limit,
           p2'.inIdx = p2.inIdx, p2'.ending = p2.ending,
           p2'.upto = p2.upto, p2'.writeLit = p2.writeLit
    PROVE  Part1Inv(t, L, S, end)'
<1>1. Part1Place(t, p1', recQ', S, end) /\ Part1Run(t, L, p1', limit')
  BY DEF Part1Inv
<1>2. PICK e \in Nat : /\ RunStart(t, p1, e)
                       /\ Path(SeqSteps(t, L, limit), lenQ, Part2Pos(t, p2), e)
  BY DEF Part1Inv, Queued
<1>3. Part2Pos(t, p2') = Part2Pos(t, p2)
  BY DEF Part2Pos
<1>4. Queued(t, L)'
  BY <1>2, <1>3 DEF Queued
<1>5. LiteralsIn(L)'
  BY DEF Part1Inv, LiteralsIn
<1> QED
  BY <1>1, <1>4, <1>5 DEF Part1Inv

LEMMA SamePlace ==
    ASSUME NEW t, Part2Place(t, p2), p2'.pc \in {"loop", "out", "eos"},
           p2'.inIdx = p2.inIdx, p2'.ending = p2.ending
    PROVE  Part2Place(t, p2')
BY DEF Part2Place

LEMMA LitLenFields ==
    ASSUME TypeOK, WriteLitLen
    PROVE  /\ p2.pc = "loop" /\ p2.st = "litlen" /\ p2'.csize = p2.csize /\ AfterByte(p2'.pc)
           /\ p2'.inIdx = p2.inIdx /\ p2'.ending = p2.ending /\ p2'.matchLen = p2.matchLen
           /\ p2'.writeLit = p2.writeLit /\ p2'.off = p2.off /\ p2'.extra = p2.extra
           /\ p2'.fresh = p2.fresh /\ p2'.upto = p2.upto
           /\ IF p2.litLen >= ByteMax
              THEN p2'.litLen = p2.litLen - ByteMax /\ p2'.st = "litlen" /\ p2'.out = ByteMax
              ELSE p2'.litLen = p2.litLen /\ p2'.st = "literal" /\ p2'.out = p2.litLen
<1>1. p2.pc = "loop" /\ p2.st = "litlen"
  BY DEF WriteLitLen, InState
<1>2. p2 \in P2Type
  BY Part2Facts
<1>3. CASE p2.litLen >= ByteMax
  <2> DEFINE n == p2.litLen - ByteMax
  <2>1. p2' = Emit([p2 EXCEPT !.litLen = n], ByteMax)
    BY <1>3 DEF WriteLitLen, FullByte, AfterFullByte
  <2> HIDE DEF n
  <2>2. /\ p2'.csize = p2.csize /\ AfterByte(p2'.pc)
        /\ p2'.inIdx = p2.inIdx /\ p2'.ending = p2.ending /\ p2'.matchLen = p2.matchLen
        /\ p2'.writeLit = p2.writeLit /\ p2'.off = p2.off /\ p2'.extra = p2.extra
        /\ p2'.fresh = p2.fresh /\ p2'.upto = p2.upto
        /\ p2'.litLen = n /\ p2'.st = p2.st /\ p2'.out = ByteMax
    BY <1>1, <1>2, <2>1 DEF Emit, P2Type, AfterByte
  <2> QED
    BY <1>1, <1>3, <2>2 DEF n
<1>4. CASE ~(p2.litLen >= ByteMax)
  <2>1. p2' = Emit([p2 EXCEPT !.st = "literal"], p2.litLen)
    BY <1>4 DEF WriteLitLen, FullByte
  <2> QED
    BY <1>1, <1>2, <1>4, <2>1 DEF Emit, P2Type, AfterByte
<1> QED
  BY <1>3, <1>4

LEMMA LitLenStep ==
    ASSUME TypeOK, NEW t, NEW L, NEW S, NEW end,
           Part1Inv(t, L, S, end), Part2Place(t, p2), WriteLitLen
    PROVE  Part1Inv(t, L, S, end)' /\ Part2Place(t, p2')
<1>1. p1' = p1 /\ recQ' = recQ /\ lenQ' = lenQ /\ litQ' = litQ /\ limit' = limit
  BY DEF WriteLitLen, P2Local, streams
<1>2. p2'.pc \in {"loop", "out", "eos"}
  BY LitLenFields DEF AfterByte
<1> QED
  BY <1>1, <1>2, LitLenFields, SameParse, SamePlace

LEMMA LitLenInStep ==
    ASSUME TypeOK, Accounting, NEW t, NEW L, WriteLitLen, NEW d, InStep(t, L, d, p2),
           NEW e, e = DecodeByte(d, p2'.out)
    PROVE  InStep(t, L, e, p2')
<1>1. /\ p2.st = "litlen" /\ p2'.inIdx = p2.inIdx /\ p2'.ending = p2.ending
      /\ p2'.matchLen = p2.matchLen /\ p2'.writeLit = p2.writeLit /\ p2'.off = p2.off
      /\ p2'.extra = p2.extra /\ p2'.fresh = p2.fresh /\ p2'.upto = p2.upto
  BY LitLenFields
<1>2. /\ p2'.st = IF p2.litLen >= ByteMax THEN "litlen" ELSE "literal"
      /\ p2'.st = "litlen" => p2'.out + p2'.litLen = p2.litLen
      /\ (p2'.out = ByteMax) <=> (p2.litLen >= ByteMax)
      /\ p2'.st = "literal" => p2'.out = p2.litLen
      /\ p2'.out \in Int /\ p2'.litLen \in Int
  <2>1. p2.litLen \in Nat /\ ByteMax \in Nat
    BY Part2Facts
  <2>2. IF p2.litLen >= ByteMax
        THEN p2'.litLen = p2.litLen - ByteMax /\ p2'.st = "litlen" /\ p2'.out = ByteMax
        ELSE p2'.litLen = p2.litLen /\ p2'.st = "literal" /\ p2'.out = p2.litLen
    BY LitLenFields
  <2> QED
    BY <2>1, <2>2
<1>3. ~p2.fresh
  BY <1>1 DEF Accounting, Part2Control
<1>4. /\ d \in Decoder /\ d.ok /\ Begins(d.text, t) /\ d.st = "litlen"
      /\ LitsAt(L, p2.upto - p2.writeLit, p2.writeLit, t, Len(d.text))
      /\ d.lit + p2.litLen = p2.writeLit
      /\ p2.ending => Len(d.text) + p2.writeLit = Len(t)
      /\ ~p2.ending => InMatch(t, d, p2)
  BY <1>1, <1>3 DEF InStep
<1>5. /\ e \in Decoder /\ e.lit = d.lit + p2'.out /\ e.match = d.match
      /\ e.text = d.text /\ e.ok = d.ok
      /\ e.st = IF p2'.out = ByteMax THEN "litlen" ELSE "literal"
  <2>1. d \in Decoder /\ d.st = "litlen" /\ p2'.out \in Int
    BY <1>2, <1>4
  <2> QED
    BY <2>1, DecodeLitLen
<1>6. e.st = p2'.st
  BY <1>2, <1>5
<1>7. /\ p2'.st = "litlen" => e.lit + p2'.litLen = p2'.writeLit
      /\ p2'.st = "literal" => e.lit = p2'.writeLit
  <2>1. d.lit \in Int
    BY <1>4, DecoderFields
  <2>2. p2.writeLit \in Int /\ p2.litLen \in Int
    BY Part2Facts
  <2> QED
    BY <1>1, <1>2, <1>4, <1>5, <2>1, <2>2
<1>8. ~p2.ending => InMatch(t, e, p2')
  BY <1>1, <1>2, <1>4, <1>5 DEF InMatch, Distance
<1> QED
  BY <1>1, <1>2, <1>3, <1>4, <1>5, <1>6, <1>7, <1>8 DEF InStep

-----------------------------------------------------------------------------
LEMMA Offset0Fields ==
    ASSUME TypeOK, WriteOffset0
    PROVE  /\ p2.pc = "loop" /\ p2.st = "offset0" /\ p2'.csize = p2.csize /\ AfterByte(p2'.pc)
           /\ p2'.inIdx = p2.inIdx /\ p2'.ending = p2.ending /\ p2'.matchLen = p2.matchLen
           /\ p2'.writeLit = p2.writeLit /\ p2'.off = p2.off + 1 /\ p2'.extra = p2.extra
           /\ p2'.fresh = p2.fresh /\ p2'.upto = p2.upto /\ p2'.st = "offset1"
           /\ p2'.out = p2'.off % ByteBase
<1>1. p2.pc = "loop" /\ p2.st = "offset0"
  BY DEF WriteOffset0, InState
<1>2. p2 \in P2Type
  BY Part2Facts
<1> DEFINE n == p2.off + 1
           b == n % ByteBase
<1>3. p2' = Emit([p2 EXCEPT !.off = n, !.st = "offset1"], b)
  BY DEF WriteOffset0, StoredOffset
<1> HIDE DEF n, b
<1>4. /\ p2'.csize = p2.csize /\ AfterByte(p2'.pc)
      /\ p2'.inIdx = p2.inIdx /\ p2'.ending = p2.ending /\ p2'.matchLen = p2.matchLen
      /\ p2'.writeLit = p2.writeLit /\ p2'.off = n /\ p2'.extra = p2.extra
      /\ p2'.fresh = p2.fresh /\ p2'.upto = p2.upto /\ p2'.st = "offset1" /\ p2'.out = b
  BY <1>1, <1>2, <1>3 DEF Emit, P2Type, AfterByte
<1> QED
  BY <1>1, <1>4 DEF n, b

LEMMA Offset0Step ==
    ASSUME TypeOK, NEW t, NEW L, NEW S, NEW end,
           Part1Inv(t, L, S, end), Part2Place(t, p2), WriteOffset0
    PROVE  Part1Inv(t, L, S, end)' /\ Part2Place(t, p2')
<1>1. p1' = p1 /\ recQ' = recQ /\ lenQ' = lenQ /\ litQ' = litQ /\ limit' = limit
  BY DEF WriteOffset0, P2Local, streams
<1>2. p2'.pc \in {"loop", "out", "eos"}
  BY Offset0Fields DEF AfterByte
<1> QED
  BY <1>1, <1>2, Offset0Fields, SameParse, SamePlace

LEMMA Offset0InStep ==
    ASSUME TypeOK, Accounting, NEW t, NEW L, WriteOffset0, NEW d, InStep(t, L, d, p2),
           NEW e, e = DecodeByte(d, p2'.out)
    PROVE  InStep(t, L, e, p2')
<1>1. /\ p2.st = "offset0" /\ p2'.inIdx = p2.inIdx /\ p2'.ending = p2.ending
      /\ p2'.matchLen = p2.matchLen /\ p2'.writeLit = p2.writeLit /\ p2'.off = p2.off + 1
      /\ p2'.extra = p2.extra /\ p2'.fresh = p2.fresh /\ p2'.upto = p2.upto
      /\ p2'.st = "offset1" /\ p2'.out = p2'.off % ByteBase
  BY Offset0Fields
<1>2. ~p2.fresh
  BY <1>1 DEF Accounting, Part2Control
<1>3. /\ d \in Decoder /\ d.ok /\ Begins(d.text, t) /\ d.st = "offset0" /\ ~p2.ending
      /\ LitsAt(L, p2.upto - p2.writeLit, p2.writeLit, t, Len(d.text))
      /\ InMatch(t, d, p2)
  BY <1>1, <1>2 DEF InStep
<1> DEFINE b == p2'.off % ByteBase
<1>4. b \in Int
  <2>1. p2.off \in Nat /\ ByteBase \in Nat /\ ByteBase > 0
    BY Part2Facts, SMTT(30)
  <2>2. p2'.off \in Nat
    BY <1>1, <2>1
  <2> QED
    BY <2>1, <2>2
<1> HIDE DEF b
<1>5. /\ e \in Decoder /\ e.off = b /\ e.match = d.match
      /\ e.text = d.text /\ e.ok = d.ok /\ e.st = "offset1"
  <2>1. e = DecodeByte(d, b)
    BY <1>1 DEF b
  <2> QED
    BY <1>3, <1>4, <2>1, DecodeOffset0
<1>6. Distance(p2') = Distance(p2) /\ p2'.off > 0
  <2>1. p2.off \in Nat
    BY Part2Facts
  <2> QED
    BY <1>1, <2>1 DEF Distance
<1>7. InMatch(t, e, p2')
  BY <1>1, <1>3, <1>5, <1>6 DEF InMatch, b
<1> QED
  BY <1>1, <1>2, <1>3, <1>5, <1>7 DEF InStep

-----------------------------------------------------------------------------
LEMMA LiteralFields ==
    ASSUME TypeOK, WriteLiteral, NEW last, last = (p2.writeLit = 1)
    PROVE  /\ p2.pc = "loop" /\ p2.st = "literal" /\ p2'.csize = p2.csize /\ AfterByte(p2'.pc)
           /\ litQ # << >> /\ litQ' = Tail(litQ)
           /\ p2'.inIdx = p2.inIdx /\ p2'.ending = p2.ending /\ p2'.matchLen = p2.matchLen
           /\ p2'.litLen = p2.litLen /\ p2'.off = p2.off /\ p2'.extra = p2.extra
           /\ p2'.upto = p2.upto /\ p2'.writeLit = p2.writeLit - 1
           /\ p2'.fresh <=> last /\ p2.ending
           /\ p2'.st = IF ~last THEN "literal" ELSE IF p2.ending THEN "token" ELSE "offset0"
           /\ p2'.out = Head(litQ)
<1>1. p2.pc = "loop" /\ p2.st = "literal" /\ litQ # << >> /\ litQ' = Tail(litQ)
  BY DEF WriteLiteral, InState
<1>2. p2 \in P2Type /\ p2.ending \in BOOLEAN
  BY Part2Facts
<1> DEFINE st == IF ~last THEN "literal" ELSE IF p2.ending THEN "token" ELSE "offset0"
           fresh == last /\ p2.ending
           n == p2.writeLit - 1
<1>3. p2' = Emit([p2 EXCEPT !.writeLit = n, !.st = st, !.fresh = fresh], Head(litQ))
  BY DEF WriteLiteral
<1>4. fresh <=> last /\ p2.ending
  OBVIOUS
<1> HIDE DEF st, fresh, n
<1>5. /\ p2'.csize = p2.csize /\ AfterByte(p2'.pc)
      /\ p2'.inIdx = p2.inIdx /\ p2'.ending = p2.ending /\ p2'.matchLen = p2.matchLen
      /\ p2'.litLen = p2.litLen /\ p2'.off = p2.off /\ p2'.extra = p2.extra
      /\ p2'.upto = p2.upto /\ p2'.writeLit = n /\ p2'.fresh = fresh /\ p2'.st = st
      /\ p2'.out = Head(litQ)
  BY <1>1, <1>2, <1>3 DEF Emit, P2Type, AfterByte
<1> QED
  BY <1>1, <1>4, <1>5 DEF n, st

LEMMA ShiftLiterals ==
    ASSUME NEW q \in Seq(Byte), q # << >>, NEW L, NEW a \in Int,
           \A k \in 1..Len(q) : q[k] = L[a + k]
    PROVE  Head(q) = L[a + 1] /\ \A k \in 1..Len(Tail(q)) : Tail(q)[k] = L[a + 1 + k]
<1>1. /\ Len(q) \in Nat /\ Len(q) > 0 /\ Len(Tail(q)) = Len(q) - 1 /\ Head(q) = q[1]
      /\ \A k \in 1..Len(q) - 1 : Tail(q)[k] = q[k + 1]
  OBVIOUS
<1>2. ASSUME NEW k \in 1..Len(q) - 1 PROVE Tail(q)[k] = L[a + 1 + k]
  <2>1. k + 1 \in 1..Len(q) /\ a + (k + 1) = a + 1 + k
    BY <1>1
  <2> QED
    BY <1>1, <2>1
<1> QED
  BY <1>1, <1>2

LEMMA LiteralOut ==
    ASSUME TypeOK, NEW t, NEW L, NEW S, NEW end,
           Part1Inv(t, L, S, end), Part2Place(t, p2), WriteLiteral
    PROVE  /\ Part1Inv(t, L, S, end)' /\ Part2Place(t, p2')
           /\ p2'.out = L[p2.upto - p2.writeLit + 1]
<1>1. /\ litQ # << >> /\ litQ' = Tail(litQ) /\ p2'.inIdx = p2.inIdx /\ p2'.ending = p2.ending
      /\ p2'.upto = p2.upto /\ p2'.writeLit = p2.writeLit - 1 /\ p2'.out = Head(litQ)
      /\ AfterByte(p2'.pc)
  BY LiteralFields
<1>2. p1' = p1 /\ recQ' = recQ /\ lenQ' = lenQ /\ limit' = limit
  BY DEF WriteLiteral
<1>3. Part1Place(t, p1', recQ', S, end) /\ Part1Run(t, L, p1', limit')
  BY <1>2 DEF Part1Inv
<1>4. PICK e \in Nat : /\ RunStart(t, p1, e)
                       /\ Path(SeqSteps(t, L, limit), lenQ, Part2Pos(t, p2), e)
  BY DEF Part1Inv, Queued
<1>5. Part2Pos(t, p2') = Part2Pos(t, p2)
  BY <1>1 DEF Part2Pos
<1>6. Queued(t, L)'
  BY <1>2, <1>4, <1>5 DEF Queued
<1> DEFINE a == p2.upto - p2.writeLit
<1>7. a \in Int /\ p2'.upto - p2'.writeLit = a + 1
  <2>1. p2.upto \in Int /\ p2.writeLit \in Int
    BY Part2Facts
  <2> QED
    BY <1>1, <2>1
<1>8. \A k \in 1..Len(litQ) : litQ[k] = L[a + k]
  BY DEF Part1Inv, LiteralsIn
<1>9. litQ \in Seq(Byte)
  BY Part2Facts
<1> HIDE DEF a
<1>10. Head(litQ) = L[a + 1] /\ \A k \in 1..Len(Tail(litQ)) : Tail(litQ)[k] = L[a + 1 + k]
  BY <1>1, <1>7, <1>8, <1>9, ShiftLiterals
<1>11. LiteralsIn(L)'
  BY <1>1, <1>7, <1>10 DEF LiteralsIn
<1>12. Part2Place(t, p2')
  <2>1. p2'.pc \in {"loop", "out", "eos"}
    BY <1>1 DEF AfterByte
  <2> QED
    BY <1>1, <2>1, SamePlace
<1> QED
  BY <1>1, <1>3, <1>6, <1>10, <1>11, <1>12 DEF Part1Inv, a

LEMMA LiteralInStep ==
    ASSUME TypeOK, Accounting, NEW t, NEW L, NEW S, NEW end,
           Context(t, L), Part1Inv(t, L, S, end), Part2Place(t, p2),
           WriteLiteral, NEW d, InStep(t, L, d, p2), NEW e, e = DecodeByte(d, p2'.out)
    PROVE  InStep(t, L, e, p2')
<1> DEFINE last == p2.writeLit = 1
           w == p2.writeLit
           n == Len(d.text)
           a == p2.upto - p2.writeLit
           b == p2'.out
<1>1. /\ p2.st = "literal" /\ p2'.inIdx = p2.inIdx /\ p2'.ending = p2.ending
      /\ p2'.matchLen = p2.matchLen /\ p2'.off = p2.off /\ p2'.extra = p2.extra
      /\ p2'.upto = p2.upto /\ p2'.writeLit = w - 1 /\ (p2'.fresh <=> last /\ p2.ending)
      /\ p2'.st = IF ~last THEN "literal" ELSE IF p2.ending THEN "token" ELSE "offset0"
  BY LiteralFields
<1>2. ~p2.fresh /\ w > 0
  BY <1>1 DEF Accounting, Part2Control
<1>3. /\ d \in Decoder /\ d.ok /\ Begins(d.text, t) /\ d.st = "literal" /\ d.lit = w
      /\ LitsAt(L, a, w, t, n)
      /\ p2.ending => n + w = Len(t)
      /\ ~p2.ending => InMatch(t, d, p2)
  BY <1>1, <1>2 DEF InStep
<1>t. TypeOK'
  BY Part2Type DEF Part2
<1>4. /\ w \in Int /\ n \in Nat /\ a \in Int /\ p2.matchLen \in Int /\ MinMatch \in Nat
      /\ p2'.ending \in BOOLEAN /\ p2'.fresh \in BOOLEAN /\ p2.ending \in BOOLEAN
  <2>1. n \in Nat
    BY <1>3, DecoderFields
  <2>2. /\ p2.upto \in Int /\ p2.writeLit \in Int /\ p2.matchLen \in Int /\ MinMatch \in Nat
        /\ p2.ending \in BOOLEAN
    BY Part2Facts
  <2>3. p2'.fresh \in BOOLEAN
    BY <1>t DEF TypeOK, P2Type
  <2> QED
    BY <1>1, <2>1, <2>2, <2>3
<1>5. t \in Seq(Byte) /\ Len(t) \in Nat
  BY DEF Context
<1>6. n + w <= Len(t)
  <2>1. CASE p2.ending
    BY <1>3, <1>4, <1>5, <2>1
  <2>2. CASE ~p2.ending
    <3> DEFINE m == d.match + p2.matchLen + MinMatch
    <3>1. MatchAt(t, n + w, m, Distance(p2))
      BY <1>3, <2>2 DEF InMatch
    <3>2. m \in Int
      <4>1. d.match \in Int
        BY <1>3, DecoderFields
      <4> QED
        BY <1>4, <4>1
    <3> HIDE DEF m
    <3>3. m >= MinMatch /\ n + w + m < Len(t)
      BY <3>1 DEF MatchAt
    <3> HIDE DEF w, n
    <3> QED
      BY <1>4, <1>5, <3>2, <3>3
  <2> QED
    BY <2>1, <2>2
<1>7. b = t[n + 1]
  <2>1. b = L[a + 1]
    BY LiteralOut
  <2>2. 1 \in 1..w
    BY <1>2, <1>4
  <2> HIDE DEF w, n, a, b
  <2> QED
    BY <1>3, <2>1, <2>2 DEF LitsAt
<1>8. t \in Seq(Int) /\ b \in Int
  <2>1. t \in Seq(Int)
    BY <1>5, ByteSeq
  <2>2. n + 1 \in 1..Len(t)
    BY <1>2, <1>4, <1>5, <1>6
  <2> QED
    BY <1>5, <1>7, <2>1, <2>2 DEF Byte
<1> HIDE DEF b
<1>9. /\ e \in Decoder /\ e.lit = d.lit - 1 /\ e.match = d.match
      /\ e.text = Append(d.text, b) /\ e.ok = d.ok
      /\ e.st = IF d.lit = 1 THEN "offset0" ELSE "literal"
  <2>1. e = DecodeByte(d, b)
    BY DEF b
  <2> QED
    BY <1>3, <1>8, <2>1, DecodeLiteral
<1>10. Begins(e.text, t) /\ Len(e.text) = n + 1
  <2>1. Len(d.text) < Len(t)
    BY <1>2, <1>4, <1>5, <1>6
  <2> QED
    BY <1>3, <1>7, <1>8, <1>9, <2>1, BeginsMore, SMTT(30)
<1>11. CASE last /\ p2.ending
  <2>1. p2'.fresh /\ p2'.ending /\ e.st = "offset0" /\ Len(e.text) = Len(t)
    BY <1>1, <1>3, <1>9, <1>10, <1>11
  <2> QED
    BY <1>3, <1>9, <1>10, <2>1 DEF InStep
<1>12. CASE ~(last /\ p2.ending)
  <2>1. ~p2'.fresh /\ e.st = p2'.st /\ p2'.st \in {"literal", "offset0"}
    BY <1>1, <1>3, <1>9, <1>12
  <2>2. Len(e.text) + p2'.writeLit = n + w
    BY <1>1, <1>4, <1>10
  <2>3. LitsAt(L, p2'.upto - p2'.writeLit, p2'.writeLit, t, Len(e.text))
    <3>1. p2'.upto - p2'.writeLit = a + 1
      <4>1. p2.upto \in Int /\ w \in Int
        BY <1>4, Part2Facts
      <4> QED
        BY <1>1, <4>1
    <3>2. ASSUME NEW j \in 1..w - 1 PROVE L[a + 1 + j] = t[n + 1 + j]
      <4> HIDE DEF w, n, a
      <4>1. j + 1 \in 1..w /\ a + (j + 1) = a + 1 + j /\ n + (j + 1) = n + 1 + j
        BY <1>4
      <4> QED
        BY <1>3, <4>1 DEF LitsAt
    <3> HIDE DEF a, w, n
    <3> QED
      BY <1>1, <1>10, <3>1, <3>2 DEF LitsAt
  <2>4. p2'.st = "literal" => e.lit = p2'.writeLit
    BY <1>1, <1>3, <1>9
  <2>5. CASE p2.ending
    <3>1. p2'.ending /\ p2'.st \in {"literal"} /\ Len(e.text) + p2'.writeLit = Len(t)
      BY <1>1, <1>3, <1>12, <2>2, <2>5
    <3> QED
      BY <1>3, <1>9, <1>10, <2>1, <2>3, <2>4, <3>1 DEF InStep
  <2>6. CASE ~p2.ending
    <3>1. InMatch(t, d, p2) /\ ~p2'.ending
      BY <1>1, <1>3, <2>6
    <3>2. Distance(p2') = Distance(p2)
      BY <1>1, <2>1 DEF Distance
    <3>3. InMatch(t, e, p2')
      BY <1>1, <1>9, <2>1, <2>2, <3>1, <3>2 DEF InMatch
    <3> QED
      BY <1>3, <1>9, <1>10, <2>1, <2>3, <2>4, <3>1, <3>3 DEF InStep
  <2> QED
    BY <2>5, <2>6
<1> QED
  BY <1>11, <1>12

-----------------------------------------------------------------------------
(* A match of the text, copied where the text before it has been written. *)
LEMMA MatchCopied ==
    ASSUME NEW t \in Seq(Byte), NEW s, Begins(s, t), NEW n \in Int, NEW off \in Nat, off > 0,
           MatchAt(t, Len(s), n, off - 1)
    PROVE  /\ off \in 1..Len(s) /\ n - MinMatch \in Nat
           /\ Begins(Copy(s, off, n), t) /\ Len(Copy(s, off, n)) = Len(s) + n
<1>1. t \in Seq(Int) /\ Len(t) \in Nat /\ MinMatch \in Nat
  BY ByteSeq, ConstantTypes
<1>2. s \in Seq(Int) /\ Len(s) \in Nat
  BY DEF Begins
<1>3. n >= MinMatch /\ off - 1 < Len(s) /\ Len(s) + n < Len(t) /\ Repeats(t, Len(s), off - 1, n)
  BY DEF MatchAt
<1>4. off - 1 \in Nat /\ n \in Nat /\ Len(s) + n <= Len(t) /\ (off - 1) + 1 = off
  BY <1>1, <1>2, <1>3
<1>5. Begins(Copy(s, (off - 1) + 1, n), t) /\ Len(Copy(s, (off - 1) + 1, n)) = Len(s) + n
  BY <1>1, <1>3, <1>4, BeginsCopy
<1> QED
  BY <1>1, <1>2, <1>3, <1>4, <1>5

(* The two bytes of an offset. *)
LEMMA TwoBytes ==
    ASSUME NEW off \in Nat, NEW m \in Nat, m > 0, off < m * m
    PROVE  (off % m) + ((off \div m) % m) * m = off /\ (off \div m) % m \in Int
<1> DEFINE q == off \div m
           r == off % m
<1>1. off = q * m + r /\ r \in 0..m - 1 /\ q \in Int
  OBVIOUS
<1> HIDE DEF q, r
<1>2. q >= 0
  <2>1. ASSUME q <= -1 PROVE FALSE
    <3>1. q * m <= (-1) * m
      BY <1>1, <2>1
    <3> QED
      BY <1>1, <3>1
  <2> QED
    BY <1>1, <2>1
<1>3. q < m
  <2>1. ASSUME q >= m PROVE FALSE
    <3>1. q * m >= m * m
      BY <1>1, <2>1
    <3> DEFINE a == q * m
               b == m * m
    <3>2. a \in Int /\ b \in Int
      BY <1>1
    <3>3. off = a + r /\ off < b /\ a >= b
      BY <1>1, <3>1
    <3> HIDE DEF a, b
    <3> QED
      BY <1>1, <3>2, <3>3
  <2> QED
    BY <1>1, <2>1
<1>4. q % m = q
  BY <1>1, <1>2, <1>3
<1> DEFINE a == q * m
<1>5. r + a = off
  <2>1. a \in Int
    BY <1>1
  <2>2. off = a + r
    BY <1>1
  <2> HIDE DEF a
  <2> QED
    BY <1>1, <2>1, <2>2
<1>6. r + (q % m) * m = off /\ q % m \in Int
  BY <1>1, <1>4, <1>5
<1> QED
  BY <1>6 DEF q, r

LEMMA Offset1Fields ==
    ASSUME TypeOK, WriteOffset1
    PROVE  /\ p2.pc = "loop" /\ p2.st = "offset1" /\ p2'.csize = p2.csize /\ AfterByte(p2'.pc)
           /\ p2'.inIdx = p2.inIdx /\ p2'.ending = p2.ending /\ p2'.matchLen = p2.matchLen
           /\ p2'.writeLit = p2.writeLit /\ p2'.off = p2.off /\ p2'.extra = p2.extra
           /\ (p2'.fresh <=> ~p2.extra) /\ p2'.upto = p2.upto
           /\ p2'.st = IF p2.extra THEN "matchlen" ELSE "token"
           /\ p2'.out = (p2.off \div ByteBase) % ByteBase
<1>1. p2.pc = "loop" /\ p2.st = "offset1"
  BY DEF WriteOffset1, InState
<1>2. p2 \in P2Type /\ p2.extra \in BOOLEAN
  BY Part2Facts
<1> DEFINE st == IF p2.extra THEN "matchlen" ELSE "token"
           fresh == ~p2.extra
           b == (p2.off \div ByteBase) % ByteBase
<1>3. p2' = Emit([p2 EXCEPT !.st = st, !.fresh = fresh], b)
  BY DEF WriteOffset1
<1>4. fresh <=> ~p2.extra
  OBVIOUS
<1> HIDE DEF st, fresh, b
<1>5. /\ p2'.csize = p2.csize /\ AfterByte(p2'.pc)
      /\ p2'.inIdx = p2.inIdx /\ p2'.ending = p2.ending /\ p2'.matchLen = p2.matchLen
      /\ p2'.writeLit = p2.writeLit /\ p2'.off = p2.off /\ p2'.extra = p2.extra
      /\ p2'.upto = p2.upto /\ p2'.fresh = fresh /\ p2'.st = st /\ p2'.out = b
  BY <1>1, <1>2, <1>3 DEF Emit, P2Type, AfterByte
<1> QED
  BY <1>1, <1>4, <1>5 DEF st, b

LEMMA Offset1Step ==
    ASSUME TypeOK, NEW t, NEW L, NEW S, NEW end,
           Part1Inv(t, L, S, end), Part2Place(t, p2), WriteOffset1
    PROVE  Part1Inv(t, L, S, end)' /\ Part2Place(t, p2')
<1>1. p1' = p1 /\ recQ' = recQ /\ lenQ' = lenQ /\ litQ' = litQ /\ limit' = limit
  BY DEF WriteOffset1, P2Local, streams
<1>2. p2'.pc \in {"loop", "out", "eos"}
  BY Offset1Fields DEF AfterByte
<1> QED
  BY <1>1, <1>2, Offset1Fields, SameParse, SamePlace

(* What is in step before the bytes that may end a match. *)
LEMMA InMatchFacts ==
    ASSUME TypeOK, Accounting, NEW t, NEW L, NEW d, InStep(t, L, d, p2),
           p2.st \in {"offset1", "matchlen"}, NEW n, n = d.match + p2.matchLen + MinMatch
    PROVE  /\ d \in Decoder /\ d.ok /\ Begins(d.text, t) /\ d.st = p2.st /\ ~p2.ending /\ ~p2.fresh
           /\ p2.writeLit = 0 /\ LitsAt(L, p2.upto - p2.writeLit, p2.writeLit, t, Len(d.text))
           /\ Len(d.text) \in Nat /\ d.match \in Int /\ p2.matchLen \in Nat /\ n \in Int
           /\ MatchAt(t, Len(d.text), n, p2.off - 1) /\ p2.inIdx = Len(d.text) + n
           /\ p2.off \in Nat /\ p2.off > 0 /\ InMatch(t, d, p2)
<1>1. ~p2.fresh /\ p2.writeLit = 0
  <2>1. p2.writeLit \in Int
    BY Part2Facts
  <2> QED
    BY <2>1 DEF Accounting, Part2Control
<1>2. /\ d \in Decoder /\ d.ok /\ Begins(d.text, t) /\ d.st = p2.st /\ ~p2.ending
      /\ LitsAt(L, p2.upto - p2.writeLit, p2.writeLit, t, Len(d.text)) /\ InMatch(t, d, p2)
  BY <1>1 DEF InStep
<1>3. Len(d.text) \in Nat /\ d.match \in Int
  BY <1>2, DecoderFields
<1>4. p2.matchLen \in Nat /\ p2.off \in Nat /\ MinMatch \in Nat
  BY Part2Facts
<1>5. Len(d.text) + p2.writeLit = Len(d.text) /\ n \in Int
  BY <1>1, <1>3, <1>4
<1>6. MatchAt(t, Len(d.text), n, p2.off - 1) /\ p2.inIdx = Len(d.text) + n /\ p2.off > 0
  BY <1>2, <1>5 DEF InMatch, Distance
<1> QED
  BY <1>1, <1>2, <1>3, <1>4, <1>5, <1>6

LEMMA Offset1InStep ==
    ASSUME TypeOK, Accounting, NEW t, NEW L, Context(t, L), WriteOffset1,
           NEW d, InStep(t, L, d, p2), NEW e, e = DecodeByte(d, p2'.out)
    PROVE  InStep(t, L, e, p2')
<1> DEFINE n == d.match + p2.matchLen + MinMatch
           b == (p2.off \div ByteBase) % ByteBase
<1>1. /\ p2.st = "offset1" /\ p2'.inIdx = p2.inIdx /\ p2'.ending = p2.ending
      /\ p2'.matchLen = p2.matchLen /\ p2'.writeLit = p2.writeLit /\ p2'.off = p2.off
      /\ p2'.extra = p2.extra /\ (p2'.fresh <=> ~p2.extra) /\ p2'.upto = p2.upto
      /\ p2'.st = IF p2.extra THEN "matchlen" ELSE "token"
      /\ p2'.out = b
  BY Offset1Fields
<1>2. /\ d \in Decoder /\ d.ok /\ Begins(d.text, t) /\ d.st = p2.st /\ ~p2.ending
      /\ p2.writeLit = 0 /\ LitsAt(L, p2.upto - p2.writeLit, p2.writeLit, t, Len(d.text))
      /\ Len(d.text) \in Nat /\ d.match \in Int /\ p2.matchLen \in Nat /\ n \in Int
      /\ MatchAt(t, Len(d.text), n, p2.off - 1) /\ p2.inIdx = Len(d.text) + n
      /\ p2.off \in Nat /\ p2.off > 0 /\ InMatch(t, d, p2)
  BY <1>1, InMatchFacts
<1>3. /\ d.off = p2.off % ByteBase /\ (p2.extra <=> d.match = NibbleMax)
      /\ ~p2.extra => p2.matchLen = 0
  BY <1>1, <1>2 DEF InMatch
<1>4. d.off + b * ByteBase = p2.off /\ b \in Int
  <2>1. p2.off < ByteBase * ByteBase
    <3>1. (p2.off - 1) + 1 < ByteBase * ByteBase
      BY <1>2 DEF MatchAt
    <3>2. (p2.off - 1) + 1 = p2.off
      BY <1>2
    <3> QED
      BY <3>1, <3>2
  <2>2. ByteBase \in Nat /\ ByteBase > 0
    BY Part2Facts
  <2>3. (p2.off % ByteBase) + ((p2.off \div ByteBase) % ByteBase) * ByteBase = p2.off /\ b \in Int
    BY <1>2, <2>1, <2>2, TwoBytes
  <2> QED
    BY <1>3, <2>3
<1>5. e = DecodeByte(d, b) /\ d.st = "offset1" /\ p2.off \in Int
  BY <1>1, <1>2
<1> HIDE DEF b
<1>6. IF d.match = NibbleMax
      THEN /\ e \in Decoder /\ e.off = p2.off /\ e.match = d.match
           /\ e.text = d.text /\ e.ok = d.ok /\ e.st = "matchlen"
      ELSE p2.off \in 1..Len(d.text) /\ d.match \in Nat
             => /\ e \in Decoder /\ e.st = "token" /\ e.ok = d.ok
                /\ e.text = Copy(d.text, p2.off, d.match + MinMatch)
  BY <1>2, <1>4, <1>5, DecodeOffset1, ZenonT(30)
<1>7. CASE p2.extra
  <2>1. /\ e \in Decoder /\ e.off = p2.off /\ e.match = d.match
        /\ e.text = d.text /\ e.ok = d.ok /\ e.st = "matchlen" /\ p2'.st = "matchlen"
    BY <1>1, <1>3, <1>6, <1>7
  <2>2. Distance(p2') = Distance(p2)
    BY <1>1, <2>1 DEF Distance
  <2>3. InMatch(t, e, p2')
    BY <1>1, <1>2, <2>1, <2>2 DEF InMatch
  <2> QED
    BY <1>1, <1>2, <1>7, <2>1, <2>3 DEF InStep
<1>8. CASE ~p2.extra
  <2>1. n = d.match + MinMatch
    BY <1>2, <1>3, <1>8, ConstantTypes
  <2>2. /\ p2.off \in 1..Len(d.text) /\ n - MinMatch \in Nat
        /\ Begins(Copy(d.text, p2.off, n), t) /\ Len(Copy(d.text, p2.off, n)) = Len(d.text) + n
    <3>1. t \in Seq(Byte)
      BY DEF Context
    <3> HIDE DEF n
    <3> QED
      BY <1>2, <3>1, MatchCopied
  <2>3. d.match \in Nat
    BY <1>2, <2>1, <2>2, ConstantTypes
  <2>4. /\ e \in Decoder /\ e.st = "token" /\ e.ok = d.ok
        /\ e.text = Copy(d.text, p2.off, d.match + MinMatch)
    BY <1>3, <1>6, <1>8, <2>2, <2>3
  <2>5. Begins(e.text, t) /\ Len(e.text) = p2'.inIdx
    BY <1>1, <1>2, <2>1, <2>2, <2>4
  <2> QED
    BY <1>1, <1>2, <1>8, <2>4, <2>5 DEF InStep
<1> QED
  BY <1>7, <1>8

-----------------------------------------------------------------------------
LEMMA MatchLenFields ==
    ASSUME TypeOK, WriteMatchLen
    PROVE  /\ p2.pc = "loop" /\ p2.st = "matchlen" /\ p2'.csize = p2.csize /\ AfterByte(p2'.pc)
           /\ p2'.inIdx = p2.inIdx /\ p2'.ending = p2.ending
           /\ p2'.writeLit = p2.writeLit /\ p2'.off = p2.off /\ p2'.extra = p2.extra
           /\ p2'.upto = p2.upto
           /\ IF p2.matchLen >= ByteMax
              THEN /\ p2'.matchLen = p2.matchLen - ByteMax /\ p2'.st = "matchlen"
                   /\ p2'.fresh = p2.fresh /\ p2'.out = ByteMax
              ELSE p2'.st = "token" /\ p2'.fresh /\ p2'.out = p2.matchLen
<1>1. p2.pc = "loop" /\ p2.st = "matchlen"
  BY DEF WriteMatchLen, InState
<1>2. p2 \in P2Type
  BY Part2Facts
<1>3. CASE p2.matchLen >= ByteMax
  <2> DEFINE n == p2.matchLen - ByteMax
  <2>1. p2' = Emit([p2 EXCEPT !.matchLen = n], ByteMax)
    BY <1>3 DEF WriteMatchLen, FullByte, AfterFullByte
  <2> HIDE DEF n
  <2>2. /\ p2'.csize = p2.csize /\ AfterByte(p2'.pc)
        /\ p2'.inIdx = p2.inIdx /\ p2'.ending = p2.ending
        /\ p2'.writeLit = p2.writeLit /\ p2'.off = p2.off /\ p2'.extra = p2.extra
        /\ p2'.fresh = p2.fresh /\ p2'.upto = p2.upto
        /\ p2'.matchLen = n /\ p2'.st = p2.st /\ p2'.out = ByteMax
    BY <1>1, <1>2, <2>1 DEF Emit, P2Type, AfterByte
  <2> QED
    BY <1>1, <1>3, <2>2 DEF n
<1>4. CASE ~(p2.matchLen >= ByteMax)
  <2>1. p2' = Emit([p2 EXCEPT !.st = "token", !.fresh = TRUE], p2.matchLen)
    BY <1>4 DEF WriteMatchLen, FullByte
  <2> QED
    BY <1>1, <1>2, <1>4, <2>1 DEF Emit, P2Type, AfterByte
<1> QED
  BY <1>3, <1>4

LEMMA MatchLenStep ==
    ASSUME TypeOK, NEW t, NEW L, NEW S, NEW end,
           Part1Inv(t, L, S, end), Part2Place(t, p2), WriteMatchLen
    PROVE  Part1Inv(t, L, S, end)' /\ Part2Place(t, p2')
<1>1. p1' = p1 /\ recQ' = recQ /\ lenQ' = lenQ /\ litQ' = litQ /\ limit' = limit
  BY DEF WriteMatchLen, P2Local, streams
<1>2. p2'.pc \in {"loop", "out", "eos"}
  BY MatchLenFields DEF AfterByte
<1> QED
  BY <1>1, <1>2, MatchLenFields, SameParse, SamePlace

LEMMA MatchLenInStep ==
    ASSUME TypeOK, Accounting, NEW t, NEW L, Context(t, L), WriteMatchLen,
           NEW d, InStep(t, L, d, p2), NEW e, e = DecodeByte(d, p2'.out)
    PROVE  InStep(t, L, e, p2')
<1> DEFINE n == d.match + p2.matchLen + MinMatch
           b == p2'.out
           m == d.match + b
<1>1. /\ p2.st = "matchlen" /\ p2'.inIdx = p2.inIdx /\ p2'.ending = p2.ending
      /\ p2'.writeLit = p2.writeLit /\ p2'.off = p2.off
      /\ p2'.extra = p2.extra /\ p2'.upto = p2.upto
      /\ IF p2.matchLen >= ByteMax
         THEN /\ p2'.matchLen = p2.matchLen - ByteMax /\ p2'.st = "matchlen"
              /\ p2'.fresh = p2.fresh /\ b = ByteMax
         ELSE p2'.st = "token" /\ p2'.fresh /\ b = p2.matchLen
  BY MatchLenFields
<1>2. /\ d \in Decoder /\ d.ok /\ Begins(d.text, t) /\ d.st = p2.st /\ ~p2.ending /\ ~p2.fresh
      /\ p2.writeLit = 0 /\ LitsAt(L, p2.upto - p2.writeLit, p2.writeLit, t, Len(d.text))
      /\ Len(d.text) \in Nat /\ d.match \in Int /\ p2.matchLen \in Nat /\ n \in Int
      /\ MatchAt(t, Len(d.text), n, p2.off - 1) /\ p2.inIdx = Len(d.text) + n
      /\ p2.off \in Nat /\ p2.off > 0 /\ InMatch(t, d, p2)
  BY <1>1, InMatchFacts
<1>3. d.off = p2.off
  BY <1>1, <1>2 DEF InMatch
<1>4. b \in Int /\ m \in Int /\ ByteMax \in Nat /\ MinMatch \in Nat
  <2>1. b \in Int
    BY <1>1, <1>2, ConstantTypes
  <2> HIDE DEF b
  <2> QED
    BY <1>2, <2>1, ConstantTypes
<1>5. d.st = "matchlen" /\ e = DecodeByte(d, b) /\ m = d.match + b
  BY <1>1, <1>2
<1> HIDE DEF b, m
<1>6. IF b = ByteMax
      THEN /\ e \in Decoder /\ e.off = d.off /\ e.match = m
           /\ e.text = d.text /\ e.ok = d.ok /\ e.st = "matchlen"
      ELSE d.off \in 1..Len(d.text) /\ m \in Nat
             => /\ e \in Decoder /\ e.st = "token" /\ e.ok = d.ok
                /\ e.text = Copy(d.text, d.off, m + MinMatch)
  <2>1. d \in Decoder /\ d.st = "matchlen" /\ b \in Int /\ m \in Int
    BY <1>2, <1>4, <1>5
  <2>2. e = DecodeByte(d, b) /\ m = d.match + b
    BY <1>5
  <2> QED
    BY <2>1, <2>2, DecodeMatchLen, SMTT(30)
<1>7. CASE p2.matchLen >= ByteMax
  <2>1. /\ e \in Decoder /\ e.off = d.off /\ e.match = m
        /\ e.text = d.text /\ e.ok = d.ok /\ e.st = "matchlen" /\ p2'.st = "matchlen"
        /\ p2'.matchLen = p2.matchLen - ByteMax /\ p2'.fresh = p2.fresh
    BY <1>1, <1>6, <1>7
  <2>2. e.match + p2'.matchLen + MinMatch = n
    BY <1>1, <1>2, <1>4, <1>5, <1>7, <2>1
  <2>3. Distance(p2') = p2.off - 1 /\ Len(e.text) + p2'.writeLit = Len(d.text)
    BY <1>1, <1>2, <2>1 DEF Distance
  <2>4. InMatch(t, e, p2')
    <3> HIDE DEF n
    <3>1. p2'.off > 0 /\ e.off = p2'.off
      BY <1>1, <1>2, <1>3, <2>1
    <3> QED
      BY <1>1, <1>2, <2>1, <2>2, <2>3, <3>1 DEF InMatch
  <2> QED
    BY <1>1, <1>2, <2>1, <2>4 DEF InStep
<1>8. CASE ~(p2.matchLen >= ByteMax)
  <2>1. b = p2.matchLen /\ b # ByteMax /\ p2'.st = "token" /\ p2'.fresh
    BY <1>1, <1>2, <1>4, <1>8
  <2>2. m + MinMatch = n
    BY <1>2, <1>4, <1>5, <2>1
  <2>3. /\ p2.off \in 1..Len(d.text) /\ n - MinMatch \in Nat
        /\ Begins(Copy(d.text, p2.off, n), t) /\ Len(Copy(d.text, p2.off, n)) = Len(d.text) + n
    <3>1. t \in Seq(Byte)
      BY DEF Context
    <3> HIDE DEF n
    <3> QED
      BY <1>2, <3>1, MatchCopied
  <2>4. m \in Nat
    <3> HIDE DEF n
    <3> QED
      BY <1>2, <1>4, <2>2, <2>3
  <2>5. /\ e \in Decoder /\ e.st = "token" /\ e.ok = d.ok
        /\ e.text = Copy(d.text, p2.off, n)
    BY <1>3, <1>6, <2>1, <2>2, <2>3, <2>4
  <2>6. Begins(e.text, t) /\ Len(e.text) = p2'.inIdx
    BY <1>1, <1>2, <2>3, <2>5
  <2> QED
    BY <1>1, <1>2, <2>1, <2>5, <2>6 DEF InStep
<1> QED
  BY <1>7, <1>8

-----------------------------------------------------------------------------
(***************************************************************************)
(* The bytes out that Part2 has written are with the consumer or on their  *)
(* way to it, in order; E are those that count, the padding byte is not    *)
(* among them.  There is one end flag for each byte, and it is set for the *)
(* padding byte alone.                                                     *)
(***************************************************************************)
Wire ==
    (IF sink.pc = "flag" THEN Append(sink.bytes, sink.val) ELSE sink.bytes) \o outQ

Sizes(E) ==
    /\ E \in Seq(Int) /\ p2.csize <= size
    /\ p2.pc \in {"out", "eos"} => p2.csize < size
    /\ Len(E) = IF p2.pc \in {"out", "eos"} THEN p2.csize + 1 ELSE p2.csize
    /\ sizeQ = IF p2.pc \in {"pad", "end", "done"} /\ sink.pc # "done"
               THEN <<p2.csize>> ELSE << >>
OnTheWay(E) ==
    /\ p2.pc = "out" => E = Append(Wire, p2.out)
    /\ p2.pc \in {"loop", "eos", "pad"} => E = Wire
    /\ p2.pc \in {"end", "done"} => Append(E, 0) = Wire
Flags ==
    /\ Len(sink.bytes) <= p2.csize
    /\ Len(sink.bytes) + Len(eosQ) = IF p2.pc = "done" THEN p2.csize + 1 ELSE p2.csize
    /\ \A k \in 1..Len(eosQ) : eosQ[k] <=> p2.pc = "done" /\ k = Len(eosQ)
Received(E) ==
    /\ p2.pc = "done" /\ outQ = << >> /\ eosQ = << >> /\ sink.bytes = E
    /\ sink.pc = "done" => sink.total = p2.csize
Pipe(E) ==
    /\ Sizes(E)
    /\ IF sink.pc \in {"total", "done"} THEN Received(E) ELSE OnTheWay(E) /\ Flags

LEMMA HeadMoves ==
    ASSUME NEW s \in Seq(Int), NEW q \in Seq(Int), q # << >>
    PROVE  Append(s, Head(q)) \o Tail(q) = s \o q
<1> DEFINE a == Append(s, Head(q)) \o Tail(q)
           b == s \o q
<1>1. /\ a \in Seq(Int) /\ b \in Seq(Int) /\ Len(a) = Len(s) + Len(q) /\ Len(b) = Len(s) + Len(q)
      /\ Len(s) \in Nat /\ Len(q) \in Nat
  OBVIOUS
<1>2. ASSUME NEW k \in 1..Len(s) + Len(q) PROVE a[k] = b[k]
  OBVIOUS
<1> HIDE DEF a, b
<1>3. a = b
  BY <1>1, <1>2, SeqEqual
<1> QED
  BY <1>3 DEF a, b

LEMMA LastMoves ==
    ASSUME NEW s \in Seq(Int), NEW q \in Seq(Int), NEW b \in Int
    PROVE  s \o Append(q, b) = Append(s \o q, b)
<1> DEFINE u == s \o Append(q, b)
           v == Append(s \o q, b)
<1>1. /\ u \in Seq(Int) /\ v \in Seq(Int)
      /\ Len(u) = Len(s) + Len(q) + 1 /\ Len(v) = Len(s) + Len(q) + 1
      /\ Len(s) \in Nat /\ Len(q) \in Nat
  OBVIOUS
<1>2. ASSUME NEW k \in 1..Len(s) + Len(q) + 1 PROVE u[k] = v[k]
  OBVIOUS
<1> HIDE DEF u, v
<1>3. u = v
  BY <1>1, <1>2
<1> QED
  BY <1>3 DEF u, v

LEMMA SameFront ==
    ASSUME NEW s \in Seq(Int), NEW u \in Seq(Int), NEW b \in Int, NEW c \in Int,
           Append(s, b) = Append(u, c)
    PROVE  s = u
<1>1. Len(s) = Len(u) /\ Len(s) \in Nat
  OBVIOUS
<1>2. ASSUME NEW k \in 1..Len(s) PROVE s[k] = u[k]
  <2>1. \A q \in Seq(Int), e \in Int : \A j \in 1..Len(q) : Append(q, e)[j] = q[j]
    OBVIOUS
  <2>2. Append(s, b)[k] = s[k] /\ Append(u, c)[k] = u[k]
    <3>1. k \in 1..Len(u)
      BY <1>1
    <3> QED
      BY <2>1, <3>1
  <2> QED
    BY <2>2
<1> QED
  BY <1>1, <1>2, SeqEqual

LEMMA PipeFacts ==
    ASSUME TypeOK
    PROVE  /\ p2 \in P2Type /\ sink \in SinkType /\ size \in Nat
           /\ outQ \in Seq(Int) /\ eosQ \in Seq(BOOLEAN) /\ sizeQ \in Seq(Nat)
           /\ p2.csize \in Nat /\ p2.out \in Int
           /\ sink.bytes \in Seq(Int) /\ Len(sink.bytes) \in Nat /\ sink.val \in Int
<1>1. sink \in SinkType /\ sink.bytes \in Seq(Int) /\ sink.val \in Int
  BY DEF TypeOK, SinkType
<1>2. p2 \in P2Type /\ p2.csize \in Nat /\ p2.out \in Int
  BY DEF TypeOK, P2Type
<1> QED
  BY <1>1, <1>2 DEF TypeOK

LEMMA WireType == ASSUME TypeOK PROVE Wire \in Seq(Int)
<1>1. sink.bytes \in Seq(Int) /\ Append(sink.bytes, sink.val) \in Seq(Int) /\ outQ \in Seq(Int)
  BY PipeFacts
<1> DEFINE front == IF sink.pc = "flag" THEN Append(sink.bytes, sink.val) ELSE sink.bytes
<1>2. front \in Seq(Int)
  BY <1>1
<1>3. Wire = front \o outQ
  BY DEF Wire
<1> HIDE DEF front
<1> QED
  BY <1>1, <1>2, <1>3

(* Steps of the others. *)
LEMMA SamePipe ==
    ASSUME NEW E, Pipe(E), size' = size, p2' = p2, sink' = sink,
           outQ' = outQ, eosQ' = eosQ, sizeQ' = sizeQ
    PROVE  Pipe(E)'
BY DEF Pipe, Sizes, OnTheWay, Flags, Received, Wire

(* Part2 writes a byte, or counts it as one too many. *)
LEMMA EmitPipe ==
    ASSUME TypeOK, TypeOK', NEW E, Pipe(E), p2.pc = "loop", AfterByte(p2'.pc),
           p2'.csize = p2.csize, size' = size, sink' = sink,
           outQ' = outQ, eosQ' = eosQ, sizeQ' = sizeQ,
           NEW F, F = IF p2.csize < size THEN Append(E, p2'.out) ELSE E
    PROVE  Pipe(F)'
<1>1. sink.pc \notin {"total", "done"}
  BY DEF Pipe, Received
<1>2. /\ E \in Seq(Int) /\ p2.csize <= size /\ Len(E) = p2.csize /\ sizeQ = << >> /\ E = Wire /\ Flags
  BY <1>1 DEF Pipe, Sizes, OnTheWay
<1>3. p2'.out \in Int /\ p2.csize \in Nat
  BY PipeFacts DEF TypeOK, P2Type
<1>4. Wire' = Wire
  BY DEF Wire
<1>5. CASE p2.csize < size
  <2>1. p2'.pc = "out" /\ F = Append(E, p2'.out)
    BY <1>5 DEF AfterByte
  <2>2. F \in Seq(Int) /\ Len(F) = p2.csize + 1
    BY <1>2, <1>3, <2>1
  <2>3. Sizes(F)'
    BY <1>2, <1>5, <2>1, <2>2 DEF Sizes
  <2>4. OnTheWay(F)' /\ Flags'
    BY <1>2, <1>4, <2>1 DEF OnTheWay, Flags
  <2> QED
    BY <1>1, <2>3, <2>4 DEF Pipe
<1>6. CASE ~(p2.csize < size)
  <2>1. p2'.pc = "loop" /\ F = E
    BY <1>6 DEF AfterByte
  <2>2. Sizes(F)'
    BY <1>2, <2>1 DEF Sizes
  <2>3. OnTheWay(F)' /\ Flags'
    BY <1>2, <1>4, <2>1 DEF OnTheWay, Flags
  <2> QED
    BY <1>1, <2>2, <2>3 DEF Pipe
<1> QED
  BY <1>5, <1>6

LEMMA OutBytePipe == ASSUME TypeOK, NEW E, Pipe(E), OutByte PROVE Pipe(E)'
<1>1. /\ p2.pc = "out" /\ outQ' = Append(outQ, p2.out) /\ p2' = [p2 EXCEPT !.pc = "eos"]
      /\ size' = size /\ sink' = sink /\ eosQ' = eosQ /\ sizeQ' = sizeQ
  BY DEF OutByte
<1>2. p2'.pc = "eos" /\ p2'.csize = p2.csize
  BY <1>1, PipeFacts DEF P2Type
<1>3. sink.pc \notin {"total", "done"}
  BY <1>1 DEF Pipe, Received
<1>4. Sizes(E)'
  BY <1>1, <1>2 DEF Pipe, Sizes
<1>5. E = Append(Wire, p2.out) /\ Flags
  BY <1>1, <1>3 DEF Pipe, OnTheWay
<1>6. Wire' = Append(Wire, p2.out)
  <2> DEFINE front == IF sink.pc = "flag" THEN Append(sink.bytes, sink.val) ELSE sink.bytes
  <2>1. front \in Seq(Int) /\ outQ \in Seq(Int) /\ p2.out \in Int
    BY PipeFacts
  <2>2. Wire = front \o outQ /\ Wire' = front \o Append(outQ, p2.out)
    BY <1>1 DEF Wire
  <2> HIDE DEF front
  <2> QED
    BY <2>1, <2>2, LastMoves
<1>7. OnTheWay(E)' /\ Flags'
  BY <1>1, <1>2, <1>5, <1>6 DEF OnTheWay, Flags
<1> QED
  BY <1>1, <1>3, <1>4, <1>7 DEF Pipe

LEMMA OutEosPipe == ASSUME TypeOK, NEW E, Pipe(E), OutEos PROVE Pipe(E)'
<1>1. /\ p2.pc = "eos" /\ eosQ' = Append(eosQ, FALSE)
      /\ p2' = [p2 EXCEPT !.pc = "loop", !.csize = @ + 1]
      /\ size' = size /\ sink' = sink /\ outQ' = outQ /\ sizeQ' = sizeQ
  BY DEF OutEos
<1>2. p2'.pc = "loop" /\ p2'.csize = p2.csize + 1
  BY <1>1, PipeFacts DEF P2Type
<1>3. sink.pc \notin {"total", "done"}
  BY <1>1 DEF Pipe, Received
<1>4. Sizes(E)'
  <2>1. E \in Seq(Int) /\ p2.csize < size /\ Len(E) = p2.csize + 1 /\ sizeQ = << >>
    BY <1>1 DEF Pipe, Sizes
  <2>2. p2.csize + 1 <= size
    BY <2>1, PipeFacts
  <2> QED
    BY <1>1, <1>2, <2>1, <2>2 DEF Sizes
<1>5. E = Wire /\ Flags
  BY <1>1, <1>3 DEF Pipe, OnTheWay
<1>6. Wire' = Wire
  BY <1>1 DEF Wire
<1>7. OnTheWay(E)'
  BY <1>2, <1>5, <1>6 DEF OnTheWay
<1>8. Flags'
  <2>1. /\ Len(sink.bytes) <= p2.csize /\ Len(sink.bytes) + Len(eosQ) = p2.csize
        /\ \A k \in 1..Len(eosQ) : ~eosQ[k]
    BY <1>1, <1>5 DEF Flags
  <2>2. /\ Len(eosQ) \in Nat /\ Len(eosQ') = Len(eosQ) + 1 /\ eosQ'[Len(eosQ) + 1] = FALSE
        /\ \A k \in 1..Len(eosQ) : eosQ'[k] = eosQ[k]
    BY <1>1, PipeFacts
  <2>3. ASSUME NEW k \in 1..Len(eosQ') PROVE ~eosQ'[k]
    BY <2>1, <2>2
  <2>4. /\ Len(sink.bytes) <= p2.csize + 1
        /\ Len(sink.bytes) + Len(eosQ') = p2.csize + 1
    <3> DEFINE a == Len(sink.bytes)
               b == Len(eosQ)
               c == p2.csize
               d == Len(eosQ')
    <3>1. a \in Nat /\ c \in Nat
      BY PipeFacts
    <3>2. b \in Nat /\ d = b + 1 /\ a <= c /\ a + b = c
      BY <2>1, <2>2
    <3> HIDE DEF a, b, c, d
    <3>3. a <= c + 1 /\ a + d = c + 1
      BY <3>1, <3>2
    <3> QED
      BY <3>3 DEF a, c, d
  <2> QED
    BY <1>1, <1>2, <2>3, <2>4 DEF Flags
<1> QED
  BY <1>1, <1>3, <1>4, <1>7, <1>8 DEF Pipe

LEMMA OutSizePipe == ASSUME TypeOK, NEW E, Pipe(E), OutSize PROVE Pipe(E)'
<1>1. /\ p2.pc = "loop" /\ sizeQ' = Append(sizeQ, p2.csize) /\ p2' = [p2 EXCEPT !.pc = "pad"]
      /\ size' = size /\ sink' = sink /\ outQ' = outQ /\ eosQ' = eosQ
  BY DEF OutSize
<1>2. p2'.pc = "pad" /\ p2'.csize = p2.csize
  BY <1>1, PipeFacts DEF P2Type
<1>3. sink.pc \notin {"total", "done"}
  BY <1>1 DEF Pipe, Received
<1>4. Sizes(E)'
  <2>1. E \in Seq(Int) /\ p2.csize <= size /\ Len(E) = p2.csize /\ sizeQ = << >>
    BY <1>1 DEF Pipe, Sizes
  <2>2. Append(<< >>, p2.csize) = <<p2.csize>>
    OBVIOUS
  <2> QED
    BY <1>1, <1>2, <1>3, <2>1, <2>2 DEF Sizes
<1>5. E = Wire /\ Flags
  BY <1>1, <1>3 DEF Pipe, OnTheWay
<1>6. Wire' = Wire
  BY <1>1 DEF Wire
<1>7. OnTheWay(E)' /\ Flags'
  BY <1>1, <1>2, <1>5, <1>6 DEF OnTheWay, Flags
<1> QED
  BY <1>1, <1>3, <1>4, <1>7 DEF Pipe

LEMMA OutPadPipe == ASSUME TypeOK, NEW E, Pipe(E), OutPad PROVE Pipe(E)'
<1>1. /\ p2.pc = "pad" /\ outQ' = Append(outQ, 0) /\ p2' = [p2 EXCEPT !.pc = "end"]
      /\ size' = size /\ sink' = sink /\ eosQ' = eosQ /\ sizeQ' = sizeQ
  BY DEF OutPad
<1>2. p2'.pc = "end" /\ p2'.csize = p2.csize
  BY <1>1, PipeFacts DEF P2Type
<1>3. sink.pc \notin {"total", "done"}
  BY <1>1 DEF Pipe, Received
<1>4. Sizes(E)'
  BY <1>1, <1>2, <1>3 DEF Pipe, Sizes
<1>5. E = Wire /\ Flags
  BY <1>1, <1>3 DEF Pipe, OnTheWay
<1>6. Wire' = Append(Wire, 0)
  <2> DEFINE front == IF sink.pc = "flag" THEN Append(sink.bytes, sink.val) ELSE sink.bytes
  <2>1. front \in Seq(Int) /\ outQ \in Seq(Int)
    BY PipeFacts
  <2>2. Wire = front \o outQ /\ Wire' = front \o Append(outQ, 0)
    BY <1>1 DEF Wire
  <2> HIDE DEF front
  <2> QED
    BY <2>1, <2>2, LastMoves
<1>7. OnTheWay(E)' /\ Flags'
  BY <1>1, <1>2, <1>5, <1>6 DEF OnTheWay, Flags
<1> QED
  BY <1>1, <1>3, <1>4, <1>7 DEF Pipe

LEMMA OutEndPipe == ASSUME TypeOK, NEW E, Pipe(E), OutEnd PROVE Pipe(E)'
<1>1. /\ p2.pc = "end" /\ eosQ' = Append(eosQ, TRUE) /\ p2' = [p2 EXCEPT !.pc = "done"]
      /\ size' = size /\ sink' = sink /\ outQ' = outQ /\ sizeQ' = sizeQ
  BY DEF OutEnd
<1>2. p2'.pc = "done" /\ p2'.csize = p2.csize
  BY <1>1, PipeFacts DEF P2Type
<1>3. sink.pc \notin {"total", "done"}
  BY <1>1 DEF Pipe, Received
<1>4. Sizes(E)'
  BY <1>1, <1>2, <1>3 DEF Pipe, Sizes
<1>5. Append(E, 0) = Wire /\ Flags
  BY <1>1, <1>3 DEF Pipe, OnTheWay
<1>6. Wire' = Wire
  BY <1>1 DEF Wire
<1>7. OnTheWay(E)'
  BY <1>2, <1>5, <1>6 DEF OnTheWay
<1>8. Flags'
  <2>1. /\ Len(sink.bytes) <= p2.csize /\ Len(sink.bytes) + Len(eosQ) = p2.csize
        /\ \A k \in 1..Len(eosQ) : ~eosQ[k]
    BY <1>1, <1>5 DEF Flags
  <2>2. /\ Len(eosQ) \in Nat /\ Len(eosQ') = Len(eosQ) + 1 /\ eosQ'[Len(eosQ) + 1] = TRUE
        /\ \A k \in 1..Len(eosQ) : eosQ'[k] = eosQ[k]
    BY <1>1, PipeFacts
  <2>3. ASSUME NEW k \in 1..Len(eosQ') PROVE eosQ'[k] <=> k = Len(eosQ')
    BY <2>1, <2>2
  <2>4. Len(sink.bytes) + Len(eosQ') = p2.csize + 1
    <3> DEFINE a == Len(sink.bytes)
               b == Len(eosQ)
               c == p2.csize
               d == Len(eosQ')
    <3>1. a \in Nat /\ c \in Nat
      BY PipeFacts
    <3>2. b \in Nat /\ d = b + 1 /\ a <= c /\ a + b = c
      BY <2>1, <2>2
    <3> HIDE DEF a, b, c, d
    <3>3. a <= c + 1 /\ a + d = c + 1
      BY <3>1, <3>2
    <3> QED
      BY <3>3 DEF a, c, d
  <2> QED
    BY <1>1, <1>2, <2>1, <2>3, <2>4 DEF Flags
<1> QED
  BY <1>1, <1>3, <1>4, <1>7, <1>8 DEF Pipe

-----------------------------------------------------------------------------
LEMMA SinkDataPipe == ASSUME TypeOK, NEW E, Pipe(E), SinkData PROVE Pipe(E)'
<1>1. /\ sink.pc = "data" /\ outQ # << >> /\ outQ' = Tail(outQ)
      /\ sink' = [sink EXCEPT !.pc = "flag", !.val = Head(outQ)]
      /\ size' = size /\ p2' = p2 /\ eosQ' = eosQ /\ sizeQ' = sizeQ
  BY DEF SinkData
<1>2. sink'.pc = "flag" /\ sink'.val = Head(outQ) /\ sink'.bytes = sink.bytes
  BY <1>1, PipeFacts DEF SinkType
<1>3. Wire' = Wire
  <2>1. Wire = sink.bytes \o outQ /\ Wire' = Append(sink.bytes, Head(outQ)) \o Tail(outQ)
    BY <1>1, <1>2 DEF Wire
  <2>2. sink.bytes \in Seq(Int) /\ outQ \in Seq(Int)
    BY PipeFacts
  <2> QED
    BY <1>1, <2>1, <2>2, HeadMoves
<1>4. Sizes(E) /\ OnTheWay(E) /\ Flags
  BY <1>1 DEF Pipe
<1>5. Sizes(E)' /\ OnTheWay(E)' /\ Flags'
  BY <1>1, <1>2, <1>3, <1>4 DEF Sizes, OnTheWay, Flags
<1> QED
  BY <1>2, <1>5 DEF Pipe

LEMMA SinkFlagPipe == ASSUME TypeOK, NEW E, Pipe(E), SinkFlag PROVE Pipe(E)'
<1>1. /\ sink.pc = "flag" /\ eosQ # << >> /\ eosQ' = Tail(eosQ)
      /\ size' = size /\ p2' = p2 /\ outQ' = outQ /\ sizeQ' = sizeQ
  BY DEF SinkFlag
<1>2. Sizes(E) /\ OnTheWay(E) /\ Flags
  BY <1>1 DEF Pipe
<1> DEFINE a == Len(sink.bytes)
           n == Len(eosQ)
           c == p2.csize
           over == IF p2.pc = "done" THEN c + 1 ELSE c
<1>3. a \in Nat /\ c \in Nat /\ over \in Nat
  BY PipeFacts
<1>4. /\ n \in Nat /\ n > 0 /\ Head(eosQ) = eosQ[1] /\ Head(eosQ) \in BOOLEAN
      /\ Len(eosQ') = n - 1 /\ \A k \in 1..n - 1 : eosQ'[k] = eosQ[k + 1]
  BY <1>1, PipeFacts
<1>5. /\ a <= c /\ a + n = over
      /\ \A k \in 1..n : eosQ[k] <=> p2.pc = "done" /\ k = n
  BY <1>2 DEF Flags
<1>h. Head(eosQ) <=> p2.pc = "done" /\ n = 1
  <2>1. 1 \in 1..n
    BY <1>4
  <2>2. eosQ[1] <=> p2.pc = "done" /\ 1 = n
    BY <1>5, <2>1
  <2> HIDE DEF n
  <2> QED
    BY <1>4, <2>2
<1>6. Wire = Append(sink.bytes, sink.val) \o outQ
  BY <1>1 DEF Wire
<1>7. sink.bytes \in Seq(Int) /\ outQ \in Seq(Int) /\ sink.val \in Int /\ E \in Seq(Int)
  BY <1>2, PipeFacts DEF Sizes
<1>8. CASE Head(eosQ)
  <2>1. p2.pc = "done" /\ n = 1
    BY <1>h, <1>8
  <2>2. a = c
    BY <1>3, <1>5, <2>1
  <2>3. sink' = [sink EXCEPT !.pc = "total"]
    BY <1>8 DEF SinkFlag
  <2>4. sink'.pc = "total" /\ sink'.bytes = sink.bytes
    BY <2>3, PipeFacts DEF SinkType
  <2>5. Append(E, 0) = Append(sink.bytes, sink.val) \o outQ /\ Len(E) = c
    BY <1>2, <1>6, <2>1 DEF OnTheWay, Sizes
  <2>6. outQ = << >>
    <3> DEFINE u == Append(E, 0)
               v == Append(sink.bytes, sink.val)
    <3>1. Len(u) = c + 1 /\ v \in Seq(Int) /\ Len(v) = a + 1
      <4>1. Len(u) = Len(E) + 1
        BY <1>7
      <4>2. v \in Seq(Int) /\ Len(v) = a + 1
        BY <1>7
      <4> QED
        BY <2>5, <4>1, <4>2
    <3>2. Len(u) = Len(v) + Len(outQ) /\ Len(outQ) \in Nat
      <4>1. Len(v \o outQ) = Len(v) + Len(outQ) /\ Len(outQ) \in Nat
        BY <1>7, <3>1
      <4> QED
        BY <2>5, <4>1
    <3> HIDE DEF a, c
    <3>3. Len(outQ) = 0
      BY <1>3, <2>2, <3>1, <3>2
    <3> QED
      BY <1>7, <3>3
  <2>7. sink.bytes = E
    <3>1. Append(sink.bytes, sink.val) \o << >> = Append(sink.bytes, sink.val)
      BY <1>7
    <3>2. Append(E, 0) = Append(sink.bytes, sink.val)
      BY <2>5, <2>6, <3>1
    <3> QED
      BY <1>7, <3>2, SameFront
  <2>8. eosQ' = << >>
    <3>1. Len(eosQ') = 0 /\ eosQ' \in Seq(BOOLEAN)
      BY <1>1, <1>4, <2>1, PipeFacts
    <3> QED
      BY <3>1
  <2>9. Sizes(E)'
    BY <1>1, <1>2, <2>4 DEF Sizes
  <2>10. Received(E)'
    BY <1>1, <2>1, <2>4, <2>6, <2>7, <2>8 DEF Received
  <2> QED
    BY <2>4, <2>9, <2>10 DEF Pipe
<1>9. CASE ~Head(eosQ)
  <2>1. sink' = [sink EXCEPT !.pc = "data", !.bytes = Append(sink.bytes, sink.val)]
    BY <1>9 DEF SinkFlag
  <2>2. sink'.pc = "data" /\ sink'.bytes = Append(sink.bytes, sink.val)
    BY <2>1, PipeFacts DEF SinkType
  <2>3. Wire' = Wire
    BY <1>1, <1>6, <2>2 DEF Wire
  <2>4. ~(p2.pc = "done" /\ n = 1)
    BY <1>h, <1>9
  <2>5. Len(sink'.bytes) = a + 1
    BY <1>7, <2>2
  <2>6. a + 1 <= c /\ (a + 1) + (n - 1) = over
    <3>1. CASE p2.pc = "done"
      BY <1>3, <1>4, <1>5, <2>4, <3>1
    <3>2. CASE p2.pc # "done"
      BY <1>3, <1>4, <1>5, <3>2
    <3> QED
      BY <3>1, <3>2
  <2>7. ASSUME NEW k \in 1..n - 1 PROVE eosQ'[k] <=> p2.pc = "done" /\ k = n - 1
    <3>1. k + 1 \in 1..n /\ (k + 1 = n <=> k = n - 1)
      BY <1>4
    <3> QED
      BY <1>4, <1>5, <3>1
  <2>8. Flags'
    BY <1>1, <1>4, <2>5, <2>6, <2>7 DEF Flags
  <2>9. Sizes(E)' /\ OnTheWay(E)'
    BY <1>1, <1>2, <2>2, <2>3 DEF Sizes, OnTheWay
  <2> QED
    BY <2>2, <2>8, <2>9 DEF Pipe
<1> QED
  BY <1>4, <1>8, <1>9

LEMMA SinkTotalPipe == ASSUME TypeOK, NEW E, Pipe(E), SinkTotal PROVE Pipe(E)'
<1>1. /\ sink.pc = "total" /\ sizeQ # << >> /\ sizeQ' = Tail(sizeQ)
      /\ sink' = [sink EXCEPT !.pc = "done", !.total = Head(sizeQ)]
      /\ size' = size /\ p2' = p2 /\ outQ' = outQ /\ eosQ' = eosQ
  BY DEF SinkTotal
<1>2. sink'.pc = "done" /\ sink'.total = Head(sizeQ) /\ sink'.bytes = sink.bytes
  BY <1>1, PipeFacts DEF SinkType
<1>3. Sizes(E) /\ Received(E)
  BY <1>1 DEF Pipe
<1>4. sizeQ = <<p2.csize>>
  BY <1>1, <1>3 DEF Sizes, Received
<1>5. sink'.total = p2.csize /\ sizeQ' = << >>
  BY <1>1, <1>2, <1>4
<1>6. Sizes(E)'
  BY <1>1, <1>2, <1>3, <1>5 DEF Sizes
<1>7. Received(E)'
  BY <1>1, <1>2, <1>3, <1>5 DEF Received
<1> QED
  BY <1>2, <1>6, <1>7 DEF Pipe

-----------------------------------------------------------------------------
(* A call in progress on a block with text t.  Once the output is as long  *)
(* as the input, or the limit is hit, the bytes written do not matter.     *)
Working(t, L, E, S, end) ==
    /\ Context(t, L) /\ Part1Inv(t, L, S, end) /\ Part2Place(t, p2) /\ Pipe(E)
    /\ ~limit /\ p2.csize < size => InStep(t, L, Decoded(E), p2)

LEMMA SameContext ==
    ASSUME NEW t, NEW L, Context(t, L), p1'.pc # "idle", p2'.pc # "idle", sink'.pc # "idle",
           session' = session, size' = size, answers' = answers, NEW M \in [Int -> Byte]
    PROVE  Context(t, M)'
BY DEF Context

LEMMA SameInStep ==
    ASSUME NEW t, NEW L, NEW d, InStep(t, L, d, p2), p2'.st = p2.st, p2'.litLen = p2.litLen,
           p2'.matchLen = p2.matchLen, p2'.writeLit = p2.writeLit, p2'.off = p2.off,
           p2'.ending = p2.ending, p2'.extra = p2.extra, p2'.fresh = p2.fresh,
           p2'.inIdx = p2.inIdx, p2'.upto = p2.upto
    PROVE  InStep(t, L, d, p2')
BY DEF InStep, InMatch, Distance

(* A byte is written. *)
LEMMA EmitWorking ==
    ASSUME TypeOK, TypeOK', NEW t, NEW L, NEW E, NEW S, NEW end, Working(t, L, E, S, end),
           p2.pc = "loop", AfterByte(p2'.pc), p2'.csize = p2.csize,
           session' = session, size' = size, limit' = limit, answers' = answers,
           p1' = p1, sink' = sink, outQ' = outQ, eosQ' = eosQ, sizeQ' = sizeQ,
           Part1Inv(t, L, S, end)', Part2Place(t, p2'),
           NEW e, e = DecodeByte(Decoded(E), p2'.out),
           ~limit /\ p2.csize < size => InStep(t, L, e, p2'),
           NEW F, F = IF p2.csize < size THEN Append(E, p2'.out) ELSE E
    PROVE  Working(t, L, F, S, end)'
<1>1. Pipe(F)'
  BY EmitPipe DEF Working
<1>2. Context(t, L)'
  <2>1. p2'.pc # "idle" /\ p1.pc # "idle" /\ sink.pc # "idle" /\ L \in [Int -> Byte]
    BY DEF AfterByte, Working, Context
  <2>2. Context(t, L)
    BY DEF Working
  <2> QED
    BY <2>1, <2>2, SameContext
<1>3. ASSUME ~limit', p2'.csize < size' PROVE InStep(t, L, Decoded(F), p2')
  <2>1. ~limit /\ p2.csize < size
    BY <1>3
  <2>2. InStep(t, L, e, p2') /\ F = Append(E, p2'.out)
    BY <2>1
  <2>3. E \in Seq(Int) /\ p2'.out \in Int
    BY DEF Working, Pipe, Sizes, TypeOK, P2Type
  <2>4. Decoded(F) = e
    BY <2>2, <2>3, DecodedMore
  <2> QED
    BY <2>2, <2>4
<1> QED
  BY <1>1, <1>2, <1>3 DEF Working

LEMMA WriteWorking ==
    ASSUME TypeOK, TypeOK', Accounting, NEW t, NEW L, NEW E, NEW S, NEW end,
           Working(t, L, E, S, end),
           \/ WriteToken \/ WriteLitLen \/ WriteLiteral
           \/ WriteOffset0 \/ WriteOffset1 \/ WriteMatchLen
    PROVE  \E F : Working(t, L, F, S, end)'
<1> DEFINE e == DecodeByte(Decoded(E), p2'.out)
           F == IF p2.csize < size THEN Append(E, p2'.out) ELSE E
<1>1. /\ Context(t, L) /\ Part1Inv(t, L, S, end) /\ Part2Place(t, p2)
      /\ ~limit /\ p2.csize < size => InStep(t, L, Decoded(E), p2)
  BY DEF Working
<1>2. /\ session' = session /\ size' = size /\ limit' = limit /\ answers' = answers
      /\ p1' = p1 /\ sink' = sink /\ outQ' = outQ /\ eosQ' = eosQ /\ sizeQ' = sizeQ
  BY DEF WriteToken, WriteLitLen, WriteLiteral, WriteOffset0, WriteOffset1, WriteMatchLen,
         P2Local, streams
<1>3. /\ p2.pc = "loop" /\ AfterByte(p2'.pc) /\ p2'.csize = p2.csize
      /\ Part1Inv(t, L, S, end)' /\ Part2Place(t, p2')
      /\ ~limit /\ p2.csize < size => InStep(t, L, e, p2')
  <2>1. CASE WriteToken
    <3>1. p2.pc = "loop" /\ AfterByte(p2'.pc) /\ p2'.csize = p2.csize
      BY <2>1, TokenFields
    <3>2. Part1Inv(t, L, S, end)' /\ Part2Place(t, p2')
      BY <1>1, <2>1, TokenStep
    <3>3. ASSUME ~limit, p2.csize < size PROVE InStep(t, L, e, p2')
      BY <1>1, <2>1, <3>3, TokenInStep
    <3> QED
      BY <3>1, <3>2, <3>3
  <2>2. CASE WriteLitLen
    <3>1. p2.pc = "loop" /\ AfterByte(p2'.pc) /\ p2'.csize = p2.csize
      BY <2>2, LitLenFields
    <3>2. Part1Inv(t, L, S, end)' /\ Part2Place(t, p2')
      BY <1>1, <2>2, LitLenStep
    <3>3. ASSUME ~limit, p2.csize < size PROVE InStep(t, L, e, p2')
      BY <1>1, <2>2, <3>3, LitLenInStep
    <3> QED
      BY <3>1, <3>2, <3>3
  <2>3. CASE WriteLiteral
    <3>1. p2.pc = "loop" /\ AfterByte(p2'.pc) /\ p2'.csize = p2.csize
      BY <2>3, LiteralFields
    <3>2. Part1Inv(t, L, S, end)' /\ Part2Place(t, p2')
      BY <1>1, <2>3, LiteralOut
    <3>3. ASSUME ~limit, p2.csize < size PROVE InStep(t, L, e, p2')
      BY <1>1, <2>3, <3>3, LiteralInStep
    <3> QED
      BY <3>1, <3>2, <3>3
  <2>4. CASE WriteOffset0
    <3>1. p2.pc = "loop" /\ AfterByte(p2'.pc) /\ p2'.csize = p2.csize
      BY <2>4, Offset0Fields
    <3>2. Part1Inv(t, L, S, end)' /\ Part2Place(t, p2')
      BY <1>1, <2>4, Offset0Step
    <3>3. ASSUME ~limit, p2.csize < size PROVE InStep(t, L, e, p2')
      BY <1>1, <2>4, <3>3, Offset0InStep
    <3> QED
      BY <3>1, <3>2, <3>3
  <2>5. CASE WriteOffset1
    <3>1. p2.pc = "loop" /\ AfterByte(p2'.pc) /\ p2'.csize = p2.csize
      BY <2>5, Offset1Fields
    <3>2. Part1Inv(t, L, S, end)' /\ Part2Place(t, p2')
      BY <1>1, <2>5, Offset1Step
    <3>3. ASSUME ~limit, p2.csize < size PROVE InStep(t, L, e, p2')
      BY <1>1, <2>5, <3>3, Offset1InStep
    <3> QED
      BY <3>1, <3>2, <3>3
  <2>6. CASE WriteMatchLen
    <3>1. p2.pc = "loop" /\ AfterByte(p2'.pc) /\ p2'.csize = p2.csize
      BY <2>6, MatchLenFields
    <3>2. Part1Inv(t, L, S, end)' /\ Part2Place(t, p2')
      BY <1>1, <2>6, MatchLenStep
    <3>3. ASSUME ~limit, p2.csize < size PROVE InStep(t, L, e, p2')
      BY <1>1, <2>6, <3>3, MatchLenInStep
    <3> QED
      BY <3>1, <3>2, <3>3
  <2> QED
    BY <2>1, <2>2, <2>3, <2>4, <2>5, <2>6
<1>4. ASSUME NEW g, g = e, NEW G, G = F PROVE Working(t, L, G, S, end)'
  BY <1>2, <1>3, <1>4, EmitWorking
<1> QED
  BY <1>4

-----------------------------------------------------------------------------
(* The bytes on their way move on. *)
LEMMA OutPlace ==
    ASSUME TypeOK, NEW t, NEW L, Context(t, L), Part2Place(t, p2),
           OutByte \/ OutEos \/ OutSize \/ OutPad \/ OutEnd
    PROVE  Part2Place(t, p2')
<1>1. CASE OutByte \/ OutEos
  <2>1. p2'.pc \in {"loop", "eos"} /\ p2'.inIdx = p2.inIdx /\ p2'.ending = p2.ending
    BY <1>1, Part2Facts DEF OutByte, OutEos, P2Type
  <2> QED
    BY <2>1, SamePlace
<1>2. CASE OutSize
  <2>1. p2' = [p2 EXCEPT !.pc = "pad"] /\ ~LoopAgain
    BY <1>2 DEF OutSize
  <2>2. p2'.pc = "pad" /\ p2'.inIdx = p2.inIdx /\ p2'.ending = p2.ending
    BY <2>1, Part2Facts DEF P2Type
  <2>3. p2.inIdx >= Len(t)
    <3>1. p2.inIdx \in Int /\ size \in Nat /\ size = Len(t)
      BY Part2Facts DEF Context
    <3> QED
      BY <2>1, <3>1 DEF LoopAgain
  <2> QED
    BY <2>2, <2>3 DEF Part2Place
<1>3. CASE OutPad \/ OutEnd
  <2>1. p2.pc \in {"pad", "end"} /\ p2'.inIdx = p2.inIdx /\ p2'.ending = p2.ending
    BY <1>3, Part2Facts DEF OutPad, OutEnd, P2Type
  <2> QED
    BY <2>1 DEF Part2Place
<1> QED
  BY <1>1, <1>2, <1>3

LEMMA OutWorking ==
    ASSUME TypeOK, NEW t, NEW L, NEW E, NEW S, NEW end, Working(t, L, E, S, end),
           OutByte \/ OutEos \/ OutSize \/ OutPad \/ OutEnd
    PROVE  Working(t, L, E, S, end)'
<1>1. /\ Context(t, L) /\ Part1Inv(t, L, S, end) /\ Part2Place(t, p2) /\ Pipe(E)
      /\ ~limit /\ p2.csize < size => InStep(t, L, Decoded(E), p2)
  BY DEF Working
<1>2. /\ session' = session /\ size' = size /\ limit' = limit /\ answers' = answers /\ p1' = p1
      /\ sink' = sink /\ recQ' = recQ /\ litQ' = litQ /\ lenQ' = lenQ
  BY DEF OutByte, OutEos, OutSize, OutPad, OutEnd
<1>3. /\ p2'.inIdx = p2.inIdx /\ p2'.st = p2.st /\ p2'.litLen = p2.litLen
      /\ p2'.matchLen = p2.matchLen /\ p2'.writeLit = p2.writeLit /\ p2'.off = p2.off
      /\ p2'.ending = p2.ending /\ p2'.extra = p2.extra /\ p2'.fresh = p2.fresh
      /\ p2'.upto = p2.upto /\ p2'.pc # "idle" /\ p2'.csize \in {p2.csize, p2.csize + 1}
  BY Part2Facts DEF OutByte, OutEos, OutSize, OutPad, OutEnd, P2Type
<1>4. Context(t, L)'
  <2>1. p1.pc # "idle" /\ sink.pc # "idle" /\ L \in [Int -> Byte]
    BY <1>1 DEF Context
  <2> QED
    BY <1>1, <1>2, <1>3, <2>1, SameContext
<1>5. Part1Inv(t, L, S, end)'
  BY <1>1, <1>2, <1>3, SameParse
<1>6. Part2Place(t, p2')
  BY <1>1, OutPlace
<1>7. Pipe(E)'
  BY <1>1, OutBytePipe, OutEosPipe, OutSizePipe, OutPadPipe, OutEndPipe
<1>8. ASSUME ~limit', p2'.csize < size' PROVE InStep(t, L, Decoded(E), p2')
  <2>1. p2.csize < size
    <3>1. p2.csize \in Nat /\ size \in Nat
      BY Part2Facts
    <3> QED
      BY <1>2, <1>3, <1>8, <3>1
  <2>2. InStep(t, L, Decoded(E), p2)
    BY <1>1, <1>2, <1>8, <2>1
  <2> QED
    BY <1>3, <2>2, SameInStep
<1> QED
  BY <1>4, <1>5, <1>6, <1>7, <1>8 DEF Working

LEMMA SinkWorking ==
    ASSUME TypeOK, NEW t, NEW L, NEW E, NEW S, NEW end, Working(t, L, E, S, end), Sink
    PROVE  Working(t, L, E, S, end)'
<1>1. /\ Context(t, L) /\ Part1Inv(t, L, S, end) /\ Part2Place(t, p2) /\ Pipe(E)
      /\ ~limit /\ p2.csize < size => InStep(t, L, Decoded(E), p2)
  BY DEF Working
<1>2. /\ session' = session /\ size' = size /\ limit' = limit /\ answers' = answers /\ p1' = p1
      /\ p2' = p2 /\ recQ' = recQ /\ litQ' = litQ /\ lenQ' = lenQ
  BY DEF Sink, SinkData, SinkFlag, SinkTotal
<1>3. sink'.pc # "idle"
  BY PipeFacts DEF Sink, SinkData, SinkFlag, SinkTotal, SinkType
<1>4. Context(t, L)'
  <2>1. p1.pc # "idle" /\ p2.pc # "idle" /\ L \in [Int -> Byte]
    BY <1>1 DEF Context
  <2> QED
    BY <1>1, <1>2, <1>3, <2>1, SameContext
<1>5. Part1Inv(t, L, S, end)'
  BY <1>1, <1>2, SameParse
<1>6. Pipe(E)'
  BY <1>1, SinkDataPipe, SinkFlagPipe, SinkTotalPipe DEF Sink
<1> QED
  BY <1>1, <1>2, <1>4, <1>5, <1>6 DEF Working

-----------------------------------------------------------------------------
(* Part1 takes a record, pushes a literal, announces a sequence. *)
LEMMA Part1Working ==
    ASSUME TypeOK, Accounting, NEW t, NEW L, NEW E, NEW S, NEW end,
           Working(t, L, E, S, end), Part1
    PROVE  \E M : Working(t, M, E, S, end)'
<1>1. /\ Context(t, L) /\ Part1Inv(t, L, S, end) /\ Part2Place(t, p2) /\ Pipe(E)
      /\ ~limit /\ p2.csize < size => InStep(t, L, Decoded(E), p2)
  BY DEF Working
<1>2. /\ session' = session /\ size' = size /\ answers' = answers /\ p2' = p2 /\ sink' = sink
      /\ outQ' = outQ /\ eosQ' = eosQ /\ sizeQ' = sizeQ
  BY DEF Part1, P1First, P1Fetch, P1Drop, P1Match, P1Literal, P1Finish, streams
<1>3. p1'.pc # "idle"
  BY Part1Facts DEF Part1, P1First, P1Fetch, P1Drop, P1Match, P1Literal, P1Finish, Advance, P1Type
<1>4. Pipe(E)'
  BY <1>1, <1>2, SamePipe
<1>5. p2.pc # "idle" /\ sink.pc # "idle" /\ L \in [Int -> Byte]
  BY <1>1 DEF Context
<1>6. CASE P1Literal
  <2> DEFINE ch == p1.tmp.ch
  <2>m. PICK M : M = Pushed(L, p1.pushed, ch)
    OBVIOUS
  <2>1. ch \in Byte /\ p1.pushed \in Nat
    BY Part1Facts DEF Record, Byte
  <2>2. M \in [Int -> Byte]
    BY <1>5, <2>1, <2>m DEF Pushed
  <2>3. Part1Inv(t, M, S, end)'
    BY <1>1, <1>6, <2>m, LiteralStep
  <2>4. Context(t, M)'
    BY <1>1, <1>2, <1>3, <1>5, <2>2, SameContext
  <2>5. limit' = limit
    BY <1>6 DEF P1Literal
  <2>6. ASSUME NEW d, InStep(t, L, d, p2) PROVE InStep(t, M, d, p2)
    <3>1. p2.upto - p2.writeLit \in Int /\ p2.writeLit \in Int
          /\ (p2.upto - p2.writeLit) + p2.writeLit <= p1.pushed
      <4>1. p2.upto \in Nat /\ p2.writeLit \in Int /\ p2.upto <= p1.pushed
        BY Part2Facts DEF Accounting
      <4> QED
        BY <2>1, <4>1
    <3>2. LitsAt(L, p2.upto - p2.writeLit, p2.writeLit, t, Len(d.text))
            => LitsAt(M, p2.upto - p2.writeLit, p2.writeLit, t, Len(d.text))
      BY <1>5, <2>1, <2>m, <3>1, PushedLits
    <3> QED
      BY <2>6, <3>2 DEF InStep
  <2>7. Working(t, M, E, S, end)'
    BY <1>1, <1>2, <1>4, <2>3, <2>4, <2>5, <2>6 DEF Working
  <2> QED
    BY <2>7
<1>7. CASE P1First \/ P1Fetch \/ P1Drop \/ P1Match \/ P1Finish
  <2>1. Part1Inv(t, L, S, end)'
    BY <1>1, <1>7, FirstStep, FetchStep, DropStep, MatchStep, FinishStep
  <2>2. Context(t, L)'
    BY <1>1, <1>2, <1>3, <1>5, SameContext
  <2>3. ~limit' => ~limit
    <3>1. CASE P1Finish
      <4>1. ~limit
        BY <1>1, <3>1 DEF P1Finish, Part1Inv, Part1Run
      <4> QED
        BY <4>1
    <3>2. CASE P1First \/ P1Fetch \/ P1Drop \/ P1Match
      BY <3>2 DEF P1First, P1Fetch, P1Drop, P1Match
    <3> QED
      BY <1>7, <3>1, <3>2
  <2>4. Working(t, L, E, S, end)'
    BY <1>1, <1>2, <1>4, <2>1, <2>2, <2>3 DEF Working
  <2> QED
    BY <2>4
<1> QED
  BY <1>6, <1>7 DEF Part1

-----------------------------------------------------------------------------
(***************************************************************************)
(* Between calls nothing is left anywhere; during one the encoder works on *)
(* the text of its block.                                                  *)
(***************************************************************************)
Quiet ==
    /\ p2.pc = "idle" /\ sink.pc = "idle"
    /\ recQ = << >> /\ litQ = << >> /\ lenQ = << >>
    /\ outQ = << >> /\ eosQ = << >> /\ sizeQ = << >>

(* The records of the whole block were there when the call began.  *)
Encoding(t, S, L, E) == Working(t, L, E, S, Len(t))

EncoderInv ==
    /\ session \in Sessions
    /\ p1.pc = "idle" => Quiet
    /\ p1.pc # "idle" => \E L, E : Encoding(Text(Block.recs), Places(Block.recs), L, E)

LEMMA BlockFacts ==
    ASSUME TypeOK, session \in Sessions, Len(answers) < Len(session)
    PROVE  /\ Block \in BlockType /\ IsParse(Block)
           /\ Text(Block.recs) \in Seq(Byte) /\ Block.size = Len(Text(Block.recs))
           /\ PlaceFacts(Block.recs) /\ Places(Block.recs) \subseteq RecSteps(Text(Block.recs))
           /\ Path(Places(Block.recs), Block.recs, 0, Len(Text(Block.recs)))
<1>1. Len(answers) \in Nat /\ session \in Seq(BlockType)
  BY DEF TypeOK
<1>2. Len(answers) + 1 \in 1..Len(session)
  BY <1>1
<1>3. Block \in BlockType /\ IsParse(Block)
  BY <1>1, <1>2, SessionAssumption DEF Block
<1> QED
  BY <1>3, ParseLeads

(* A call begins with empty FIFOs behind Part1. *)
LEMMA StartWorking ==
    ASSUME TypeOK', NEW u \in Seq(Byte), NEW S, NEW end,
           S \subseteq RecSteps(u), Path(S, recQ', 0, end), Len(answers') < Len(session'),
           size' = Len(u), limit' = FALSE,
           p1' = P1At(IF size' = 0 THEN "done" ELSE "first", p1.pushed),
           p2' = P2At("loop", p2.upto), sink' = SinkAt("data"),
           litQ' = << >>, lenQ' = << >>, outQ' = << >>, eosQ' = << >>, sizeQ' = << >>
    PROVE  \E L : Working(u, L, << >>, S, end)'
<1>1. Len(u) \in Nat /\ recQ' \in Seq(Record)
  BY DEF TypeOK
<1>2. /\ p1'.pc = IF Len(u) = 0 THEN "done" ELSE "first"
      /\ p1'.i = 0 /\ p1'.litCount = 0 /\ ~p1'.flag
  BY DEF P1At
<1>3. /\ p2'.pc = "loop" /\ p2'.inIdx = 0 /\ p2'.st = "token" /\ p2'.writeLit = 0
       /\ ~p2'.ending /\ p2'.fresh /\ p2'.csize = 0
  BY DEF P2At
<1>4. sink'.pc = "data" /\ sink'.bytes = << >>
  BY DEF SinkAt
<1>5. PICK L : L \in [Int -> Byte]
  <2>1. 0 \in Byte
    BY ConstantTypes DEF Byte
  <2>2. [k \in Int |-> 0] \in [Int -> Byte]
    BY <2>1
  <2> QED
    BY <2>2
<1>6. Context(u, L)'
  BY <1>1, <1>2, <1>3, <1>4, <1>5 DEF Context
<1>7. Part1Place(u, p1', recQ', S, end)
  <2>1. CASE Len(u) = 0
    <3>1. recQ' = << >> /\ end = 0
      BY <1>1, <2>1, NoMoreRecords
    <3> QED
      BY <1>2, <2>1, <3>1 DEF Part1Place
  <2>2. CASE Len(u) # 0
    BY <1>1, <1>2, <2>2 DEF Part1Place
  <2> QED
    BY <2>1, <2>2
<1>8. Part1Run(u, L, p1', limit')
  BY <1>2 DEF Part1Run, LitsAt
<1>9. Queued(u, L)'
  <2>1. RunStart(u, p1', 0)
    BY <1>1, <1>2 DEF RunStart
  <2>2. Part2Pos(u, p2') = 0
    BY <1>3 DEF Part2Pos
  <2>3. Path(SeqSteps(u, L, limit'), << >>, 0, 0)
    BY PathNone
  <2> QED
    BY <2>1, <2>2, <2>3 DEF Queued
<1>10. LiteralsIn(L)'
  BY DEF LiteralsIn
<1>11. Part2Place(u, p2')
  BY <1>1, <1>3 DEF Part2Place
<1>12. Pipe(<< >>)'
  <2>1. Wire' = << >>
    BY <1>4 DEF Wire
  <2>2. Sizes(<< >>)'
    BY <1>1, <1>3 DEF Sizes
  <2>3. OnTheWay(<< >>)' /\ Flags'
    BY <1>3, <1>4, <2>1 DEF OnTheWay, Flags
  <2> QED
    BY <1>4, <2>2, <2>3 DEF Pipe
<1>13. InStep(u, L, Decoded(<< >>), p2')
  <2>1. /\ DecodeStart \in Decoder /\ DecodeStart.ok /\ DecodeStart.st = "token"
        /\ DecodeStart.text = << >>
    BY StartDecoder DEF DecodeStart
  <2>2. Begins(<< >>, u)
    BY <1>1 DEF Begins
  <2> QED
    BY <1>3, <2>1, <2>2, DecodedNone DEF InStep
<1> QED
  BY <1>6, <1>7, <1>8, <1>9, <1>10, <1>11, <1>12, <1>13 DEF Working, Part1Inv

LEMMA CallWorking ==
    ASSUME TypeOK, TypeOK', EncoderInv, Call
    PROVE  EncoderInv'
<1> DEFINE t == Text(Block.recs)
<1>1. /\ p1.pc = "idle" /\ Len(answers) < Len(session)
      /\ size' = Block.size /\ limit' = FALSE /\ recQ' = recQ \o Block.recs
      /\ p1' = P1At(IF size' = 0 THEN "done" ELSE "first", p1.pushed)
      /\ p2' = P2At("loop", p2.upto) /\ sink' = SinkAt("data")
      /\ session' = session /\ litQ' = litQ /\ lenQ' = lenQ
      /\ outQ' = outQ /\ eosQ' = eosQ /\ sizeQ' = sizeQ /\ answers' = answers
  BY DEF Call
<1>2. /\ session \in Sessions /\ recQ = << >> /\ litQ = << >> /\ lenQ = << >>
      /\ outQ = << >> /\ eosQ = << >> /\ sizeQ = << >>
  BY <1>1 DEF EncoderInv, Quiet
<1>3. /\ Block \in BlockType /\ t \in Seq(Byte) /\ Block.size = Len(t)
      /\ Places(Block.recs) \subseteq RecSteps(t) /\ Path(Places(Block.recs), Block.recs, 0, Len(t))
  BY <1>1, <1>2, BlockFacts
<1>4. Len(t) \in Nat /\ Block.recs \in Seq(Record)
  BY <1>3 DEF BlockType
<1>5. Block' = Block
  BY <1>1 DEF Block
<1> DEFINE r == Block.recs
<1>6. recQ' = r
  BY <1>1, <1>2, <1>4
<1>7. PICK u, S : u = t /\ S = Places(Block.recs)
  OBVIOUS
<1>8. /\ u \in Seq(Byte) /\ Len(u) \in Nat /\ size' = Len(u)
      /\ S \subseteq RecSteps(u) /\ Path(S, recQ', 0, Len(u))
  BY <1>1, <1>3, <1>4, <1>6, <1>7
<1> HIDE DEF t, r
<1>9. PICK L : Working(u, L, << >>, S, Len(u))'
  BY <1>1, <1>2, <1>8, StartWorking
<1>10. u = Text(Block'.recs) /\ S = Places(Block'.recs)
  BY <1>5, <1>7 DEF t
<1>11. p1'.pc # "idle"
  BY <1>9 DEF Working, Context
<1> QED
  BY <1>1, <1>2, <1>9, <1>10, <1>11 DEF EncoderInv, Encoding

-----------------------------------------------------------------------------
(* All three are done: everything has been read, and the bytes decode. *)
LEMMA DoneDrained ==
    ASSUME TypeOK, Accounting, NEW t, NEW L, NEW E, NEW S, NEW end,
           Working(t, L, E, S, end),
           p1.pc = "done", p2.pc = "done", sink.pc = "done"
    PROVE  /\ recQ = << >> /\ litQ = << >> /\ lenQ = << >>
           /\ outQ = << >> /\ eosQ = << >> /\ sizeQ = << >>
           /\ Len(t) > 0 => p2.ending
<1>1. Context(t, L) /\ Part1Inv(t, L, S, end) /\ Part2Place(t, p2) /\ Pipe(E)
  BY DEF Working
<1>2. t \in Seq(Byte) /\ Len(t) \in Nat
  BY <1>1 DEF Context
<1>3. outQ = << >> /\ eosQ = << >> /\ sizeQ = << >>
  BY <1>1 DEF Pipe, Received, Sizes
<1>4. recQ = << >>
  BY <1>1 DEF Part1Inv, Part1Place
<1>5. PICK e \in Nat : Path(SeqSteps(t, L, limit), lenQ, Part2Pos(t, p2), e)
  BY <1>1 DEF Part1Inv, Queued
<1>6. lenQ \in Seq(SequenceType) /\ p2.inIdx \in Int
  BY Part2Facts
<1>7. /\ p2.inIdx >= Len(t)
      /\ ~p2.ending => p2.inIdx \in Nat /\ Len(t) = 0
  BY <1>1, <1>2, <1>6 DEF Part2Place
<1>8. Part2Pos(t, p2) >= Len(t)
  BY <1>2, <1>7 DEF Part2Pos
<1>9. lenQ = << >>
  <2>1. SUFFICES ASSUME lenQ # << >> PROVE FALSE
    OBVIOUS
  <2>2. PICK f \in Nat : /\ Part2Pos(t, p2) \in Nat
                         /\ <<Part2Pos(t, p2), Head(lenQ), f>> \in SeqSteps(t, L, limit)
    BY <1>5, <1>6, <2>1, PathLess
  <2>3. Head(lenQ) \in SequenceType
    BY <1>6, <2>1
  <2>4. Part2Pos(t, p2) < Len(t)
    BY <2>2, <2>3, SeqStep DEF SeqAt
  <2> QED
    BY <1>2, <1>8, <2>2, <2>4
<1>10. litQ = << >>
  <2>1. p1.pushed = p2.upto
    BY <1>9, Part1Facts DEF Accounting, LastUpto, Unannounced
  <2>2. p2.writeLit = 0
    <3>1. p2.writeLit \in Int
      BY Part2Facts
    <3> QED
      BY <3>1 DEF Accounting, Part2Control
  <2>3. Len(litQ) = 0
    BY <2>1, <2>2, Part1Facts DEF Accounting, Balance
  <2> QED
    BY <2>3, Part1Facts
<1> QED
  BY <1>2, <1>3, <1>4, <1>7, <1>9, <1>10

LEMMA DoneDecodes ==
    ASSUME TypeOK, Accounting, NEW t, NEW L, NEW E, NEW S, NEW end,
           Working(t, L, E, S, end),
           p1.pc = "done", p2.pc = "done", sink.pc = "done", ~limit, sink.total # size
    PROVE  /\ sink.total < size /\ sink.total = Len(sink.bytes)
           /\ DecodesTo(sink.bytes, t)
<1>1. Context(t, L) /\ Pipe(E) /\ (p2.csize < size => InStep(t, L, Decoded(E), p2))
  BY DEF Working
<1>2. /\ sink.bytes = E /\ sink.total = p2.csize /\ Len(E) = p2.csize /\ p2.csize <= size
      /\ E \in Seq(Int)
  BY <1>1 DEF Pipe, Received, Sizes
<1>a. p2.csize \in Nat /\ size \in Nat /\ p2.csize # size
  BY <1>2, Part2Facts
<1>3. p2.csize < size
  BY <1>2, <1>a
<1>4. t \in Seq(Byte) /\ Len(t) \in Nat /\ size = Len(t) /\ t \in Seq(Int)
  BY <1>1, ByteSeq DEF Context
<1>5. p2.ending /\ p2.fresh
  <2>1. Len(t) > 0
    BY <1>3, <1>4, Part2Facts
  <2> QED
    BY <2>1, DoneDrained DEF Accounting, Part2Control
<1> DEFINE d == Decoded(E)
<1>6. d.ok /\ Begins(d.text, t) /\ d.st = "offset0" /\ Len(d.text) = Len(t)
  BY <1>1, <1>3, <1>5 DEF InStep
<1>7. d.text = t
  <2> HIDE DEF d
  <2> QED
    BY <1>4, <1>6, BeginsAll
<1>8. DecodesTo(E, t)
  BY <1>6, <1>7 DEF DecodesTo
<1> QED
  BY <1>2, <1>3, <1>8

-----------------------------------------------------------------------------
(* Nothing runs while the encoder is quiet, and no process of it takes a   *)
(* call or gives an answer.                                                *)
LEMMA BusyStep ==
    ASSUME p1.pc = "idle" => Quiet, Part1 \/ Part2 \/ Sink
    PROVE  p1.pc # "idle" /\ session' = session /\ answers' = answers
<1>1. CASE Part1
  BY <1>1 DEF Part1, P1First, P1Fetch, P1Drop, P1Match, P1Literal, P1Finish, streams
<1>2. CASE Part2
  <2>1. p2.pc # "idle" /\ session' = session /\ answers' = answers
    BY <1>2 DEF Part2, WriteToken, WriteLitLen, WriteLiteral, WriteOffset0, WriteOffset1,
                WriteMatchLen, InState, P2Local, OutByte, OutEos, OutSize, OutPad, OutEnd
  <2> QED
    BY <2>1 DEF Quiet
<1>3. CASE Sink
  <2>1. sink.pc # "idle" /\ session' = session /\ answers' = answers
    BY <1>3 DEF Sink, SinkData, SinkFlag, SinkTotal
  <2> QED
    BY <2>1 DEF Quiet
<1> QED
  BY <1>1, <1>2, <1>3

(* Each step of the encoder keeps a call in order. *)
LEMMA StepWorking ==
    ASSUME TypeOK, TypeOK', Accounting, NEW t, NEW L, NEW E, NEW S, NEW end,
           Working(t, L, E, S, end), Part1 \/ Part2 \/ Sink
    PROVE  \E M, F : Working(t, M, F, S, end)'
<1>1. CASE Part1
  BY <1>1, Part1Working
<1>2. CASE \/ WriteToken \/ WriteLitLen \/ WriteLiteral
           \/ WriteOffset0 \/ WriteOffset1 \/ WriteMatchLen
  BY <1>2, WriteWorking
<1>3. CASE OutByte \/ OutEos \/ OutSize \/ OutPad \/ OutEnd
  BY <1>3, OutWorking
<1>4. CASE Sink
  BY <1>4, SinkWorking
<1> QED
  BY <1>1, <1>2, <1>3, <1>4 DEF Part2

LEMMA EncoderKeeps == TypeOK /\ TypeOK' /\ Accounting /\ EncoderInv /\ [Next]_vars => EncoderInv'
<1> SUFFICES ASSUME TypeOK, TypeOK', Accounting, EncoderInv, [Next]_vars PROVE EncoderInv'
  OBVIOUS
<1> DEFINE t == Text(Block.recs)
<1>1. CASE Call
  BY <1>1, CallWorking
<1>2. CASE Return
  <2>1. /\ p1.pc = "done" /\ p2.pc = "done" /\ sink.pc = "done"
        /\ session' = session /\ recQ' = recQ /\ litQ' = litQ /\ lenQ' = lenQ
        /\ outQ' = outQ /\ eosQ' = eosQ /\ sizeQ' = sizeQ
        /\ p1'.pc = "idle" /\ p2'.pc = "idle" /\ sink'.pc = "idle"
    BY <1>2 DEF Return, streams, P1At, P2At, SinkAt
  <2>2. PICK L, E : Encoding(t, Places(Block.recs), L, E)
    BY <2>1 DEF EncoderInv
  <2> HIDE DEF t
  <2>3. /\ recQ = << >> /\ litQ = << >> /\ lenQ = << >>
        /\ outQ = << >> /\ eosQ = << >> /\ sizeQ = << >>
    BY <2>1, <2>2, DoneDrained DEF Encoding
  <2> QED
    BY <2>1, <2>3 DEF EncoderInv, Quiet
<1>3. CASE Part1 \/ Part2 \/ Sink
  <2>1. p1.pc # "idle" /\ session' = session /\ answers' = answers
    BY <1>3, BusyStep DEF EncoderInv
  <2>2. PICK u, S, L, E : /\ u = t /\ S = Places(Block.recs)
                          /\ Working(u, L, E, S, Len(u))
    BY <2>1 DEF EncoderInv, Encoding
  <2>3. u = Text(Block'.recs) /\ S = Places(Block'.recs)
    BY <2>1, <2>2 DEF Block
  <2>4. \E M, F : Working(u, M, F, S, Len(u))'
    BY <1>3, <2>2, StepWorking
  <2>5. p1'.pc # "idle"
    BY <2>4 DEF Working, Context
  <2> QED
    BY <2>1, <2>3, <2>4, <2>5 DEF EncoderInv, Encoding
<1>4. CASE Rest \/ UNCHANGED vars
  <2>1. /\ session' = session /\ size' = size /\ limit' = limit /\ answers' = answers
        /\ p1' = p1 /\ p2' = p2 /\ sink' = sink /\ recQ' = recQ /\ litQ' = litQ /\ lenQ' = lenQ
        /\ outQ' = outQ /\ eosQ' = eosQ /\ sizeQ' = sizeQ
    BY <1>4 DEF Rest, vars, streams
  <2>2. Quiet' <=> Quiet
    BY <2>1 DEF Quiet
  <2>3. Block' = Block
    BY <2>1 DEF Block
  <2>4. ASSUME NEW u, NEW S, NEW L, NEW E, Encoding(u, S, L, E) PROVE Encoding(u, S, L, E)'
    <3>1. Context(u, L)' /\ Part1Inv(u, L, S, Len(u))'
      <4>1. Context(u, L) /\ Part1Inv(u, L, S, Len(u))
        BY <2>4 DEF Encoding, Working
      <4> QED
        BY <2>1, <4>1, SameParse DEF Context
    <3>2. Pipe(E)'
      BY <2>1, <2>4, SamePipe DEF Encoding, Working
    <3> QED
      BY <2>1, <2>4, <3>1, <3>2 DEF Encoding, Working
  <2>5. PICK u, S : /\ u = t /\ u = Text(Block'.recs)
                    /\ S = Places(Block.recs) /\ S = Places(Block'.recs)
    BY <2>3
  <2>6. ASSUME p1.pc # "idle" PROVE \E L, E : Encoding(u, S, L, E)'
    <3>1. PICK L, E : Encoding(u, S, L, E)
      BY <2>5, <2>6 DEF EncoderInv
    <3>2. Encoding(u, S, L, E)'
      BY <2>4, <3>1
    <3> QED
      BY <3>2
  <2> QED
    BY <2>1, <2>2, <2>5, <2>6 DEF EncoderInv
<1> QED
  BY <1>1, <1>2, <1>3, <1>4 DEF Next

(* In every reachable state the encoder is quiet, or works on a block.     *)
THEOREM EncoderInvariant == Spec => []EncoderInv
<1>1. Init => EncoderInv
  BY DEF Init, EncoderInv, Quiet, P1At, P2At, SinkAt
<1> QED
  BY <1>1, EncoderKeeps, TypeCorrect, AccountingInvariant, PTL DEF Spec

(* A finished call leaves nothing behind in any FIFO, whatever happened in *)
(* it, so the next call of the engine starts clean.                        *)
THEOREM AlwaysDrained == Spec => []StreamsDrained
<1>1. TypeOK /\ Accounting /\ EncoderInv => StreamsDrained
  <2> SUFFICES ASSUME TypeOK, Accounting, EncoderInv,
                      p1.pc \in {"idle", "done"}, p2.pc \in {"idle", "done"},
                      sink.pc \in {"idle", "done"}
               PROVE  /\ recQ = << >> /\ litQ = << >> /\ lenQ = << >>
                      /\ outQ = << >> /\ eosQ = << >> /\ sizeQ = << >>
    BY DEF StreamsDrained
  <2>1. CASE p1.pc = "idle"
    BY <2>1 DEF EncoderInv, Quiet
  <2>2. CASE p1.pc = "done"
    <3>1. PICK t, S, L, E : Working(t, L, E, S, Len(t))
      BY <2>2 DEF EncoderInv, Encoding
    <3>2. p2.pc = "done" /\ sink.pc = "done"
      BY <3>1 DEF Working, Context
    <3> QED
      BY <2>2, <3>1, <3>2, DoneDrained
  <2> QED
    BY <2>1, <2>2
<1> QED
  BY <1>1, TypeCorrect, AccountingInvariant, EncoderInvariant, PTL

-----------------------------------------------------------------------------
LEMMA SameDecode ==
    ASSUME NEW bytes, NEW text
    PROVE  Service!DecodesTo(bytes, text) <=> DecodesTo(bytes, text)
BY DEF DecodesTo, Decoded, DecodeStart, DecodeByte, CopyMatch, Copy, ByteBase,
       Service!DecodesTo, Service!Decoded, Service!DecodeStart, Service!DecodeByte,
       Service!CopyMatch, Service!Copy, Service!ByteBase

LEMMA SameText == ASSUME NEW recs PROVE Service!Text(recs) = Text(recs)
BY DEF Text, TextUpto, Extend, Copy,
       Service!Text, Service!TextUpto, Service!Extend, Service!Copy

(* A call's answer is one the service may give. *)
LEMMA ReturnAnswers ==
    ASSUME TypeOK, Accounting, session \in Sessions, Return,
           NEW L, NEW E, NEW S, NEW end, Working(Text(Block.recs), L, E, S, end)
    PROVE  Service!Next
<1> DEFINE n == Len(answers)
           a == [size |-> IF limit THEN size ELSE sink.total, bytes |-> sink.bytes]
           t == Text(Block.recs)
<1>1. /\ p1.pc = "done" /\ p2.pc = "done" /\ sink.pc = "done"
      /\ answers' = Append(answers, a) /\ session' = session
  BY DEF Return
<1>2. PICK u : u = t /\ Working(u, L, E, S, end)
  OBVIOUS
<1>3. n < Len(session) /\ n \in Nat /\ size = Len(u)
  BY <1>2 DEF Working, Context, TypeOK
<1>4. Block.size = size
  BY <1>2, <1>3, BlockFacts
<1>5. \/ Service!Stored(Block, a)
      \/ Service!Compressed(Block, a)
  <2>1. CASE limit \/ sink.total = size
    BY <1>4, <2>1 DEF Service!Stored
  <2>2. CASE ~limit /\ sink.total # size
    <3>1. /\ sink.total < size /\ sink.total = Len(sink.bytes) /\ DecodesTo(sink.bytes, u)
      BY <1>1, <1>2, <2>2, DoneDecodes
    <3>2. a.size = sink.total /\ a.bytes = sink.bytes
      BY <2>2
    <3>3. Service!DecodesTo(a.bytes, Service!Text(Block.recs))
      BY <1>2, <3>1, <3>2, SameDecode, SameText
    <3> HIDE DEF a
    <3> QED
      BY <1>4, <3>1, <3>2, <3>3 DEF Service!Compressed
  <2> QED
    BY <2>1, <2>2
<1> HIDE DEF a
<1>6. Len(answers') = n + 1 /\ answers'[n + 1] = a /\ SubSeq(answers', 1, n) = answers
  <2>1. answers \in Seq([size : Nat, bytes : Seq(Int)]) /\ a \in [size : Nat, bytes : Seq(Int)]
    BY DEF TypeOK, SinkType, a
  <2>2. answers' \in Seq([size : Nat, bytes : Seq(Int)]) /\ Len(answers') = n + 1
        /\ answers'[n + 1] = a /\ \A k \in 1..n : answers'[k] = answers[k]
    BY <1>1, <2>1
  <2>3. SubSeq(answers', 1, n) = answers
    BY <1>3, <2>1, <2>2
  <2> QED
    BY <2>2, <2>3
<1>7. session[n + 1] = Block
  BY DEF Block
<1> HIDE DEF n
<1> QED
  BY <1>1, <1>3, <1>5, <1>6, <1>7 DEF Service!Next, Service!Answer, n

(* The encoder implements the block compression service: calls are         *)
(* answered one by one and in order, and each answer is the block's own    *)
(* size, or a shorter string of bytes that the decompressor turns back     *)
(* into the text of the block.                                             *)
THEOREM EncoderImplementsService == Spec => ImplementsService
<1>1. Init => Service!Init
  BY DEF Init, Service!Init
<1>2. TypeOK /\ Accounting /\ EncoderInv /\ [Next]_vars
        => [Service!Next]_<<session, answers>>
  <2> SUFFICES ASSUME TypeOK, Accounting, EncoderInv, [Next]_vars
               PROVE  Service!Next \/ UNCHANGED <<session, answers>>
    OBVIOUS
  <2>1. CASE Return
    <3>1. session \in Sessions /\ p1.pc = "done"
      BY <2>1 DEF EncoderInv, Return
    <3>2. PICK L, E : Encoding(Text(Block.recs), Places(Block.recs), L, E)
      BY <3>1 DEF EncoderInv
    <3> QED
      BY <2>1, <3>1, <3>2, ReturnAnswers DEF Encoding
  <2>2. CASE ~Return
    BY <2>2 DEF Next, Call, Rest, vars, Part1, P1First, P1Fetch, P1Drop, P1Match, P1Literal,
                P1Finish, Part2, WriteToken, WriteLitLen, WriteLiteral, WriteOffset0,
                WriteOffset1, WriteMatchLen, P2Local, OutByte, OutEos, OutSize, OutPad, OutEnd,
                Sink, SinkData, SinkFlag, SinkTotal, streams
  <2> QED
    BY <2>1, <2>2
<1> QED
  BY <1>1, <1>2, TypeCorrect, AccountingInvariant, EncoderInvariant, PTL
     DEF Spec, ImplementsService, Service!Spec

-----------------------------------------------------------------------------
(***************************************************************************)
(* The size of an answer.  EncodedSize adds up the sizes of the sequences  *)
(* in an order the library chooses; the sum is the same in any.            *)
(***************************************************************************)
SeqSize(recs, k) ==
    3 + ExtraBytes(LitRun(recs, k)) + LitRun(recs, k) + ExtraBytes(recs[k].len - MinMatch)

Chosen(s) == CHOOSE x \in s : TRUE
Summand(recs, g, s) ==
    IF s = {} THEN 0 ELSE SeqSize(recs, Chosen(s)) + g[s \ {Chosen(s)}]
Summing(recs, Z, g) == g = [s \in SUBSET Z |-> Summand(recs, g, s)]
SumOver(recs, Z) == (CHOOSE g : Summing(recs, Z, g))[Z]

LEMMA SubsetFacts ==
    ASSUME NEW Z, IsFiniteSet(Z), NEW s \in SUBSET Z
    PROVE  /\ IsFiniteSet(s) /\ Cardinality(s) \in Nat /\ Cardinality(s) <= Cardinality(Z)
           /\ \A x \in s : /\ s \ {x} \in SUBSET Z /\ Cardinality(s \ {x}) = Cardinality(s) - 1
                           /\ Cardinality(s) > 0
           /\ s # {} => Chosen(s) \in s
           /\ s = {} <=> Cardinality(s) = 0
<1>1. IsFiniteSet(s) /\ Cardinality(s) \in Nat /\ Cardinality(s) <= Cardinality(Z)
  BY FS_Subset, FS_CardinalityType
<1>2. s = {} <=> Cardinality(s) = 0
  BY <1>1, FS_EmptySet
<1>3. ASSUME NEW x \in s
      PROVE  s \ {x} \in SUBSET Z /\ Cardinality(s \ {x}) = Cardinality(s) - 1 /\ Cardinality(s) > 0
  <2>1. Cardinality(s \ {x}) = Cardinality(s) - 1
    BY <1>1, FS_RemoveElement
  <2>2. s # {}
    OBVIOUS
  <2> QED
    BY <1>1, <1>2, <2>1, <2>2
<1>4. s # {} => Chosen(s) \in s
  BY DEF Chosen
<1> QED
  BY <1>1, <1>2, <1>3, <1>4

(* The function exists up to each size of subset, so it exists.            *)
SummingUpto(recs, Z, g, n) ==
    /\ g = [s \in SUBSET Z |-> g[s]]
    /\ \A s \in SUBSET Z : Cardinality(s) <= n => g[s] = Summand(recs, g, s)

LEMMA SummingMore ==
    ASSUME NEW recs, NEW Z, IsFiniteSet(Z), NEW g, NEW n \in Nat, SummingUpto(recs, Z, g, n)
    PROVE  \E h : SummingUpto(recs, Z, h, n + 1)
<1> DEFINE h == [s \in SUBSET Z |-> IF Cardinality(s) <= n THEN g[s] ELSE Summand(recs, g, s)]
<1>1. \A s \in SUBSET Z : h[s] = IF Cardinality(s) <= n THEN g[s] ELSE Summand(recs, g, s)
  OBVIOUS
<1>2. h = [s \in SUBSET Z |-> h[s]]
  OBVIOUS
<1> HIDE DEF h
<1>3. ASSUME NEW s \in SUBSET Z, Cardinality(s) <= n + 1 PROVE h[s] = Summand(recs, g, s)
  BY <1>1 DEF SummingUpto
<1>4. ASSUME NEW s \in SUBSET Z, Cardinality(s) <= n + 1
      PROVE  Summand(recs, g, s) = Summand(recs, h, s)
  <2>1. CASE s = {}
    BY <2>1 DEF Summand
  <2>2. CASE s # {}
    <3> DEFINE u == s \ {Chosen(s)}
    <3>1. u \in SUBSET Z /\ Cardinality(u) = Cardinality(s) - 1 /\ Cardinality(s) \in Nat
      BY <2>2, SubsetFacts
    <3>2. Cardinality(u) <= n
      BY <1>4, <3>1
    <3>3. h[u] = g[u]
      BY <1>1, <3>1, <3>2
    <3> QED
      BY <3>3 DEF Summand
  <2> QED
    BY <2>1, <2>2
<1> QED
  BY <1>2, <1>3, <1>4 DEF SummingUpto

LEMMA SummingExists ==
    ASSUME NEW recs, NEW Z, IsFiniteSet(Z)
    PROVE  \E g : Summing(recs, Z, g)
<1> DEFINE bad == {n \in Nat : ~\E g : SummingUpto(recs, Z, g, n)}
<1>1. 0 \notin bad
  <2> DEFINE g == [s \in SUBSET Z |-> 0]
  <2>1. ASSUME NEW s \in SUBSET Z, Cardinality(s) <= 0 PROVE g[s] = Summand(recs, g, s)
    <3>1. s = {}
      BY <2>1, SubsetFacts
    <3> QED
      BY <3>1 DEF Summand
  <2>2. SummingUpto(recs, Z, g, 0)
    BY <2>1 DEF SummingUpto
  <2> QED
    BY <2>2
<1>2. ASSUME NEW n \in bad, \A y \in bad : n <= y PROVE FALSE
  <2>1. n \in Nat /\ n # 0 /\ n - 1 \in Nat /\ n - 1 \notin bad
    BY <1>1, <1>2
  <2>2. PICK g : SummingUpto(recs, Z, g, n - 1)
    BY <2>1
  <2>3. \E h : SummingUpto(recs, Z, h, (n - 1) + 1)
    BY <2>1, <2>2, SummingMore
  <2>4. (n - 1) + 1 = n
    BY <2>1
  <2> QED
    BY <2>3, <2>4
<1>3. bad = {}
  <2>1. bad \in SUBSET Nat
    OBVIOUS
  <2> HIDE DEF bad
  <2> QED
    BY <1>2, <2>1, Smallest
<1>4. Cardinality(Z) \in Nat
  BY FS_CardinalityType
<1>5. PICK g : SummingUpto(recs, Z, g, Cardinality(Z))
  BY <1>3, <1>4
<1> HIDE DEF bad
<1>6. \A s \in SUBSET Z : g[s] = Summand(recs, g, s)
  BY <1>5, SubsetFacts DEF SummingUpto
<1>7. g = [s \in SUBSET Z |-> g[s]]
  BY <1>5 DEF SummingUpto
<1>8. [s \in SUBSET Z |-> g[s]] = [s \in SUBSET Z |-> Summand(recs, g, s)]
  BY <1>6, Zenon
<1>9. Summing(recs, Z, g)
  BY <1>7, <1>8, Zenon DEF Summing
<1> QED
  BY <1>9

LEMMA SummingFacts ==
    ASSUME NEW recs, NEW Z, NEW g, Summing(recs, Z, g)
    PROVE  \A s \in SUBSET Z : g[s] = Summand(recs, g, s)
<1> TAKE s \in SUBSET Z
<1>1. [u \in SUBSET Z |-> Summand(recs, g, u)][s] = Summand(recs, g, s)
  OBVIOUS
<1> QED
  BY <1>1, Zenon DEF Summing

(* What holds of a set when it holds of all with one element less, holds   *)
(* of all.                                                                 *)
LEMMA SmallestSubset ==
    ASSUME NEW Z, IsFiniteSet(Z), NEW bad \in SUBSET (SUBSET Z), bad # {}
    PROVE  \E s \in bad : \A x \in s : s \ {x} \notin bad
<1> DEFINE sizes == {Cardinality(s) : s \in bad}
<1>1. sizes \in SUBSET Nat /\ sizes # {}
  BY SubsetFacts
<1>2. PICK n \in sizes : \A y \in sizes : n <= y
  <2> HIDE DEF sizes
  <2> QED
    BY <1>1, Smallest
<1>3. PICK s \in bad : n = Cardinality(s)
  OBVIOUS
<1>4. ASSUME NEW x \in s, s \ {x} \in bad PROVE FALSE
  <2>1. Cardinality(s \ {x}) \in sizes
    BY <1>4
  <2>2. n <= Cardinality(s \ {x})
    BY <1>2, <2>1
  <2> QED
    BY <1>3, <1>4, <2>2, SubsetFacts
<1> QED
  BY <1>4

Sizable(recs, Z) == \A x \in Z : SeqSize(recs, x) \in Nat

LEMMA SumType ==
    ASSUME NEW recs, NEW Z, IsFiniteSet(Z), Sizable(recs, Z), NEW g, Summing(recs, Z, g)
    PROVE  \A s \in SUBSET Z : g[s] \in Nat
<1> DEFINE bad == {s \in SUBSET Z : g[s] \notin Nat}
<1>1. ASSUME NEW s \in bad, \A x \in s : s \ {x} \notin bad PROVE FALSE
  <2>1. s \in SUBSET Z /\ g[s] \notin Nat /\ g[s] = Summand(recs, g, s)
    BY SummingFacts
  <2>2. s # {}
    BY <2>1 DEF Summand
  <2>3. Chosen(s) \in s /\ s \ {Chosen(s)} \in SUBSET Z
    BY <2>1, <2>2, SubsetFacts
  <2>4. g[s \ {Chosen(s)}] \in Nat /\ SeqSize(recs, Chosen(s)) \in Nat
    BY <1>1, <2>1, <2>3 DEF Sizable
  <2> QED
    BY <2>1, <2>2, <2>4 DEF Summand
<1>2. bad = {}
  <2>1. bad \in SUBSET (SUBSET Z)
    OBVIOUS
  <2> HIDE DEF bad
  <2> QED
    BY <1>1, <2>1, SmallestSubset
<1> QED
  BY <1>2

(* Any element may be taken out first.                                     *)
LEMMA SumAnyOrder ==
    ASSUME NEW recs, NEW Z, IsFiniteSet(Z), Sizable(recs, Z), NEW g, Summing(recs, Z, g)
    PROVE  \A s \in SUBSET Z : \A x \in s : g[s] = SeqSize(recs, x) + g[s \ {x}]
<1> DEFINE bad == {s \in SUBSET Z : ~\A x \in s : g[s] = SeqSize(recs, x) + g[s \ {x}]}
<1>1. ASSUME NEW s \in bad, \A x \in s : s \ {x} \notin bad PROVE FALSE
  <2>1. PICK x \in s : g[s] # SeqSize(recs, x) + g[s \ {x}]
    OBVIOUS
  <2> DEFINE y == Chosen(s)
             u == s \ {x}
             v == s \ {y}
             w == (s \ {x}) \ {y}
  <2>2. s \in SUBSET Z /\ s # {} /\ y \in s
    BY <2>1 DEF Chosen
  <2>3. g[s] = SeqSize(recs, y) + g[v]
    BY <2>2, SummingFacts DEF Summand
  <2> HIDE DEF y
  <2>4. x # y
    BY <2>1, <2>3
  <2>5. u \in SUBSET Z /\ v \in SUBSET Z /\ w \in SUBSET Z /\ w = v \ {x} /\ w = u \ {y}
        /\ y \in u /\ x \in v
    BY <2>2, <2>4
  <2>6. u \notin bad /\ v \notin bad
    BY <1>1, <2>2
  <2>7. g[u] = SeqSize(recs, y) + g[w] /\ g[v] = SeqSize(recs, x) + g[w]
    BY <2>5, <2>6
  <2>8. g[w] \in Nat /\ SeqSize(recs, x) \in Nat /\ SeqSize(recs, y) \in Nat
    BY <2>2, <2>5, SumType DEF Sizable
  <2> HIDE DEF u, v, w, bad
  <2>9. SeqSize(recs, y) + g[v] = SeqSize(recs, x) + g[u]
    BY <2>7, <2>8
  <2> QED
    BY <2>1, <2>3, <2>9 DEF u
<1>2. bad = {}
  <2>1. bad \in SUBSET (SUBSET Z)
    OBVIOUS
  <2> HIDE DEF bad
  <2> QED
    BY <1>1, <2>1, SmallestSubset
<1> QED
  BY <1>2

(* A larger set sums a subset of it in the same way.                       *)
LEMMA SumSame ==
    ASSUME NEW recs, NEW Z, IsFiniteSet(Z), NEW g, Summing(recs, Z, g),
           NEW Y \in SUBSET Z, NEW h, Summing(recs, Y, h)
    PROVE  \A s \in SUBSET Y : g[s] = h[s]
<1> DEFINE bad == {s \in SUBSET Y : g[s] # h[s]}
<1>0. IsFiniteSet(Y)
  BY FS_Subset
<1>1. ASSUME NEW s \in bad, \A x \in s : s \ {x} \notin bad PROVE FALSE
  <2>1. s \in SUBSET Y /\ s \in SUBSET Z /\ g[s] # h[s]
    OBVIOUS
  <2>2. g[s] = Summand(recs, g, s) /\ h[s] = Summand(recs, h, s)
    BY <2>1, SummingFacts
  <2>3. s # {}
    BY <2>1, <2>2 DEF Summand
  <2>4. g[s \ {Chosen(s)}] = h[s \ {Chosen(s)}]
    BY <1>1, <2>1, <2>3 DEF Chosen
  <2> QED
    BY <2>1, <2>2, <2>4 DEF Summand
<1>2. bad = {}
  <2>1. bad \in SUBSET (SUBSET Y)
    OBVIOUS
  <2> HIDE DEF bad
  <2> QED
    BY <1>0, <1>1, <2>1, SmallestSubset
<1> QED
  BY <1>2

LEMMA SumOverIs ==
    ASSUME NEW recs, NEW Z, IsFiniteSet(Z)
    PROVE  \E g : Summing(recs, Z, g) /\ SumOver(recs, Z) = g[Z]
<1> DEFINE g == CHOOSE f : Summing(recs, Z, f)
<1>1. Summing(recs, Z, g)
  BY SummingExists
<1> QED
  BY <1>1 DEF SumOver

LEMMA SumOverNone == ASSUME NEW recs PROVE SumOver(recs, {}) = 0
<1>1. PICK g : Summing(recs, {}, g) /\ SumOver(recs, {}) = g[{}]
  BY SumOverIs, FS_EmptySet
<1>2. {} \in SUBSET {}
  OBVIOUS
<1> QED
  BY <1>1, <1>2, SummingFacts DEF Summand

LEMMA SumOverMore ==
    ASSUME NEW recs, NEW Z, IsFiniteSet(Z), NEW x, x \notin Z, Sizable(recs, Z \cup {x})
    PROVE  /\ SumOver(recs, Z) \in Nat
           /\ SumOver(recs, Z \cup {x}) = SumOver(recs, Z) + SeqSize(recs, x)
<1> DEFINE Y == Z \cup {x}
<1>1. IsFiniteSet(Y)
  BY FS_AddElement
<1>2. PICK g : Summing(recs, Z, g) /\ SumOver(recs, Z) = g[Z]
  BY SumOverIs
<1>3. PICK h : Summing(recs, Y, h) /\ SumOver(recs, Y) = h[Y]
  BY <1>1, SumOverIs
<1>4. Y \in SUBSET Y /\ Z \in SUBSET Z /\ Z \in SUBSET Y /\ x \in Y /\ Y \ {x} = Z
  OBVIOUS
<1>5. Sizable(recs, Z) /\ Sizable(recs, Y) /\ SeqSize(recs, x) \in Nat
  BY DEF Sizable
<1> HIDE DEF Y
<1>6. h[Y] = SeqSize(recs, x) + h[Z]
  BY <1>1, <1>3, <1>4, <1>5, SumAnyOrder
<1>7. h[Z] = g[Z]
  BY <1>1, <1>2, <1>3, <1>4, SumSame
<1>8. g[Z] \in Nat
  BY <1>2, <1>4, <1>5, SumType
<1> QED
  BY <1>2, <1>3, <1>5, <1>6, <1>7, <1>8 DEF Y

LEMMA EncodedSizeIs ==
    ASSUME NEW recs
    PROVE  EncodedSize(recs) =
             SumOver(recs, MatchIdx(recs))
               + (IF LitRun(recs, Len(recs) + 1) = 0 THEN 0
                  ELSE 1 + ExtraBytes(LitRun(recs, Len(recs) + 1)) + LitRun(recs, Len(recs) + 1))
BY DEF EncodedSize, SumOver, Summing, Summand, Chosen, SeqSize, MapThenSumSet, MapThenFoldSet

(* The literals since the last match, record by record.                    *)
Earlier(recs, k) == {j \in 1..k - 1 : recs[j].len > 0}
Latest(S) == IF S = {} THEN 0 ELSE CHOOSE j \in S : \A m \in S : m <= j

LEMMA LatestIs ==
    ASSUME NEW n \in Nat, NEW S \in SUBSET (1..n)
    PROVE  /\ Latest(S) \in 0..n
           /\ S # {} => Latest(S) \in S /\ \A m \in S : m <= Latest(S)
<1>1. CASE S = {}
  BY <1>1 DEF Latest
<1>2. CASE S # {}
  <2> DEFINE T == {n - m : m \in S}
  <2>1. T \in SUBSET Nat /\ T # {}
    BY <1>2
  <2>2. PICK x \in T : \A y \in T : x <= y
    <3> HIDE DEF T
    <3> QED
      BY <2>1, Smallest
  <2>3. PICK j \in S : x = n - j
    OBVIOUS
  <2>4. ASSUME NEW m \in S PROVE m <= j
    <3>1. n - m \in T
      OBVIOUS
    <3>2. n - j <= n - m
      BY <2>2, <2>3, <3>1
    <3> QED
      BY <3>2
  <2>5. \E i \in S : \A m \in S : m <= i
    BY <2>4
  <2>6. Latest(S) \in S /\ \A m \in S : m <= Latest(S)
    BY <1>2, <2>5 DEF Latest
  <2>7. Latest(S) \in 1..n
    BY <2>6
  <2> QED
    BY <2>6, <2>7
<1> QED
  BY <1>1, <1>2

LEMMA LitRunIs ==
    ASSUME NEW recs, NEW k \in Nat, k > 0
    PROVE  /\ LitRun(recs, k) = (k - 1) - Latest(Earlier(recs, k))
           /\ LitRun(recs, k) \in 0..k - 1
<1>1. LitRun(recs, k) = (k - 1) - Latest(Earlier(recs, k))
  BY DEF LitRun, Latest, Earlier
<1>2. k - 1 \in Nat /\ Earlier(recs, k) \in SUBSET (1..k - 1)
  BY DEF Earlier
<1>3. Latest(Earlier(recs, k)) \in 0..k - 1
  BY <1>2, LatestIs
<1> QED
  BY <1>1, <1>3

LEMMA LitRunFirst == ASSUME NEW recs PROVE LitRun(recs, 1) = 0
BY LitRunIs

LEMMA LitRunNext ==
    ASSUME NEW recs, NEW k \in Nat, k > 0
    PROVE  LitRun(recs, k + 1) = IF recs[k].len > 0 THEN 0 ELSE LitRun(recs, k) + 1
<1>0. k + 1 \in Nat /\ k + 1 > 0 /\ (k + 1) - 1 = k
  OBVIOUS
<1>1. LitRun(recs, k + 1) = k - Latest(Earlier(recs, k + 1))
  BY <1>0, LitRunIs
<1>2. Earlier(recs, k + 1) \in SUBSET (1..k)
  BY <1>0 DEF Earlier
<1>3. CASE recs[k].len > 0
  <2>1. k \in Earlier(recs, k + 1)
    BY <1>3 DEF Earlier
  <2>2. Latest(Earlier(recs, k + 1)) = k
    BY <1>2, <2>1, LatestIs
  <2> QED
    BY <1>1, <1>3, <2>2
<1>4. CASE ~(recs[k].len > 0)
  <2>1. ASSUME NEW j \in 1..k PROVE recs[j].len > 0 => j \in 1..k - 1
    BY <1>4
  <2>2. 1..k - 1 \subseteq 1..k
    OBVIOUS
  <2>3. Earlier(recs, k + 1) = Earlier(recs, k)
    BY <1>0, <2>1, <2>2 DEF Earlier
  <2>4. LitRun(recs, k) = (k - 1) - Latest(Earlier(recs, k)) /\ LitRun(recs, k) \in 0..k - 1
    BY LitRunIs
  <2>5. Latest(Earlier(recs, k)) \in 0..k
    BY <1>2, <2>3, LatestIs
  <2> QED
    BY <1>1, <1>4, <2>3, <2>4, <2>5
<1> QED
  BY <1>3, <1>4

(* Some run reaches the limit just if one does that a match or the end of  *)
(* the block follows.                                                      *)
Full(recs, m) == \E k \in 1..m : LitRun(recs, k) >= MaxLit

LEMMA LongestRunIs ==
    ASSUME NEW recs, Len(recs) \in Nat
    PROVE  LongestRun(recs) >= MaxLit <=> Full(recs, Len(recs) + 1)
<1> DEFINE n == Len(recs)
           ends == MatchIdx(recs) \cup {n + 1}
           runs == {LitRun(recs, k) : k \in ends}
<1>0. n \in Nat /\ MaxLit \in Nat
  BY ConstantTypes
<1>1. ends \subseteq 1..n + 1
  BY <1>0 DEF MatchIdx
<1>2. \A k \in 1..n + 1 : LitRun(recs, k) \in 0..k - 1
  BY <1>0, LitRunIs
<1>3. LongestRun(recs) \in runs /\ \A m \in runs : m <= LongestRun(recs)
  <2> DEFINE T == {n - m : m \in runs}
  <2>1. runs \subseteq 0..n
    BY <1>0, <1>1, <1>2
  <2>2. runs # {}
    OBVIOUS
  <2> HIDE DEF runs
  <2>3. T \in SUBSET Nat /\ T # {}
    <3>1. \A m \in runs : n - m \in Nat
      <4>1. \A m \in 0..n : n - m \in Nat
        BY <1>0
      <4> QED
        BY <2>1, <4>1
    <3> QED
      BY <2>2, <3>1
  <2>4. PICK x \in T : \A y \in T : x <= y
    <3> HIDE DEF T
    <3> QED
      BY <2>3, Smallest
  <2>5. PICK j \in runs : x = n - j
    OBVIOUS
  <2>6. ASSUME NEW m \in runs PROVE m <= j
    <3>1. n - m \in T
      OBVIOUS
    <3>2. n - j <= n - m
      BY <2>4, <2>5, <3>1
    <3> QED
      BY <1>0, <2>1, <3>2
  <2>7. \E i \in runs : \A m \in runs : m <= i
    BY <2>6
  <2>8. LongestRun(recs) = CHOOSE i \in runs : \A m \in runs : m <= i
    BY DEF LongestRun, runs
  <2> QED
    BY <2>7, <2>8
<1>4. ASSUME LongestRun(recs) >= MaxLit PROVE Full(recs, n + 1)
  <2>1. PICK k \in ends : LongestRun(recs) = LitRun(recs, k)
    BY <1>3
  <2> QED
    BY <1>1, <1>4, <2>1 DEF Full
<1>5. ASSUME Full(recs, n + 1) PROVE LongestRun(recs) >= MaxLit
  <2> DEFINE T == {(n + 1) - k : k \in {i \in 1..n + 1 : LitRun(recs, i) >= MaxLit}}
  <2>1. T \in SUBSET Nat /\ T # {}
    BY <1>0, <1>5 DEF Full
  <2>2. PICK x \in T : \A y \in T : x <= y
    <3> HIDE DEF T
    <3> QED
      BY <2>1, Smallest
  <2>3. PICK k \in 1..n + 1 : LitRun(recs, k) >= MaxLit /\ x = (n + 1) - k
    OBVIOUS
  <2>4. k \in ends
    <3> SUFFICES ASSUME k \notin ends PROVE FALSE
      OBVIOUS
    <3>1. k \in 1..n /\ ~(recs[k].len > 0)
      BY <1>0 DEF MatchIdx
    <3>2. LitRun(recs, k + 1) = LitRun(recs, k) + 1
      <4>1. k \in Nat /\ k > 0
        BY <3>1
      <4>2. LitRun(recs, k + 1) = IF recs[k].len > 0 THEN 0 ELSE LitRun(recs, k) + 1
        BY <4>1, LitRunNext, SMTT(30)
      <4> QED
        BY <3>1, <4>2
    <3>3. k + 1 \in 1..n + 1 /\ LitRun(recs, k + 1) >= MaxLit
      BY <1>0, <1>2, <2>3, <3>1, <3>2
    <3>4. (n + 1) - (k + 1) \in T
      BY <3>3
    <3>5. (n + 1) - k <= (n + 1) - (k + 1)
      BY <2>2, <2>3, <3>4
    <3> QED
      BY <1>0, <3>5
  <2>5. LitRun(recs, k) \in runs
    BY <2>4
  <2>6. LitRun(recs, k) <= LongestRun(recs)
    BY <1>3, <2>5
  <2>7. LitRun(recs, k) \in Int /\ LongestRun(recs) \in Int
    <3>1. PICK i \in ends : LongestRun(recs) = LitRun(recs, i)
      BY <1>3
    <3> QED
      BY <1>1, <1>2, <3>1
  <2> QED
    BY <1>0, <2>3, <2>6, <2>7
<1> QED
  BY <1>4, <1>5

(* The bytes of the sequences of the first m records.                      *)
BytesUpto(recs, m) == SumOver(recs, {k \in 1..m : recs[k].len > 0})

LEMMA ExtraBytesType == \A n \in Nat : ExtraBytes(n) \in Nat
<1> TAKE n \in Nat
<1>1. NibbleMax \in Nat /\ ByteMax \in Nat /\ ByteMax > 0
  BY ConstantTypes, FormatAssumption DEF FormatAssumption
<1>2. \A a \in Nat : a \div ByteMax \in Nat
  BY <1>1
<1>3. n >= NibbleMax => n - NibbleMax \in Nat
  BY <1>1
<1> QED
  BY <1>1, <1>2, <1>3 DEF ExtraBytes

(* A match is long enough to be encoded.                                   *)
WellSized(recs) ==
    /\ recs \in Seq(Record)
    /\ \A k \in 1..Len(recs) : recs[k].len > 0 =>
         recs[k].len >= MinMatch /\ ~IsMark(recs[k].len - MinMatch, recs[k].off)

LEMMA SeqSizeType ==
    ASSUME NEW recs, WellSized(recs), NEW k \in 1..Len(recs), recs[k].len > 0
    PROVE  SeqSize(recs, k) \in Nat
<1>1. LitRun(recs, k) \in Nat
  BY LitRunIs DEF WellSized
<1>2. recs[k].len - MinMatch \in Nat
  <2>1. recs[k] \in Record /\ recs[k].len >= MinMatch /\ MinMatch \in Nat
    BY ConstantTypes, FormatAssumption DEF WellSized, FormatAssumption
  <2> QED
    BY <2>1, RecordFacts
<1>3. ExtraBytes(LitRun(recs, k)) \in Nat /\ ExtraBytes(recs[k].len - MinMatch) \in Nat
  BY <1>1, <1>2, ExtraBytesType
<1> QED
  BY <1>1, <1>3 DEF SeqSize

LEMMA BytesUptoIs ==
    ASSUME NEW recs, WellSized(recs)
    PROVE  /\ BytesUpto(recs, 0) = 0
           /\ \A m \in 0..Len(recs) : BytesUpto(recs, m) \in Nat
           /\ \A m \in 1..Len(recs) :
                BytesUpto(recs, m) = BytesUpto(recs, m - 1)
                                       + IF recs[m].len > 0 THEN SeqSize(recs, m) ELSE 0
<1> DEFINE Z(m) == {k \in 1..m : recs[k].len > 0}
<1>0. Len(recs) \in Nat
  BY DEF WellSized
<1>1. \A m \in 0..Len(recs) : IsFiniteSet(Z(m)) /\ Sizable(recs, Z(m))
  <2> TAKE m \in 0..Len(recs)
  <2>1. IsFiniteSet(1..m)
    BY <1>0, FS_Interval
  <2>2. Z(m) \subseteq 1..m /\ Z(m) \subseteq 1..Len(recs) /\ \A k \in Z(m) : recs[k].len > 0
    BY <1>0
  <2> HIDE DEF Z
  <2>3. IsFiniteSet(Z(m))
    BY <2>1, <2>2, FS_Subset
  <2>4. Sizable(recs, Z(m))
    BY <2>2, SeqSizeType DEF Sizable
  <2> QED
    BY <2>3, <2>4
<1>2. BytesUpto(recs, 0) = 0
  <2>1. {k \in 1..0 : recs[k].len > 0} = {}
    OBVIOUS
  <2> QED
    BY <2>1, SumOverNone DEF BytesUpto
<1>3. \A m \in 0..Len(recs) : BytesUpto(recs, m) = SumOver(recs, Z(m))
  BY DEF BytesUpto
<1>4. ASSUME NEW m \in 1..Len(recs)
      PROVE  /\ BytesUpto(recs, m - 1) \in Nat
             /\ BytesUpto(recs, m) = BytesUpto(recs, m - 1)
                                       + IF recs[m].len > 0 THEN SeqSize(recs, m) ELSE 0
  <2>1. m - 1 \in 0..Len(recs) /\ m \in 0..Len(recs) /\ m \in Nat
    BY <1>0
  <2>2. m \notin Z(m - 1) /\ Z(m) = IF recs[m].len > 0 THEN Z(m - 1) \cup {m} ELSE Z(m - 1)
    BY <2>1
  <2>3. IsFiniteSet(Z(m - 1)) /\ Sizable(recs, Z(m - 1)) /\ Sizable(recs, Z(m))
    BY <1>1, <2>1
  <2>4. SumOver(recs, Z(m - 1)) \in Nat
    <3>1. PICK g : Summing(recs, Z(m - 1), g) /\ SumOver(recs, Z(m - 1)) = g[Z(m - 1)]
      BY <2>3, SumOverIs
    <3> HIDE DEF Z
    <3> QED
      BY <2>3, <3>1, SumType
  <2>5. CASE recs[m].len > 0
    <3>1. SumOver(recs, Z(m - 1) \cup {m}) = SumOver(recs, Z(m - 1)) + SeqSize(recs, m)
      <4>1. Sizable(recs, Z(m - 1) \cup {m})
        BY <2>2, <2>3, <2>5
      <4> HIDE DEF Z
      <4> QED
        BY <2>2, <2>3, <4>1, SumOverMore
    <3> HIDE DEF Z
    <3> QED
      BY <1>3, <2>1, <2>2, <2>4, <2>5, <3>1
  <2>6. CASE ~(recs[m].len > 0)
    <3> HIDE DEF Z
    <3> QED
      BY <1>3, <2>1, <2>2, <2>4, <2>6
  <2> QED
    <3> HIDE DEF Z
    <3> QED
      BY <1>3, <2>1, <2>4, <2>5, <2>6
<1>5. \A m \in 0..Len(recs) : BytesUpto(recs, m) \in Nat
  <2> TAKE m \in 0..Len(recs)
  <2>1. CASE m = 0
    BY <1>2, <2>1
  <2>2. CASE m # 0
    <3>1. m \in 1..Len(recs)
      BY <2>2
    <3>2. ASSUME recs[m].len > 0 PROVE SeqSize(recs, m) \in Nat
      BY <3>1, <3>2, SeqSizeType
    <3> QED
      BY <1>4, <3>1, <3>2
  <2> QED
    BY <2>1, <2>2
<1> QED
  BY <1>2, <1>4, <1>5

LEMMA EncodedSizeEnds ==
    ASSUME NEW recs
    PROVE  LET n == LitRun(recs, Len(recs) + 1)
           IN  EncodedSize(recs) = BytesUpto(recs, Len(recs))
                                     + (IF n = 0 THEN 0 ELSE 1 + ExtraBytes(n) + n)
BY EncodedSizeIs DEF BytesUpto, MatchIdx


-----------------------------------------------------------------------------
(***************************************************************************)
(* The bytes of a sequence, counted twice: by its fields when Part1        *)
(* announces it, and by Part2's state when it writes it.                   *)
(***************************************************************************)
BytesOf(v) ==
    IF IsMark(v.match, v.off) THEN 1 + ExtraBytes(v.lit) + v.lit
    ELSE 3 + ExtraBytes(v.lit) + v.lit + ExtraBytes(v.match)
ByteSteps ==
    {s \in Nat \X SequenceType \X Nat :
        /\ s[2].match >= 0 /\ (IsMark(s[2].match, s[2].off) => s[2].lit > 0)
        /\ s[3] = s[1] + BytesOf(s[2])}

(* What Part2 has still to write of the sequence it is in.                 *)
MatchOwed(p) == IF p.extra THEN 1 + p.matchLen \div ByteMax ELSE 0
OffsetOwed(p) == IF p.ending THEN 0 ELSE 2 + MatchOwed(p)
Owed(p) ==
    CASE p.st = "token" -> 0
      [] p.st = "litlen" -> 1 + p.litLen \div ByteMax + p.writeLit + OffsetOwed(p)
      [] p.st = "literal" -> p.writeLit + OffsetOwed(p)
      [] p.st = "offset0" -> OffsetOwed(p)
      [] p.st = "offset1" -> 1 + MatchOwed(p)
      [] p.st = "matchlen" -> 1 + p.matchLen \div ByteMax

(* Of the d bytes of the sequences it has read, Part2 has sent those it    *)
(* does not owe, up to the size of the block.                              *)
Sent(p) == IF p.pc \in {"out", "eos"} THEN p.csize + 1 ELSE p.csize
Written(p, n, d) ==
    /\ Owed(p) \in Nat /\ Owed(p) <= d /\ Sent(p) = Least(n, d - Owed(p))
    /\ p.ending => p.st \in {"token", "litlen", "literal"}

LEMMA QuotientLess ==
    ASSUME NEW d \in Nat, d > 0, NEW n \in Nat
    PROVE  /\ n \div d \in Nat
           /\ n < d => n \div d = 0
           /\ n >= d => n - d \in Nat /\ (n - d) \div d = (n \div d) - 1
<1> DEFINE q == n \div d
           r == n % d
<1>1. q \in Int /\ r \in 0..d - 1 /\ n = d * q + r
  OBVIOUS
<1>2. q \in Nat
  OBVIOUS
<1>3. ASSUME n < d PROVE q = 0
  <2>1. (0 * d + n) \div d = 0
    BY <1>3, Digits
  <2>2. 0 * d + n = n
    OBVIOUS
  <2> QED
    BY <2>1, <2>2
<1> HIDE DEF q, r
<1>4. ASSUME n >= d PROVE n - d \in Nat /\ (n - d) \div d = q - 1
  <2>1. q # 0
    BY <1>1, <1>4
  <2>2. q - 1 \in Nat /\ r \in Nat /\ r < d
    BY <1>1, <1>2, <2>1
  <2> DEFINE p == q - 1
  <2>3. (p * d + r) \div d = p
    <3> HIDE DEF p
    <3>1. p \in Nat
      BY <2>2 DEF p
    <3> QED
      BY <2>2, <3>1, Digits
  <2>4. (q - 1) * d = d * q - d
    BY <1>2
  <2>5. p * d + r = n - d
    BY <1>1, <2>2, <2>4
  <2> QED
    BY <1>4, <2>3, <2>5
<1> QED
  BY <1>2, <1>3, <1>4 DEF q

LEMMA BytesOfType ==
    ASSUME NEW v \in SequenceType, v.match >= 0
    PROVE  BytesOf(v) \in Nat /\ BytesOf(v) > 0
<1>1. v.lit \in Nat /\ v.match \in Nat
  BY SequenceFacts
<1>2. ExtraBytes(v.lit) \in Nat /\ ExtraBytes(v.match) \in Nat
  BY <1>1, ExtraBytesType
<1> QED
  BY <1>1, <1>2 DEF BytesOf

LEMMA ByteStep ==
    ASSUME NEW d \in Nat, NEW v \in SequenceType, NEW f
    PROVE  <<d, v, f>> \in ByteSteps
             <=> /\ v.match >= 0 /\ (IsMark(v.match, v.off) => v.lit > 0)
                 /\ f = d + BytesOf(v)
<1>1. v.match >= 0 => d + BytesOf(v) \in Nat
  BY BytesOfType
<1> QED
  BY <1>1, Zenon DEF ByteSteps

(* One more byte is counted, and sent while the output is shorter.         *)
LEMMA OneByteMore ==
    ASSUME TypeOK, p2.pc = "loop", AfterByte(p2'.pc), p2'.csize = p2.csize, size' = size,
           NEW d \in Nat, Written(p2, size, d),
           NEW f \in Nat, Owed(p2') \in Nat, f - Owed(p2') = (d - Owed(p2)) + 1,
           p2'.ending => p2'.st \in {"token", "litlen", "literal"}
    PROVE  Written(p2', size', f)
<1> DEFINE c == p2.csize
           a == d - Owed(p2)
<1>1. c \in Nat /\ size \in Nat
  BY Part2Facts
<1>2. a \in Nat /\ c = Least(size, a)
  BY DEF Written, Sent
<1>3. f - Owed(p2') = a + 1
  OBVIOUS
<1>4. Sent(p2') = IF c < size THEN c + 1 ELSE c
  BY DEF AfterByte, Sent
<1> HIDE DEF c, a
<1>5. (IF c < size THEN c + 1 ELSE c) = Least(size, a + 1)
  BY <1>1, <1>2 DEF Least
<1>6. Owed(p2') <= f
  <2> DEFINE o == Owed(p2')
  <2>1. o \in Nat /\ f - o = a + 1
    BY <1>3
  <2> HIDE DEF o
  <2>2. o <= f
    BY <1>2, <2>1
  <2> QED
    BY <2>2 DEF o
<1> QED
  BY <1>3, <1>4, <1>5, <1>6 DEF Written

LEMMA TokenOwed ==
    ASSUME TypeOK, WriteToken, NEW v, v = Head(lenQ), ~p2.ending, v.match >= 0,
           IsMark(v.match, v.off) => v.lit > 0
    PROVE  /\ Owed(p2) = 0 /\ Owed(p2') = BytesOf(v) - 1 /\ Owed(p2') \in Nat
           /\ p2'.ending => p2'.st \in {"token", "litlen", "literal"}
<1> DEFINE x == ExtraBytes(v.lit)
           y == ExtraBytes(v.match)
<1>1. /\ v \in SequenceType /\ p2.st = "token" /\ p2'.writeLit = v.lit
      /\ p2'.litLen = v.lit - Least(v.lit, NibbleMax)
      /\ p2'.matchLen = v.match - Least(v.match, NibbleMax)
      /\ (p2'.extra <=> v.match >= NibbleMax) /\ (p2'.ending <=> IsMark(v.match, v.off))
      /\ p2'.st = IF v.lit >= NibbleMax THEN "litlen"
                  ELSE IF v.lit > 0 THEN "literal" ELSE "offset0"
  BY TokenFields
<1>2. v.lit \in Nat /\ v.match \in Nat /\ NibbleMax \in Nat /\ NibbleMax > 0
  <2>1. v.lit \in Nat /\ v.match \in Int
    BY <1>1, SequenceFacts
  <2>2. NibbleMax \in Nat /\ NibbleMax > 0
    BY Part2Facts
  <2> QED
    BY <2>1, <2>2
<1>3. x \in Nat /\ y \in Nat /\ BytesOf(v) \in Nat /\ BytesOf(v) > 0
  BY <1>1, <1>2, ExtraBytesType, BytesOfType
<1>4. MatchOwed(p2') = y
  BY <1>1, <1>2 DEF MatchOwed, ExtraBytes, Least
<1>5. OffsetOwed(p2') = IF IsMark(v.match, v.off) THEN 0 ELSE 2 + y
  BY <1>1, <1>4 DEF OffsetOwed
<1>6. Owed(p2') = x + v.lit + OffsetOwed(p2')
  <2>1. CASE v.lit >= NibbleMax
    <3>1. p2'.st = "litlen" /\ p2'.litLen = v.lit - NibbleMax /\ x = 1 + (v.lit - NibbleMax) \div ByteMax
      BY <1>1, <1>2, <2>1 DEF Least, ExtraBytes
    <3>2. Owed(p2') = 1 + p2'.litLen \div ByteMax + p2'.writeLit + OffsetOwed(p2')
      BY <3>1 DEF Owed
    <3> QED
      BY <1>1, <3>1, <3>2
  <2>2. CASE v.lit < NibbleMax
    <3>1. x = 0
      BY <2>2 DEF ExtraBytes
    <3>2. OffsetOwed(p2') \in Nat
      BY <1>3, <1>5
    <3>3. CASE v.lit > 0
      <4>1. p2'.st = "literal"
        BY <1>1, <1>2, <2>2, <3>3
      <4> QED
        BY <1>1, <1>2, <3>1, <3>2, <4>1 DEF Owed
    <3>4. CASE v.lit = 0
      <4>1. p2'.st = "offset0"
        BY <1>1, <1>2, <2>2, <3>4
      <4> QED
        BY <1>1, <1>2, <3>1, <3>2, <3>4, <4>1 DEF Owed
    <3> QED
      BY <1>2, <3>3, <3>4
  <2> QED
    BY <1>2, <2>1, <2>2
<1>7. BytesOf(v) = IF IsMark(v.match, v.off) THEN 1 + x + v.lit ELSE 3 + x + v.lit + y
  BY DEF BytesOf
<1> HIDE DEF x, y
<1>8. Owed(p2') = BytesOf(v) - 1
  BY <1>2, <1>3, <1>5, <1>6, <1>7
<1>9. p2'.ending => p2'.st \in {"token", "litlen", "literal"}
  BY <1>1, <1>2
<1>10. Owed(p2) = 0
  BY <1>1 DEF Owed
<1> QED
  BY <1>3, <1>8, <1>9, <1>10

(* Every other byte is one that was owed.                                  *)
OneByteLess ==
    /\ Owed(p2') = Owed(p2) - 1 /\ Owed(p2') \in Nat
    /\ p2'.ending => p2'.st \in {"token", "litlen", "literal"}

LEMMA OwedTypes ==
    ASSUME TypeOK
    PROVE  /\ MatchOwed(p2) \in Nat /\ OffsetOwed(p2) \in Nat
           /\ p2.litLen \div ByteMax \in Nat /\ p2.matchLen \div ByteMax \in Nat
<1>1. p2.litLen \div ByteMax \in Nat /\ p2.matchLen \div ByteMax \in Nat
  BY Part2Facts, QuotientLess
<1>2. MatchOwed(p2) \in Nat
  BY <1>1 DEF MatchOwed
<1> QED
  BY <1>1, <1>2 DEF OffsetOwed

LEMMA SameOwed ==
    ASSUME p2'.ending = p2.ending, p2'.extra = p2.extra, p2'.matchLen = p2.matchLen
    PROVE  MatchOwed(p2') = MatchOwed(p2) /\ OffsetOwed(p2') = OffsetOwed(p2)
BY DEF MatchOwed, OffsetOwed

LEMMA LitLenOwed ==
    ASSUME TypeOK, Accounting, WriteLitLen
    PROVE  OneByteLess
<1> DEFINE a == p2.litLen \div ByteMax
           w == p2.writeLit
           o == OffsetOwed(p2)
<1>1. /\ p2.st = "litlen" /\ p2'.writeLit = w
      /\ IF p2.litLen >= ByteMax THEN p2'.litLen = p2.litLen - ByteMax /\ p2'.st = "litlen"
         ELSE p2'.litLen = p2.litLen /\ p2'.st = "literal"
  BY LitLenFields
<1>2. OffsetOwed(p2') = o
  BY LitLenFields, SameOwed
<1>3. a \in Nat /\ o \in Nat
  BY OwedTypes
<1>4. w \in Nat /\ w > 0
  <2>1. p2.writeLit \in Int /\ p2.writeLit > 0
    BY <1>1, Part2Facts DEF Accounting, Part2Control
  <2> QED
    BY <2>1
<1>5. Owed(p2) = 1 + a + w + o
  BY <1>1 DEF Owed
<1>6. p2.litLen \in Nat /\ ByteMax \in Nat /\ ByteMax > 0
  BY Part2Facts
<1>7. CASE p2.litLen >= ByteMax
  <2>1. (p2.litLen - ByteMax) \div ByteMax = a - 1 /\ p2.litLen - ByteMax \in Nat
    BY <1>6, <1>7, QuotientLess
  <2>2. Owed(p2') = 1 + (a - 1) + w + o
    BY <1>1, <1>2, <1>7, <2>1 DEF Owed
  <2>3. a - 1 \in Nat
    BY <1>6, <2>1, QuotientLess
  <2>4. p2'.st = "litlen"
    BY <1>1, <1>7
  <2> HIDE DEF a, w, o
  <2> QED
    BY <1>3, <1>4, <1>5, <2>2, <2>3, <2>4 DEF OneByteLess
<1>8. CASE p2.litLen < ByteMax
  <2>1. a = 0
    BY <1>6, <1>8, QuotientLess
  <2>2. p2'.st = "literal"
    BY <1>1, <1>6, <1>8
  <2>3. Owed(p2') = w + o
    BY <1>1, <1>2, <2>2 DEF Owed
  <2> HIDE DEF a, w, o
  <2> QED
    BY <1>3, <1>4, <1>5, <2>1, <2>2, <2>3 DEF OneByteLess
<1> QED
  BY <1>6, <1>7, <1>8

LEMMA LiteralOwed ==
    ASSUME TypeOK, Accounting, NEW d, Written(p2, size, d), WriteLiteral
    PROVE  OneByteLess
<1> DEFINE w == p2.writeLit
           o == OffsetOwed(p2)
           last == w = 1
<1>1. /\ p2.st = "literal" /\ p2'.writeLit = w - 1 /\ p2'.ending = p2.ending
      /\ p2'.st = IF ~last THEN "literal" ELSE IF p2.ending THEN "token" ELSE "offset0"
  BY LiteralFields
<1>2. OffsetOwed(p2') = o
  BY LiteralFields, SameOwed
<1>3. o \in Nat /\ (p2.ending => o = 0)
  BY OwedTypes DEF OffsetOwed
<1>4. w \in Nat /\ w > 0
  <2>1. p2.writeLit \in Int /\ p2.writeLit > 0
    BY <1>1, Part2Facts DEF Accounting, Part2Control
  <2> QED
    BY <2>1
<1>5. Owed(p2) = w + o
  BY <1>1 DEF Owed
<1>6. Owed(p2') = IF ~last THEN (w - 1) + o ELSE IF p2.ending THEN 0 ELSE o
  BY <1>1, <1>2 DEF Owed
<1>7. p2'.ending => p2'.st \in {"token", "litlen", "literal"}
  BY <1>1
<1> HIDE DEF o, w
<1> QED
  BY <1>3, <1>4, <1>5, <1>6, <1>7 DEF OneByteLess

LEMMA OffsetsOwed ==
    ASSUME TypeOK, NEW d, Written(p2, size, d), WriteOffset0 \/ WriteOffset1
    PROVE  OneByteLess
<1>1. CASE WriteOffset0
  <2>1. p2.st = "offset0" /\ p2'.st = "offset1" /\ p2'.ending = p2.ending
    BY <1>1, Offset0Fields
  <2>2. MatchOwed(p2') = MatchOwed(p2)
    BY <1>1, Offset0Fields, SameOwed
  <2>3. ~p2.ending
    BY <2>1 DEF Written
  <2>4. Owed(p2) = 2 + MatchOwed(p2) /\ Owed(p2') = 1 + MatchOwed(p2')
    BY <2>1, <2>3 DEF Owed, OffsetOwed
  <2> QED
    BY <2>1, <2>2, <2>3, <2>4, OwedTypes DEF OneByteLess
<1>2. CASE WriteOffset1
  <2>1. /\ p2.st = "offset1" /\ p2'.st = IF p2.extra THEN "matchlen" ELSE "token"
        /\ p2'.ending = p2.ending /\ p2'.matchLen = p2.matchLen
    BY <1>2, Offset1Fields
  <2>2. ~p2.ending
    BY <2>1 DEF Written
  <2>3. Owed(p2) = 1 + MatchOwed(p2)
    BY <2>1 DEF Owed
  <2>4. Owed(p2') = MatchOwed(p2)
    BY <2>1 DEF Owed, MatchOwed
  <2> QED
    BY <2>1, <2>2, <2>3, <2>4, OwedTypes DEF OneByteLess
<1> QED
  BY <1>1, <1>2

LEMMA MatchLenOwed ==
    ASSUME TypeOK, NEW d, Written(p2, size, d), WriteMatchLen
    PROVE  OneByteLess
<1> DEFINE a == p2.matchLen \div ByteMax
<1>1. /\ p2.st = "matchlen" /\ p2'.ending = p2.ending
      /\ IF p2.matchLen >= ByteMax
         THEN p2'.matchLen = p2.matchLen - ByteMax /\ p2'.st = "matchlen"
         ELSE p2'.st = "token"
  BY MatchLenFields
<1>2. ~p2.ending
  BY <1>1 DEF Written
<1>3. a \in Nat
  BY OwedTypes
<1>4. Owed(p2) = 1 + a
  BY <1>1 DEF Owed
<1>5. p2.matchLen \in Nat /\ ByteMax \in Nat /\ ByteMax > 0
  BY Part2Facts
<1>6. CASE p2.matchLen >= ByteMax
  <2>1. (p2.matchLen - ByteMax) \div ByteMax = a - 1 /\ p2.matchLen - ByteMax \in Nat
    BY <1>5, <1>6, QuotientLess
  <2>2. Owed(p2') = 1 + (a - 1)
    BY <1>1, <1>6, <2>1 DEF Owed
  <2>3. a - 1 \in Nat
    BY <1>5, <2>1, QuotientLess
  <2> HIDE DEF a
  <2> QED
    BY <1>1, <1>2, <1>3, <1>4, <2>2, <2>3 DEF OneByteLess
<1>7. CASE p2.matchLen < ByteMax
  <2>1. a = 0
    BY <1>5, <1>7, QuotientLess
  <2>2. p2'.st = "token"
    BY <1>1, <1>5, <1>7
  <2>3. Owed(p2') = 0
    BY <2>2 DEF Owed
  <2> HIDE DEF a
  <2> QED
    BY <1>1, <1>2, <1>4, <2>1, <2>3 DEF OneByteLess
<1> QED
  BY <1>5, <1>6, <1>7

-----------------------------------------------------------------------------
(***************************************************************************)
(* Where Part1 is in the records of its block, what it has counted, and    *)
(* the bytes of what it has announced.                                     *)
(***************************************************************************)
Measurable(R) == PlaceFacts(R) /\ WellSized(R)

InPlace(R, p, m) ==
    /\ m \in 0..Len(R) /\ p.i = PlaceOf(R, m)
    /\ p.pc = "done" => m = Len(R)

(* The literal count is that of the records, unless a run was too long.    *)
Counts(R, p, m, lim) ==
    IF p.pc = "done" THEN lim <=> Full(R, Len(R) + 1)
    ELSE IF p.flag THEN Full(R, m + 1) /\ p.litCount = MaxLit
    ELSE p.litCount = LitRun(R, m + 1) /\ ~Full(R, m)

Kept(p, lim) == IF p.pc = "done" THEN ~lim ELSE ~p.flag
Total(R, p, m) == IF p.pc = "done" THEN EncodedSize(R) ELSE BytesUpto(R, m)
Adding(e) == \E d \in Nat : Path(ByteSteps, lenQ, d, e) /\ Written(p2, size, d)

Measured(R, m) ==
    /\ InPlace(R, p1, m) /\ Counts(R, p1, m, limit)
    /\ Kept(p1, limit) => Adding(Total(R, p1, m))

SizeInv ==
    /\ SizeDetermined
    /\ p1.pc # "idle" => \E m : Measured(Block.recs, m)

LEMMA PlacesGrow ==
    ASSUME NEW R, PlaceFacts(R)
    PROVE  \A k \in 0..Len(R) : \A j \in 0..k - 1 : PlaceOf(R, j) < PlaceOf(R, k)
<1> DEFINE n == Len(R)
           P(k) == PlaceOf(R, k)
           bad == {k \in 0..n : ~\A j \in 0..k - 1 : P(j) < P(k)}
<1>1. /\ n \in Nat /\ \A k \in 0..n : P(k) \in Nat
      /\ \A k \in 1..n : P(k) = P(k - 1) + RecLen(R[k]) /\ RecLen(R[k]) \in Nat /\ RecLen(R[k]) > 0
  BY DEF PlaceFacts
<1> HIDE DEF n, P
<1>2. ASSUME NEW k \in bad, \A y \in bad : k <= y PROVE FALSE
  <2>1. PICK j \in 0..k - 1 : ~(P(j) < P(k))
    OBVIOUS
  <2>2. k \in 1..n /\ k - 1 \in 0..n /\ k - 1 \notin bad /\ j \in 0..n
    BY <1>1, <1>2, <2>1
  <2>3. P(k - 1) < P(k) /\ P(k) \in Nat /\ P(k - 1) \in Nat /\ P(j) \in Nat
    <3>1. P(k) = P(k - 1) + RecLen(R[k]) /\ RecLen(R[k]) \in Nat /\ RecLen(R[k]) > 0
      BY <1>1, <2>2
    <3>2. P(k) \in Nat /\ P(k - 1) \in Nat /\ P(j) \in Nat
      BY <1>1, <2>2
    <3> QED
      BY <3>1, <3>2
  <2>4. CASE j = k - 1
    BY <2>1, <2>3, <2>4
  <2>5. CASE j # k - 1
    <3>1. j \in 0..(k - 1) - 1
      BY <2>2, <2>5
    <3>2. P(j) < P(k - 1)
      BY <2>2, <3>1
    <3> QED
      BY <2>1, <2>3, <3>2
  <2> QED
    BY <2>4, <2>5
<1>3. bad = {}
  <2>1. bad \in SUBSET Nat
    BY <1>1
  <2> HIDE DEF bad
  <2> QED
    BY <1>2, <2>1, Smallest
<1> QED
  BY <1>3 DEF n, P

LEMMA NextPlace ==
    ASSUME NEW R, PlaceFacts(R), NEW m \in 0..Len(R), NEW r, NEW e,
           <<PlaceOf(R, m), r, e>> \in Places(R)
    PROVE  m + 1 \in 1..Len(R) /\ r = R[m + 1] /\ e = PlaceOf(R, m + 1)
<1>0. Len(R) \in Nat
  BY DEF PlaceFacts
<1>1. PICK k \in 1..Len(R) : <<PlaceOf(R, m), r, e>> = <<PlaceOf(R, k - 1), R[k], PlaceOf(R, k)>>
  BY DEF Places
<1>2. PlaceOf(R, m) = PlaceOf(R, k - 1) /\ r = R[k] /\ e = PlaceOf(R, k)
  BY <1>1
<1>3. k - 1 \in 0..Len(R) /\ k - 1 \in Nat /\ m \in Nat
  BY <1>0
<1> DEFINE i == k - 1
           a == PlaceOf(R, m)
<1>4. i \in 0..Len(R) /\ i \in Nat /\ a = PlaceOf(R, i) /\ a \in Nat
  BY <1>2, <1>3 DEF PlaceFacts
<1>5. k = i + 1
  OBVIOUS
<1> HIDE DEF i
<1>6. ~(m < i) /\ ~(i < m)
  <2>1. ASSUME m < i PROVE FALSE
    <3>1. m \in 0..i - 1
      BY <1>3, <1>4, <2>1
    <3>2. PlaceOf(R, m) < PlaceOf(R, i)
      BY <1>4, <3>1, PlacesGrow
    <3> HIDE DEF a
    <3> QED
      BY <1>4, <3>2 DEF a
  <2>2. ASSUME i < m PROVE FALSE
    <3>1. i \in 0..m - 1
      BY <1>3, <1>4, <2>2
    <3>2. PlaceOf(R, i) < PlaceOf(R, m)
      BY <3>1, PlacesGrow
    <3> HIDE DEF a
    <3> QED
      BY <1>4, <3>2 DEF a
  <2> QED
    BY <2>1, <2>2
<1>7. i = m
  BY <1>3, <1>4, <1>6
<1> QED
  BY <1>2, <1>5, <1>7

LEMMA FullFacts ==
    ASSUME NEW R, NEW k \in Nat
    PROVE  ~Full(R, 0) /\ (Full(R, k + 1) <=> Full(R, k) \/ LitRun(R, k + 1) >= MaxLit)
<1>1. 1..0 = {} /\ 1..k + 1 = (1..k) \cup {k + 1}
  OBVIOUS
<1> QED
  BY <1>1 DEF Full

(* Steps of Part1 that take no record.                                     *)
LEMMA FetchMeasured ==
    ASSUME TypeOK, NEW R, NEW m, Measured(R, m), P1First \/ P1Fetch
    PROVE  Measured(R, m)'
<1>1. /\ p1.pc \in {"first", "loop"} /\ limit' = limit /\ lenQ' = lenQ /\ p2' = p2 /\ size' = size
  BY DEF P1First, P1Fetch
<1>2. /\ p1'.pc \in {"loop", "emit"} /\ p1'.i = p1.i /\ p1'.litCount = p1.litCount
      /\ p1'.flag = p1.flag
  BY Part1Facts DEF P1Type, P1First, P1Fetch
<1>3. p1.pc # "done" /\ p1'.pc # "done"
  BY <1>1, <1>2
<1>4. InPlace(R, p1', m) /\ Counts(R, p1', m, limit')
  BY <1>1, <1>2, <1>3 DEF Measured, InPlace, Counts
<1>5. (Kept(p1', limit') <=> Kept(p1, limit)) /\ Total(R, p1', m) = Total(R, p1, m)
  BY <1>1, <1>2, <1>3 DEF Kept, Total
<1>6. Kept(p1', limit') => Adding(Total(R, p1, m))'
  BY <1>1, <1>5 DEF Measured, Adding
<1> QED
  BY <1>4, <1>5, <1>6 DEF Measured, Adding

(* Steps that take the next one.                                           *)
Takes(R, m) ==
    /\ m \in Nat /\ m + 1 \in 1..Len(R) /\ R[m + 1] = p1.tmp
    /\ p1.pc = "emit" /\ p1'.pc = "loop" /\ InPlace(R, p1', m + 1)
    /\ size' = size /\ limit' = limit /\ p2' = p2

LEMMA TakesNext ==
    ASSUME TypeOK, NEW t, NEW L, NEW E, NEW R, NEW end, Working(t, L, E, Places(R), end),
           Measurable(R), NEW m, Measured(R, m), P1Drop \/ P1Match \/ P1Literal
    PROVE  Takes(R, m)
<1>1. /\ p1.pc = "emit" /\ limit' = limit /\ size' = size /\ p2' = p2
  BY DEF P1Drop, P1Match, P1Literal
<1>2. p1'.pc = "loop" /\ p1'.i = p1.i + RecLen(p1.tmp)
  BY Part1Facts DEF P1Type, P1Drop, P1Match, P1Literal, Advance
<1>3. <<p1.i, p1.tmp, p1.i + RecLen(p1.tmp)>> \in Places(R)
  BY <1>1 DEF Working, Part1Inv, Part1Place
<1>4. m \in 0..Len(R) /\ p1.i = PlaceOf(R, m) /\ Len(R) \in Nat /\ PlaceFacts(R)
  BY DEF Measured, InPlace, Measurable, PlaceFacts
<1>5. m + 1 \in 1..Len(R) /\ p1.tmp = R[m + 1] /\ p1'.i = PlaceOf(R, m + 1)
  BY <1>2, <1>3, <1>4, NextPlace
<1> QED
  BY <1>1, <1>2, <1>4, <1>5 DEF Takes, InPlace

LEMMA DropMeasured ==
    ASSUME TypeOK, NEW R, Measurable(R), NEW m, Measured(R, m), Takes(R, m), P1Drop
    PROVE  Measured(R, m + 1)'
<1>1. LitLimitReached /\ p1'.flag /\ p1'.litCount = p1.litCount
  BY Part1Facts DEF P1Type, P1Drop, Advance
<1>2. p1.litCount = MaxLit
  BY <1>1, Part1Facts DEF LitLimitReached
<1>3. m \in Nat /\ p1.pc = "emit" /\ p1'.pc = "loop" /\ InPlace(R, p1', m + 1)
  BY DEF Takes
<1>4. Full(R, m + 1)
  <2>1. CASE p1.flag
    BY <1>3, <2>1 DEF Measured, Counts
  <2>2. CASE ~p1.flag
    <3>1. LitRun(R, m + 1) = MaxLit
      BY <1>2, <1>3, <2>2 DEF Measured, Counts
    <3>2. LitRun(R, m + 1) >= MaxLit
      BY <3>1, Part1Facts
    <3> QED
      BY <1>3, <3>2, FullFacts
  <2> QED
    BY <2>1, <2>2
<1>5. Full(R, (m + 1) + 1)
  BY <1>3, <1>4, FullFacts
<1>6. Counts(R, p1', m + 1, limit') /\ ~Kept(p1', limit')
  BY <1>1, <1>2, <1>3, <1>5 DEF Counts, Kept
<1> QED
  BY <1>3, <1>6 DEF Measured

(* Before the limit is reached the count is that of the records.           *)
LEMMA BeforeLimit ==
    ASSUME TypeOK, NEW R, NEW m, Measured(R, m), Takes(R, m), ~LitLimitReached
    PROVE  /\ ~p1.flag /\ p1.litCount = LitRun(R, m + 1) /\ p1.litCount < MaxLit
           /\ p1.litCount \in Nat /\ ~Full(R, m + 1) /\ Adding(BytesUpto(R, m))
<1>1. p1.litCount \in Nat /\ p1.litCount < MaxLit
  BY Part1Facts DEF LitLimitReached
<1>2. p1.pc = "emit" /\ m \in Nat
  BY DEF Takes
<1>3. ~p1.flag
  BY <1>1, <1>2, Part1Facts DEF Measured, Counts
<1>4. p1.litCount = LitRun(R, m + 1) /\ ~Full(R, m)
  BY <1>2, <1>3 DEF Measured, Counts
<1>5. ~Full(R, m + 1)
  BY <1>1, <1>2, <1>4, FullFacts, Part1Facts
<1>6. Adding(BytesUpto(R, m))
  BY <1>2, <1>3 DEF Measured, Kept, Total
<1> QED
  BY <1>1, <1>3, <1>4, <1>5, <1>6

LEMMA LiteralMeasured ==
    ASSUME TypeOK, NEW R, Measurable(R), NEW m, Measured(R, m), Takes(R, m), P1Literal
    PROVE  Measured(R, m + 1)'
<1>1. ~LitLimitReached /\ p1.tmp.len = 0 /\ lenQ' = lenQ
  BY DEF P1Literal
<1>2. p1'.flag = p1.flag /\ p1'.litCount = p1.litCount + 1
  BY Part1Facts DEF P1Type, P1Literal, Advance
<1>3. /\ m \in Nat /\ m + 1 \in 1..Len(R) /\ R[m + 1] = p1.tmp /\ p1'.pc = "loop"
      /\ InPlace(R, p1', m + 1) /\ size' = size /\ limit' = limit /\ p2' = p2
  BY DEF Takes
<1>4. /\ ~p1.flag /\ p1.litCount = LitRun(R, m + 1) /\ ~Full(R, m + 1)
      /\ Adding(BytesUpto(R, m))
  BY <1>1, BeforeLimit
<1>5. LitRun(R, (m + 1) + 1) = p1.litCount + 1
  BY <1>1, <1>3, <1>4, LitRunNext
<1>6. Counts(R, p1', m + 1, limit')
  BY <1>2, <1>3, <1>4, <1>5 DEF Counts
<1>7. BytesUpto(R, m + 1) = BytesUpto(R, m)
  <2>1. WellSized(R) /\ ~(R[m + 1].len > 0) /\ (m + 1) - 1 = m /\ m \in 0..Len(R) /\ Len(R) \in Nat
    BY <1>1, <1>3 DEF Measurable, PlaceFacts
  <2>2. BytesUpto(R, m) \in Nat
    BY <2>1, BytesUptoIs
  <2>3. BytesUpto(R, m + 1) = BytesUpto(R, (m + 1) - 1) + 0
    BY <1>3, <2>1, BytesUptoIs
  <2> QED
    BY <2>1, <2>2, <2>3
<1>8. Total(R, p1', m + 1) = BytesUpto(R, m)
  BY <1>3, <1>7 DEF Total
<1>9. Adding(BytesUpto(R, m))'
  <2>1. PICK e : e = BytesUpto(R, m)
    OBVIOUS
  <2>2. Adding(e)'
    BY <1>1, <1>3, <1>4, <2>1 DEF Adding
  <2> QED
    BY <2>1, <2>2
<1> QED
  BY <1>3, <1>6, <1>8, <1>9 DEF Measured

(* One more sequence is announced.                                         *)
LEMMA AddingMore ==
    ASSUME TypeOK, NEW e \in Nat, Adding(e), NEW v \in SequenceType,
           v.match >= 0, IsMark(v.match, v.off) => v.lit > 0,
           lenQ' = Append(lenQ, v), p2' = p2, size' = size,
           NEW f \in Nat, f = e + BytesOf(v)
    PROVE  Adding(f)'
<1>1. PICK d \in Nat : Path(ByteSteps, lenQ, d, e) /\ Written(p2, size, d)
  BY DEF Adding
<1>2. <<e, v, f>> \in ByteSteps
  BY ByteStep
<1>3. Path(ByteSteps, lenQ', d, f)
  BY <1>1, <1>2, Part1Facts, PathMore
<1> QED
  BY <1>1, <1>3 DEF Adding

LEMMA MatchMeasured ==
    ASSUME TypeOK, NEW R, Measurable(R), NEW m, Measured(R, m), Takes(R, m), P1Match
    PROVE  Measured(R, m + 1)'
<1> DEFINE v == Announce(p1.tmp.len - MinMatch, p1.tmp.off)
<1>1. ~LitLimitReached /\ p1.tmp.len > 0 /\ lenQ' = Append(lenQ, v)
  BY DEF P1Match
<1>2. p1'.flag = p1.flag /\ p1'.litCount = 0
  BY Part1Facts DEF P1Type, P1Match, Advance
<1>3. /\ m \in Nat /\ m + 1 \in 1..Len(R) /\ R[m + 1] = p1.tmp /\ p1'.pc = "loop"
      /\ InPlace(R, p1', m + 1) /\ size' = size /\ limit' = limit /\ p2' = p2
  BY DEF Takes
<1>4. /\ ~p1.flag /\ p1.litCount = LitRun(R, m + 1) /\ ~Full(R, m + 1)
      /\ p1.litCount \in Nat /\ Adding(BytesUpto(R, m))
  BY <1>1, BeforeLimit
<1>5. LitRun(R, (m + 1) + 1) = 0
  <2>1. m + 1 \in Nat /\ m + 1 > 0
    BY <1>3
  <2>2. LitRun(R, (m + 1) + 1) = IF R[m + 1].len > 0 THEN 0 ELSE LitRun(R, m + 1) + 1
    BY <2>1, LitRunNext, SMTT(30)
  <2> QED
    BY <1>1, <1>3, <2>2
<1>6. Counts(R, p1', m + 1, limit')
  BY <1>2, <1>3, <1>4, <1>5 DEF Counts
<1>7. WellSized(R) /\ p1.tmp.len >= MinMatch /\ ~IsMark(p1.tmp.len - MinMatch, p1.tmp.off)
  <2>1. WellSized(R)
    BY DEF Measurable
  <2> QED
    BY <1>1, <1>3, <2>1 DEF WellSized
<1>8. p1.tmp.len \in Nat /\ p1.tmp.off \in Nat /\ p1.pushed \in Nat /\ MinMatch \in Nat
  BY Part1Facts, RecordFacts
<1>9. /\ v.lit = p1.litCount /\ v.match = p1.tmp.len - MinMatch /\ v.off = p1.tmp.off
      /\ v \in SequenceType /\ v.match >= 0 /\ ~IsMark(v.match, v.off)
  BY <1>4, <1>7, <1>8 DEF Announce, SequenceType
<1> HIDE DEF v
<1>10. BytesOf(v) = SeqSize(R, m + 1)
  BY <1>3, <1>4, <1>9 DEF BytesOf, SeqSize
<1> DEFINE e == BytesUpto(R, m)
           f == BytesUpto(R, m + 1)
<1>11. e \in Nat /\ f \in Nat /\ f = e + BytesOf(v)
  <2>1. (m + 1) - 1 = m /\ m \in 0..Len(R) /\ m + 1 \in 0..Len(R) /\ Len(R) \in Nat
    BY <1>3 DEF Measurable, PlaceFacts
  <2>2. e \in Nat /\ f \in Nat
    BY <1>7, <2>1, BytesUptoIs
  <2>3. f = BytesUpto(R, (m + 1) - 1) + SeqSize(R, m + 1)
    BY <1>1, <1>3, <1>7, BytesUptoIs
  <2> QED
    BY <1>10, <2>1, <2>2, <2>3
<1>12. Adding(f)'
  <2>1. Adding(e)
    BY <1>4
  <2>2. PICK g : g = f
    OBVIOUS
  <2> HIDE DEF e, f
  <2>3. Adding(g)'
    BY <1>1, <1>3, <1>9, <1>11, <2>1, <2>2, AddingMore
  <2> QED
    BY <2>2, <2>3 DEF f
<1>13. Total(R, p1', m + 1) = f
  BY <1>3 DEF Total
<1> QED
  BY <1>3, <1>6, <1>12, <1>13 DEF Measured

LEMMA FinishMeasured ==
    ASSUME TypeOK, NEW t, NEW L, NEW E, NEW S, NEW end, Working(t, L, E, S, end),
           NEW R, Measurable(R), Len(t) = PlaceOf(R, Len(R)), NEW m, Measured(R, m), P1Finish
    PROVE  Measured(R, m)'
<1> DEFINE n == Len(R)
           mark == IF RunIsFull THEN LimitMark ELSE 0
           v == Announce(mark, mark)
<1>1. /\ p1.pc = "loop" /\ p1.i >= size /\ p2' = p2 /\ size' = size
      /\ p1' = [p1 EXCEPT !.pc = "done"]
  BY DEF P1Finish
<1>2. n \in Nat /\ PlaceFacts(R) /\ WellSized(R) /\ size = Len(t) /\ size \in Nat
  BY DEF Measurable, PlaceFacts, Working, Context, TypeOK
<1>3. m \in 0..n /\ p1.i = PlaceOf(R, m) /\ Counts(R, p1, m, limit)
  BY DEF Measured, InPlace
<1>4. m = n
  <2>1. SUFFICES ASSUME m # n PROVE FALSE
    OBVIOUS
  <2>2. m \in 0..n - 1 /\ n \in 0..n
    BY <1>2, <1>3, <2>1
  <2>3. PlaceOf(R, m) < PlaceOf(R, n)
    BY <1>2, <2>2, PlacesGrow
  <2>4. p1.i < size
    BY <1>2, <1>3, <2>3
  <2>5. p1.i \in Nat
    BY Part1Facts
  <2> QED
    BY <1>1, <1>2, <2>4, <2>5
<1>5. p1.litCount > 0 /\ p1.litCount \in Nat /\ p1.litCount <= MaxLit /\ MaxLit \in Nat
  <2>1. p1.i = Len(t)
    BY <1>3, <1>4
  <2> QED
    BY <1>1, <2>1, Part1Facts DEF Working, Part1Inv, Part1Run
<1>6. lenQ' = Append(lenQ, v) /\ (limit' <=> p1.flag \/ RunIsFull)
  BY <1>5 DEF P1Finish
<1>7. p1'.pc = "done" /\ p1'.i = p1.i
  BY <1>1, Part1Facts DEF P1Type
<1>8. InPlace(R, p1', m)
  BY <1>3, <1>4, <1>7 DEF InPlace
<1>9. IF p1.flag THEN Full(R, n + 1) ELSE p1.litCount = LitRun(R, n + 1) /\ ~Full(R, n)
  BY <1>1, <1>3, <1>4 DEF Counts
<1>10. Counts(R, p1', m, limit')
  <2>1. ~p1.flag => (Full(R, n + 1) <=> p1.litCount >= MaxLit)
    BY <1>2, <1>9, FullFacts
  <2>2. RunIsFull <=> p1.litCount >= MaxLit
    BY <1>5 DEF RunIsFull
  <2>3. limit' <=> Full(R, n + 1)
    BY <1>6, <1>9, <2>1, <2>2
  <2> QED
    BY <1>7, <2>3 DEF Counts
<1>11. ASSUME Kept(p1', limit') PROVE Adding(EncodedSize(R))'
  <2>1. ~p1.flag /\ ~RunIsFull
    BY <1>6, <1>7, <1>11 DEF Kept
  <2>2. p1.litCount = LitRun(R, n + 1) /\ Adding(BytesUpto(R, n))
    BY <1>1, <1>4, <1>9, <2>1 DEF Measured, Kept, Total
  <2>3. /\ v.lit = p1.litCount /\ v.match = 0 /\ v.off = 0 /\ v \in SequenceType
        /\ IsMark(v.match, v.off)
    BY <1>5, <2>1, Part1Facts DEF Announce, SequenceType, IsMark
  <2> HIDE DEF v
  <2> DEFINE e == BytesUpto(R, n)
             f == EncodedSize(R)
  <2>4. f = e + (1 + ExtraBytes(v.lit) + v.lit)
    BY <1>5, <2>2, <2>3, EncodedSizeEnds
  <2>5. BytesOf(v) = 1 + ExtraBytes(v.lit) + v.lit
    BY <2>3 DEF BytesOf
  <2>6. e \in Nat
    BY <1>2, BytesUptoIs
  <2>7. ExtraBytes(v.lit) \in Nat /\ v.lit \in Nat
    BY <1>5, <2>3, ExtraBytesType
  <2>8. f = e + BytesOf(v) /\ f \in Nat
    BY <2>4, <2>5, <2>6, <2>7
  <2>9. PICK g : g = f
    OBVIOUS
  <2> HIDE DEF e, f
  <2>10. Adding(e)
    BY <2>2 DEF e
  <2>11. Adding(g)'
    BY <1>1, <1>5, <1>6, <2>3, <2>6, <2>8, <2>9, <2>10, AddingMore
  <2> QED
    BY <2>9, <2>11 DEF f
<1>12. Total(R, p1', m) = EncodedSize(R)
  BY <1>7 DEF Total
<1> QED
  BY <1>8, <1>10, <1>11, <1>12 DEF Measured

LEMMA Part1Measured ==
    ASSUME TypeOK, NEW t, NEW L, NEW E, NEW R, NEW S, S = Places(R), NEW end,
           Working(t, L, E, S, end), Measurable(R), Len(t) = PlaceOf(R, Len(R)),
           NEW m, Measured(R, m), Part1
    PROVE  \E k : Measured(R, k)'
<1>1. CASE P1First \/ P1Fetch
  BY <1>1, FetchMeasured
<1>2. CASE P1Drop \/ P1Match \/ P1Literal
  <2>1. Takes(R, m)
    BY <1>2, TakesNext
  <2>2. Measured(R, m + 1)'
    BY <1>2, <2>1, DropMeasured, MatchMeasured, LiteralMeasured
  <2> QED
    BY <2>2
<1>3. CASE P1Finish
  BY <1>3, FinishMeasured
<1> QED
  BY <1>1, <1>2, <1>3 DEF Part1

-----------------------------------------------------------------------------
(* The others leave Part1 where it is.                                     *)
LEMMA SameMeasured ==
    ASSUME NEW R, NEW m, Measured(R, m), p1' = p1, limit' = limit,
           \A e : Adding(e) => Adding(e)'
    PROVE  Measured(R, m)'
<1>1. PICK e : e = Total(R, p1, m)
  OBVIOUS
<1>2. Kept(p1, limit) => Adding(e)'
  BY <1>1 DEF Measured
<1> QED
  BY <1>1, <1>2 DEF Measured

LEMMA TokenAdding ==
    ASSUME TypeOK, WriteToken, ~p2.ending, NEW e, Adding(e)
    PROVE  Adding(e)'
<1>1. PICK d \in Nat : Path(ByteSteps, lenQ, d, e) /\ Written(p2, size, d)
  BY DEF Adding
<1>2. PICK v : v = Head(lenQ)
  OBVIOUS
<1>3. /\ lenQ # << >> /\ lenQ' = Tail(lenQ) /\ v \in SequenceType /\ p2.pc = "loop"
      /\ AfterByte(p2'.pc) /\ p2'.csize = p2.csize
  BY <1>2, TokenFields
<1>4. size' = size /\ lenQ \in Seq(SequenceType)
  BY Part2Facts DEF WriteToken
<1>5. PICK f \in Nat : <<d, v, f>> \in ByteSteps /\ Path(ByteSteps, Tail(lenQ), f, e)
  BY <1>1, <1>2, <1>3, <1>4, PathLess
<1>6. v.match >= 0 /\ (IsMark(v.match, v.off) => v.lit > 0) /\ f = d + BytesOf(v)
  BY <1>3, <1>5, ByteStep
<1>7. /\ Owed(p2) = 0 /\ Owed(p2') = BytesOf(v) - 1 /\ Owed(p2') \in Nat
      /\ p2'.ending => p2'.st \in {"token", "litlen", "literal"}
  BY <1>2, <1>6, TokenOwed
<1>8. f - Owed(p2') = (d - Owed(p2)) + 1
  <2>1. BytesOf(v) \in Nat
    BY <1>3, <1>6, BytesOfType
  <2> QED
    BY <1>6, <1>7, <2>1
<1>9. Written(p2', size', f)
  BY <1>1, <1>3, <1>4, <1>7, <1>8, OneByteMore
<1> QED
  BY <1>3, <1>5, <1>9 DEF Adding

LEMMA LessAdding ==
    ASSUME TypeOK, p2.pc = "loop", AfterByte(p2'.pc), p2'.csize = p2.csize,
           size' = size, lenQ' = lenQ,
           \A d \in Nat : Written(p2, size, d) => OneByteLess,
           NEW e, Adding(e)
    PROVE  Adding(e)'
<1>1. PICK d \in Nat : Path(ByteSteps, lenQ, d, e) /\ Written(p2, size, d)
  BY DEF Adding
<1>2. OneByteLess
  BY <1>1
<1> DEFINE a == Owed(p2)
           b == Owed(p2')
<1>3. a \in Nat /\ b \in Nat /\ b = a - 1
  BY <1>1, <1>2 DEF OneByteLess, Written
<1> HIDE DEF a, b
<1>4. d - b = (d - a) + 1
  BY <1>3
<1>5. Written(p2', size', d)
  BY <1>1, <1>2, <1>4, OneByteMore DEF a, b, OneByteLess
<1> QED
  BY <1>1, <1>5 DEF Adding

LEMMA WriteAdding ==
    ASSUME TypeOK, Accounting, NEW e, Adding(e),
           WriteLitLen \/ WriteLiteral \/ WriteOffset0 \/ WriteOffset1 \/ WriteMatchLen
    PROVE  Adding(e)'
<1>1. size' = size /\ lenQ' = lenQ
  BY DEF WriteLitLen, WriteLiteral, WriteOffset0, WriteOffset1, WriteMatchLen, P2Local, streams
<1>2. p2.pc = "loop" /\ AfterByte(p2'.pc) /\ p2'.csize = p2.csize
  BY LitLenFields, LiteralFields, Offset0Fields, Offset1Fields, MatchLenFields
<1>3. ASSUME NEW d \in Nat, Written(p2, size, d) PROVE OneByteLess
  BY <1>3, LitLenOwed, LiteralOwed, OffsetsOwed, MatchLenOwed
<1> QED
  BY <1>1, <1>2, <1>3, LessAdding

LEMMA OutAdding ==
    ASSUME TypeOK, NEW e, Adding(e), OutByte \/ OutEos \/ OutSize \/ OutPad \/ OutEnd
    PROVE  Adding(e)'
<1>1. size' = size /\ lenQ' = lenQ
  BY DEF OutByte, OutEos, OutSize, OutPad, OutEnd
<1>2. /\ p2'.st = p2.st /\ p2'.litLen = p2.litLen /\ p2'.matchLen = p2.matchLen
      /\ p2'.writeLit = p2.writeLit /\ p2'.ending = p2.ending /\ p2'.extra = p2.extra
  BY Part2Facts DEF OutByte, OutEos, OutSize, OutPad, OutEnd, P2Type
<1>3. Sent(p2') = Sent(p2)
  BY Part2Facts DEF OutByte, OutEos, OutSize, OutPad, OutEnd, P2Type, Sent
<1>4. Owed(p2') = Owed(p2)
  <2>1. MatchOwed(p2') = MatchOwed(p2) /\ OffsetOwed(p2') = OffsetOwed(p2)
    BY <1>2, SameOwed
  <2> QED
    BY <1>2, <2>1 DEF Owed
<1>5. PICK d \in Nat : Path(ByteSteps, lenQ, d, e) /\ Written(p2, size, d)
  BY DEF Adding
<1>6. Written(p2', size', d)
  BY <1>1, <1>2, <1>3, <1>4, <1>5 DEF Written
<1> QED
  BY <1>1, <1>5, <1>6 DEF Adding

LEMMA Part2Measured ==
    ASSUME TypeOK, Accounting, NEW t, NEW L, NEW E, NEW S, NEW end, Working(t, L, E, S, end),
           NEW R, NEW m, Measured(R, m), Part2 \/ Sink
    PROVE  Measured(R, m)'
<1>1. CASE Part2
  <2>1. p1' = p1 /\ limit' = limit
    BY <1>1 DEF Part2, WriteToken, WriteLitLen, WriteLiteral, WriteOffset0, WriteOffset1,
                WriteMatchLen, P2Local, OutByte, OutEos, OutSize, OutPad, OutEnd, streams
  <2>2. ASSUME NEW e, Adding(e) PROVE Adding(e)'
    <3>1. CASE WriteToken
      <4>1. ~p2.ending
        <5>1. PICK v : v = Head(lenQ)
          OBVIOUS
        <5>2. Context(t, L) /\ Part1Inv(t, L, S, end)
          BY DEF Working
        <5> QED
          BY <3>1, <5>1, <5>2, TokenReads
      <4> QED
        BY <2>2, <3>1, <4>1, TokenAdding
    <3>2. CASE WriteLitLen \/ WriteLiteral \/ WriteOffset0 \/ WriteOffset1 \/ WriteMatchLen
      BY <2>2, <3>2, WriteAdding
    <3>3. CASE OutByte \/ OutEos \/ OutSize \/ OutPad \/ OutEnd
      BY <2>2, <3>3, OutAdding
    <3> QED
      BY <1>1, <3>1, <3>2, <3>3 DEF Part2
  <2> QED
    BY <2>1, <2>2, SameMeasured
<1>2. CASE Sink
  <2>1. p1' = p1 /\ limit' = limit /\ p2' = p2 /\ size' = size /\ lenQ' = lenQ
    BY <1>2 DEF Sink, SinkData, SinkFlag, SinkTotal
  <2>2. ASSUME NEW e, Adding(e) PROVE Adding(e)'
    BY <2>1, <2>2 DEF Adding
  <2> QED
    BY <2>1, <2>2, SameMeasured
<1> QED
  BY <1>1, <1>2

-----------------------------------------------------------------------------
LEMMA BlockMeasurable ==
    ASSUME TypeOK, session \in Sessions, Len(answers) < Len(session)
    PROVE  Measurable(Block.recs)
<1> DEFINE R == Block.recs
<1>1. PlaceFacts(R) /\ IsParse(Block)
  BY BlockFacts
<1>2. R \in Seq(Record)
  BY <1>1 DEF PlaceFacts
<1>3. \A k \in 1..Len(R) : R[k].len > 0 =>
        R[k].len >= MinMatch /\ ~IsMark(R[k].len - MinMatch, R[k].off)
  BY <1>1 DEF IsParse
<1> QED
  BY <1>1, <1>2, <1>3 DEF Measurable, WellSized

LEMMA CallMeasured ==
    ASSUME TypeOK, EncoderInv, Call
    PROVE  \E m : Measured(Block.recs, m)'
<1> DEFINE R == Block.recs
<1>1. /\ p1.pc = "idle" /\ Len(answers) < Len(session)
      /\ size' = Block.size /\ limit' = FALSE
      /\ p1' = P1At(IF size' = 0 THEN "done" ELSE "first", p1.pushed)
      /\ p2' = P2At("loop", p2.upto) /\ lenQ' = lenQ
      /\ session' = session /\ answers' = answers
  BY DEF Call
<1>2. session \in Sessions /\ lenQ = << >>
  BY <1>1 DEF EncoderInv, Quiet
<1>3. Measurable(R) /\ Block.size = Len(Text(R))
  BY <1>1, <1>2, BlockFacts, BlockMeasurable
<1>4. Block' = Block
  BY <1>1 DEF Block
<1>5. PICK r : r = R /\ r = Block'.recs
  BY <1>4
<1> HIDE DEF R
<1>6. /\ Len(r) \in Nat /\ PlaceFacts(r) /\ WellSized(r) /\ size' = PlaceOf(r, Len(r))
      /\ PlaceOf(r, 0) = 0
  BY <1>1, <1>3, <1>5 DEF Measurable, PlaceFacts
<1>7. /\ p1'.pc = IF size' = 0 THEN "done" ELSE "first"
      /\ p1'.i = 0 /\ p1'.litCount = 0 /\ ~p1'.flag
  BY <1>1 DEF P1At
<1>8. p2'.pc = "loop" /\ p2'.st = "token" /\ ~p2'.ending /\ p2'.csize = 0
  BY <1>1 DEF P2At
<1>9. p1'.pc = "done" => Len(r) = 0
  <2>1. SUFFICES ASSUME p1'.pc = "done", Len(r) # 0 PROVE FALSE
    OBVIOUS
  <2>2. PlaceOf(r, Len(r)) = 0
    BY <1>6, <1>7, <2>1
  <2>3. 0 \in 0..Len(r) - 1 /\ Len(r) \in 0..Len(r)
    BY <1>6, <2>1
  <2>4. PlaceOf(r, 0) < PlaceOf(r, Len(r))
    BY <1>6, <2>3, PlacesGrow
  <2> QED
    BY <1>6, <2>2, <2>4
<1>10. InPlace(r, p1', 0)
  <2>1. 0 \in 0..Len(r)
    BY <1>6
  <2> QED
    BY <1>6, <1>7, <1>9, <2>1 DEF InPlace
<1>11. LitRun(r, 1) = 0 /\ ~Full(r, 0) /\ ~Full(r, 1)
  <2>1. LitRun(r, 1) = 0
    BY LitRunFirst
  <2>2. ~Full(r, 0) /\ (Full(r, 0 + 1) <=> Full(r, 0) \/ LitRun(r, 0 + 1) >= MaxLit)
    BY FullFacts
  <2>3. 0 + 1 = 1 /\ ~(0 >= MaxLit)
    BY Part1Facts
  <2> QED
    BY <2>1, <2>2, <2>3
<1>12. Counts(r, p1', 0, limit')
  <2>1. CASE p1'.pc = "done"
    <3>1. Len(r) + 1 = 1
      BY <1>9, <2>1
    <3> QED
      BY <1>1, <1>11, <2>1, <3>1 DEF Counts
  <2>2. CASE p1'.pc # "done"
    <3>1. 0 + 1 = 1
      OBVIOUS
    <3> QED
      BY <1>7, <1>11, <2>2, <3>1 DEF Counts
  <2> QED
    BY <2>1, <2>2
<1>13. Total(r, p1', 0) = 0
  <2>1. BytesUpto(r, 0) = 0
    BY <1>6, BytesUptoIs
  <2>2. CASE p1'.pc = "done"
    <3>1. Len(r) = 0 /\ Len(r) + 1 = 1
      BY <1>9, <2>2
    <3>2. EncodedSize(r) = BytesUpto(r, Len(r)) + 0
      BY <1>11, <3>1, EncodedSizeEnds
    <3> QED
      BY <2>1, <2>2, <3>1, <3>2 DEF Total
  <2>3. CASE p1'.pc # "done"
    BY <2>1, <2>3 DEF Total
  <2> QED
    BY <2>2, <2>3
<1>14. Adding(0)'
  <2>1. Path(ByteSteps, lenQ', 0, 0)
    BY <1>1, <1>2, PathNone
  <2>2. Owed(p2') = 0 /\ Sent(p2') = 0
    BY <1>8 DEF Owed, Sent
  <2>3. 0 = Least(size', 0 - 0)
    <3>1. size' \in Nat
      BY <1>6 DEF PlaceFacts
    <3> QED
      BY <3>1 DEF Least
  <2>4. Written(p2', size', 0)
    BY <1>8, <2>2, <2>3 DEF Written
  <2> QED
    BY <2>1, <2>4 DEF Adding
<1>15. Measured(r, 0)'
  BY <1>10, <1>12, <1>13, <1>14 DEF Measured
<1> QED
  BY <1>5, <1>15

(* What a call returns is the size of its block, or of its encoding.       *)
LEMMA ReturnMeasured ==
    ASSUME TypeOK, Accounting, EncoderInv, SizeInv, Return
    PROVE  SizeDetermined'
<1> DEFINE R == Block.recs
           n == Len(answers)
           a == [size |-> IF limit THEN size ELSE sink.total, bytes |-> sink.bytes]
           right == IF LongestRun(R) >= MaxLit THEN Block.size
                    ELSE Least(Block.size, EncodedSize(R))
<1>1. /\ p1.pc = "done" /\ p2.pc = "done" /\ sink.pc = "done"
      /\ answers' = Append(answers, a) /\ session' = session
  BY DEF Return
<1>2. PICK t, L, E, S : t = Text(R) /\ Working(t, L, E, S, Len(t))
  BY <1>1 DEF EncoderInv, Encoding
<1>3. PICK m : Measured(R, m)
  BY <1>1 DEF SizeInv
<1>4. session \in Sessions /\ n < Len(session) /\ n \in Nat /\ size = Len(t)
  BY <1>2 DEF EncoderInv, Working, Context, TypeOK
<1>5. Measurable(R) /\ Block.size = size /\ Len(R) \in Nat
  <2>1. Measurable(R) /\ Block.size = Len(Text(R))
    BY <1>4, BlockFacts, BlockMeasurable
  <2> QED
    BY <1>2, <1>4, <2>1 DEF Measurable, PlaceFacts
<1>6. limit <=> LongestRun(R) >= MaxLit
  <2>1. limit <=> Full(R, Len(R) + 1)
    BY <1>1, <1>3 DEF Measured, Counts
  <2> QED
    BY <1>5, <2>1, LongestRunIs
<1>7. a.size = right
  <2>1. CASE limit
    BY <1>5, <1>6, <2>1
  <2>2. CASE ~limit
    <3>1. Adding(EncodedSize(R))
      BY <1>1, <1>3, <2>2 DEF Measured, Kept, Total
    <3>2. PICK d \in Nat : Path(ByteSteps, lenQ, d, EncodedSize(R)) /\ Written(p2, size, d)
      BY <3>1 DEF Adding
    <3>3. lenQ = << >>
      BY <1>1, <1>2, DoneDrained
    <3>4. d = EncodedSize(R)
      <4>1. PICK e : e = EncodedSize(R)
        OBVIOUS
      <4> QED
        BY <3>2, <3>3, <4>1, PathNone
    <3>5. Owed(p2) = 0
      <4>1. p2.st = "token"
        BY <1>1 DEF Accounting, Part2Control
      <4> QED
        BY <4>1 DEF Owed
    <3>6. p2.csize = Least(size, d)
      <4>1. Sent(p2) = p2.csize
        BY <1>1 DEF Sent
      <4>2. d - 0 = d
        OBVIOUS
      <4> QED
        BY <3>2, <3>5, <4>1, <4>2 DEF Written
    <3>7. sink.total = p2.csize
      BY <1>1, <1>2 DEF Working, Pipe, Received
    <3> QED
      BY <1>5, <1>6, <2>2, <3>4, <3>6, <3>7
  <2> QED
    BY <2>1, <2>2
<1>8. /\ Len(answers') = n + 1 /\ answers'[n + 1] = a
      /\ \A k \in 1..n : answers'[k] = answers[k]
  <2>1. answers \in Seq([size : Nat, bytes : Seq(Int)])
    BY DEF TypeOK
  <2> HIDE DEF a
  <2> QED
    BY <1>1, <2>1
<1>9. session[n + 1] = Block
  BY DEF Block
<1> HIDE DEF a, n
<1>10. SUFFICES ASSUME NEW k \in 1..n + 1
                PROVE  answers'[k].size = IF LongestRun(session[k].recs) >= MaxLit
                                          THEN session[k].size
                                          ELSE Least(session[k].size, EncodedSize(session[k].recs))
  BY <1>1, <1>8 DEF SizeDetermined
<1>11. CASE k = n + 1
  BY <1>7, <1>8, <1>9, <1>11
<1>12. CASE k # n + 1
  <2>1. k \in 1..n
    BY <1>4, <1>12
  <2> QED
    BY <1>8, <2>1 DEF SizeInv, SizeDetermined, n
<1> QED
  BY <1>11, <1>12

LEMMA SizeKeeps ==
    TypeOK /\ Accounting /\ EncoderInv /\ SizeInv /\ [Next]_vars => SizeInv'
<1> SUFFICES ASSUME TypeOK, Accounting, EncoderInv, SizeInv, [Next]_vars PROVE SizeInv'
  OBVIOUS
<1>1. CASE Call
  <2>1. session' = session /\ answers' = answers
    BY <1>1 DEF Call
  <2>2. SizeDetermined'
    BY <2>1 DEF SizeInv, SizeDetermined
  <2> QED
    BY <1>1, <2>2, CallMeasured DEF SizeInv
<1>2. CASE Return
  <2>1. p1'.pc = "idle"
    BY <1>2 DEF Return, P1At
  <2> QED
    BY <1>2, <2>1, ReturnMeasured DEF SizeInv
<1>3. CASE Part1 \/ Part2 \/ Sink
  <2>1. p1.pc # "idle" /\ session' = session /\ answers' = answers
    BY <1>3, BusyStep DEF EncoderInv
  <2>2. SizeDetermined' /\ Block' = Block
    BY <2>1 DEF SizeInv, SizeDetermined, Block
  <2>3. PICK R, S, t, L, E : /\ R = Block.recs /\ S = Places(R) /\ t = Text(R)
                             /\ Working(t, L, E, S, Len(t))
    BY <2>1 DEF EncoderInv, Encoding
  <2>4. PICK m : Measured(R, m)
    BY <2>1, <2>3 DEF SizeInv
  <2>5. Measurable(R) /\ Len(t) = PlaceOf(R, Len(R))
    <3>1. session \in Sessions /\ Len(answers) < Len(session)
      BY <2>3 DEF EncoderInv, Working, Context
    <3> QED
      BY <2>3, <3>1, BlockMeasurable DEF Measurable, PlaceFacts
  <2>6. \E k : Measured(R, k)'
    <3>1. CASE Part1
      BY <2>3, <2>4, <2>5, <3>1, Part1Measured
    <3>2. CASE Part2 \/ Sink
      BY <2>3, <2>4, <3>2, Part2Measured
    <3> QED
      BY <1>3, <3>1, <3>2
  <2>7. R = Block'.recs
    BY <2>2, <2>3
  <2> QED
    BY <2>2, <2>6, <2>7 DEF SizeInv
<1>4. CASE Rest \/ UNCHANGED vars
  <2>1. /\ session' = session /\ size' = size /\ limit' = limit /\ answers' = answers
        /\ p1' = p1 /\ p2' = p2 /\ lenQ' = lenQ
    BY <1>4 DEF Rest, vars, streams
  <2>2. SizeDetermined' /\ Block' = Block
    BY <2>1 DEF SizeInv, SizeDetermined, Block
  <2>3. ASSUME NEW R, NEW m, Measured(R, m) PROVE Measured(R, m)'
    BY <2>1, <2>3 DEF Measured, Adding
  <2>4. ASSUME p1.pc # "idle" PROVE \E m : Measured(Block.recs, m)'
    <3>1. PICK R : R = Block.recs /\ R = Block'.recs
      BY <2>2
    <3>2. PICK m : Measured(R, m)
      BY <2>4, <3>1 DEF SizeInv
    <3>3. Measured(R, m)'
      BY <2>3, <3>2
    <3> QED
      BY <3>1, <3>3
  <2> QED
    BY <2>1, <2>2, <2>4 DEF SizeInv
<1> QED
  BY <1>1, <1>2, <1>3, <1>4 DEF Next

(* Part1's place in the records, its count of literals and the bytes of    *)
(* what is announced fit together in every reachable state.                *)
THEOREM SizeInvariant == Spec => []SizeInv
<1>1. Init => SizeInv
  BY DEF Init, SizeInv, SizeDetermined, P1At
<1> QED
  BY <1>1, SizeKeeps, TypeCorrect, AccountingInvariant, EncoderInvariant, PTL DEF Spec

(* The size that a call of the encoder reports is a function of its block: *)
(* the block's own size if a run of literals reaches the limit or LZ4      *)
(* would not shrink it, and the size of its encoding otherwise.            *)
THEOREM AnswerSizes == Spec => []SizeDetermined
<1>1. SizeInv => SizeDetermined
  BY DEF SizeInv
<1> QED
  BY <1>1, SizeInvariant, PTL

=============================================================================
