--------------------------- MODULE LzMatchFinder ---------------------------
(***************************************************************************)
(* The match finder in front of the LZ4 encoder: three dataflow processes  *)
(* in a chain of bounded FIFOs.                                            *)
(*                                                                         *)
(*   inQ --> lzCompress --cmpQ--> lzBestMatchFilter --bestQ--> lzBooster   *)
(*                                                     lzBooster --> recQ  *)
(*                                                                         *)
(* lzCompress looks every position of the block up in a dictionary of      *)
(* recent windows and emits one record per position.  The filter erases a  *)
(* match when a longer one starts soon after.  The booster extends matches *)
(* byte by byte and emits the final records, one per literal or match.     *)
(*                                                                         *)
(* One action is one iteration of a loop: a pipelined iteration stalls as  *)
(* a whole while the FIFO it reads is empty or the one it writes is full.  *)
(***************************************************************************)
EXTENDS Lz4Records

CONSTANTS
    MatchLen,      \* MATCH_LEN: bytes of a dictionary window, longest first match
    MatchLevel,    \* MATCH_LEVEL: windows kept per dictionary bucket
    MinOffset,     \* MIN_OFFSET: smallest match offset (distance - 1)
    OffsetLimit,   \* LZ_MAX_OFFSET_LIMIT: distances stay below it
    LeftBytes,     \* LEFT_BYTES: bytes at the end that pass as literals
    BoostWindow,   \* BOOSTER_OFFSET_WINDOW: bytes the booster remembers
    BoostLag,      \* stores of later iterations that may overtake a prefetch
    MaxMatchLen,   \* MAX_MATCH_LEN: longest boosted match
    DictSize,      \* LZ_DICT_SIZE: buckets of the dictionary
    Hash(_),       \* the bucket of a window
    MaxLag,        \* dictionary writes a lookup of the pipeline may miss
    PipeDepth,     \* depth of the FIFOs of the chain
    Texts          \* the blocks a call may be given

Window == [1..MatchLen -> Byte]
FinderRecord == [ch : Byte, len : 0..MaxMatchLen, off : Nat]

ASSUME FinderAssumption ==
    /\ MatchLen \in Nat /\ MatchLen >= 2 /\ MatchLevel \in Nat \ {0}
    /\ MinOffset \in Nat \ {0} /\ OffsetLimit \in Nat /\ LeftBytes \in Nat \ {0}
    /\ BoostWindow \in Nat \ {0} /\ BoostLag \in Nat
    /\ MaxMatchLen \in Nat /\ MaxMatchLen >= MatchLen /\ MinMatch <= MatchLen
    /\ DictSize \in Nat /\ \A w \in Window : Hash(w) \in 0..DictSize - 1
    /\ MaxLag \in Nat /\ PipeDepth \in Nat \ {0}

(* lz4CompressMM gives an engine no block below MIN_BLOCK_SIZE (128) bytes *)
(* except the empty one: a block has room for the window and the tail.     *)
ASSUME TextsAssumption ==
    /\ Texts \subseteq Seq(Byte)
    /\ \A t \in Texts : Len(t) = 0 \/ Len(t) >= LeftBytes + MatchLen

VARIABLES
    text,   \* the block of the call
    lz,     \* lzCompress
    dict,   \* its dictionary: bucket |-> newest window first
    late,   \* dictionary writes still on their way through the pipeline
    flt,    \* lzBestMatchFilter
    bst,    \* lzBooster
    inQ,    \* inStream
    cmpQ,   \* compressdStream
    bestQ   \* bestMatchStream

queues == <<inQ, cmpQ, bestQ, recQ>>
finderVars == <<text, lz, dict, late, flt, bst, queues>>

n == Len(text)
At(p) == text[p + 1]     \* the byte at position p of the block

Room(q) == Len(q) < PipeDepth

(* A process returns at once when the block is empty. *)
Start(t, pc) == IF Len(t) = 0 THEN "done" ELSE pc

(* win holds the bytes of present_window, or the records of                *)
(* compare_window, that are still to be emitted.                           *)
LzStart(t) == [pc |-> Start(t, "fill"), i |-> 0, win |-> << >>]
FltStart(t) == [pc |-> Start(t, "fill"), i |-> 0, win |-> << >>]

(* loc, len, flag, skip, nextCh and out are match_loc, match_len,          *)
(* matchFlag, skip_len, nextMatchCh and outValue.  Two history variables:  *)
(* sent, every record the booster has emitted in this call, and overtaken, *)
(* whether an open match has been compared with a byte stored too early.   *)
BstStart(t, junk) ==
    [pc |-> Start(t, "scan"), i |-> 0, mem |-> [k \in 0..BoostWindow - 1 |-> junk],
     loc |-> 0, len |-> 0, flag |-> FALSE, skip |-> 0, nextCh |-> junk,
     out |-> Literal(junk), sent |-> << >>, overtaken |-> FALSE]

(* A call flushes the dictionary; the booster's memory holds anything.     *)
Flushed == [h \in 0..DictSize - 1 |-> << >>]

FinderInit ==
    /\ text \in Texts
    /\ lz = LzStart(text) /\ flt = FltStart(text)
    /\ \E junk \in Byte : bst = BstStart(text, junk)
    /\ dict = Flushed /\ late = << >>
    /\ inQ = text /\ cmpQ = << >> /\ bestQ = << >> /\ recQ = << >>

-----------------------------------------------------------------------------
(* lzCompress *)

LzFill ==
    /\ lz.pc = "fill" /\ inQ # << >>
    /\ LET w == Append(lz.win, Head(inQ))
       IN  lz' = IF Len(w) < MatchLen - 1 THEN [lz EXCEPT !.win = w]
                 ELSE [pc |-> "scan", i |-> MatchLen - 1, win |-> w]
    /\ inQ' = Tail(inQ)
    /\ UNCHANGED <<text, dict, late, flt, bst, cmpQ, bestQ, recQ>>

(* The lookup of an iteration may run ahead of the writes of the previous  *)
(* ones: the loop is pipelined with the inter-iteration dependences of     *)
(* dict declared false.  Writes land in order, so that a bucket is what the *)
(* last write to it made of it; at most MaxLag are missed.                 *)
Landed(writes) ==
    [h \in DOMAIN dict |->
        LET own == {k \in DOMAIN writes : writes[k].at = h}
        IN  IF own = {} THEN dict[h]
            ELSE writes[CHOOSE k \in own : \A m \in own : m <= k].bucket]

Views ==
    {[dict |-> Landed(SubSeq(late, 1, k)), late |-> SubSeq(late, k + 1, Len(late))]
       : k \in {k \in 0..Len(late) : Len(late) - k <= MaxLag}}

(* A bucket is a shift register of windows, each with its position.  The   *)
(* reset entries, whose position -1 is beyond every block, are left out.   *)
Shifted(bucket, w, cur) ==
    SubSeq(<<[win |-> w, idx |-> cur]>> \o bucket, 1,
           IF Len(bucket) < MatchLevel THEN Len(bucket) + 1 ELSE MatchLevel)

CommonLen(v, w) ==
    CHOOSE k \in 0..MatchLen :
        /\ \A m \in 1..k : v[m] = w[m]
        /\ k < MatchLen => v[k + 1] # w[k + 1]

(* Offsets count from 0: the previous position has offset 0. *)
OffsetFromOne(cur, idx) == cur - idx
Offset(cur, idx) == cur - idx - 1

(* The length of the match of window w at position cur with entry e, 0 if  *)
(* it is too short, not in the past, too near or too far.  (Length 3 at    *)
(* distances over 4096 is excluded too, but MIN_MATCH is 4 here.)          *)
InReachAnyOffset(cur, idx) == cur > idx /\ cur - idx < OffsetLimit
InReach(cur, idx) ==
    cur > idx /\ cur - idx < OffsetLimit /\ Offset(cur, idx) >= MinOffset

MatchWith(e, w, cur) ==
    LET len == CommonLen(w, e.win)
    IN  IF len >= MinMatch /\ InReach(cur, e.idx) THEN len ELSE 0

(* The longest match wins, the newest of the longest. *)
BestRecord(bucket, w, cur) ==
    LET len(l) == MatchWith(bucket[l], w, cur)
        best   == {l \in 1..Len(bucket) :
                     /\ len(l) > 0
                     /\ \A k \in 1..Len(bucket) : len(k) < len(l) \/ (len(k) = len(l) /\ l <= k)}
    IN  IF best = {} THEN Literal(w[1])
        ELSE LET l == CHOOSE l \in best : TRUE
             IN  [ch |-> w[1], len |-> len(l), off |-> Offset(cur, bucket[l].idx)]

LzScan ==
    /\ lz.pc = "scan" /\ inQ # << >> /\ Room(cmpQ)
    /\ LET w   == Append(lz.win, Head(inQ))
           cur == lz.i - MatchLen + 1
           h   == Hash(w)
       IN  /\ \E view \in Views :
                LET bucket == view.dict[h]
                IN  /\ dict' = view.dict
                    /\ late' = Append(view.late,
                                      [at |-> h, bucket |-> Shifted(bucket, w, cur)])
                    /\ cmpQ' = Append(cmpQ, BestRecord(bucket, w, cur))
           /\ lz' = [pc  |-> IF lz.i + 1 < n - LeftBytes THEN "scan" ELSE "rest",
                     i   |-> lz.i + 1,
                     win |-> Tail(w)]
    /\ inQ' = Tail(inQ)
    /\ UNCHANGED <<text, flt, bst, bestQ, recQ>>

(* The rest of the window, then the last bytes, go out as literals. *)
LzLeftOver ==
    /\ lz.pc = "rest" /\ Room(cmpQ)
    /\ cmpQ' = Append(cmpQ, Literal(Head(lz.win)))
    /\ lz' = [lz EXCEPT !.win = Tail(@), !.pc = IF Len(lz.win) = 1 THEN "left" ELSE "rest"]
    /\ UNCHANGED <<text, dict, late, flt, bst, inQ, bestQ, recQ>>

LzLeftBytes ==
    /\ lz.pc = "left" /\ inQ # << >> /\ Room(cmpQ)
    /\ cmpQ' = Append(cmpQ, Literal(Head(inQ)))
    /\ inQ' = Tail(inQ)
    /\ lz' = [lz EXCEPT !.i = @ + 1, !.pc = IF lz.i + 1 = n THEN "done" ELSE "left"]
    /\ UNCHANGED <<text, dict, late, flt, bst, bestQ, recQ>>

LzCompress == LzFill \/ LzScan \/ LzLeftOver \/ LzLeftBytes

-----------------------------------------------------------------------------
(* lzBestMatchFilter *)

FltFill ==
    /\ flt.pc = "fill" /\ cmpQ # << >>
    /\ LET w == Append(flt.win, Head(cmpQ))
       IN  flt' = [pc |-> IF Len(w) = MatchLen THEN "scan" ELSE "fill",
                   i |-> Len(w), win |-> w]
    /\ cmpQ' = Tail(cmpQ)
    /\ UNCHANGED <<text, lz, dict, late, bst, inQ, bestQ, recQ>>

(* A match is erased when one that starts up to MatchLen positions later   *)
(* reaches further than it.                                                *)
Filtered(r, next) ==
    IF \E j \in 1..MatchLen : r.len + j - 1 < next[j].len THEN Literal(r.ch) ELSE r

FltScan ==
    /\ flt.pc = "scan" /\ flt.i < n
    /\ cmpQ # << >> /\ Room(bestQ)
    /\ LET next == Append(Tail(flt.win), Head(cmpQ))
       IN  /\ bestQ' = Append(bestQ, Filtered(Head(flt.win), next))
           /\ flt' = [flt EXCEPT !.i = @ + 1, !.win = next]
    /\ cmpQ' = Tail(cmpQ)
    /\ UNCHANGED <<text, lz, dict, late, bst, inQ, recQ>>

FltLeftOver ==
    /\ flt.pc = "scan" /\ flt.i >= n /\ Room(bestQ)
    /\ bestQ' = Append(bestQ, Head(flt.win))
    /\ flt' = [flt EXCEPT !.win = Tail(@), !.pc = IF Len(flt.win) = 1 THEN "done" ELSE "scan"]
    /\ UNCHANGED <<text, lz, dict, late, bst, inQ, cmpQ, recQ>>

BestMatchFilter == FltFill \/ FltScan \/ FltLeftOver

-----------------------------------------------------------------------------
(* lzBooster *)

SlotOneShort(p) == p % (BoostWindow - 1)
Slot(p) == p % BoostWindow

(* The loop is pipelined with the inter-iteration dependences of local_mem *)
(* declared false.  Stores land in order, an iteration's own before its    *)
(* prefetch, and so do all older ones; but up to BoostLag stores of the    *)
(* iterations behind it may have landed as well.  These are the bytes such *)
(* a store can have left where the prefetch looks.                         *)
Overtaking(b) ==
    {At(j) : j \in {j \in b.i + 1..b.i + BoostLag :
                      j < n - LeftBytes /\ Slot(j) = Slot(b.loc)}}

(* Every iteration stores its byte and prefetches the byte the next one is *)
(* compared with.                                                          *)
Prefetched(b, ch) ==
    LET mem == [b.mem EXCEPT ![Slot(b.i)] = ch]
        own == mem[Slot(b.loc)]
    IN  {[b EXCEPT !.mem = mem, !.i = @ + 1, !.nextCh = seen,
                   !.overtaken = @ \/ (b.flag /\ seen # own),
                   !.pc = IF b.i + 1 < n - LeftBytes THEN "scan" ELSE "flush"]
           : seen \in {own} \cup Overtaking(b)}

BstReads == bst.pc = "scan" /\ bestQ # << >> /\ bestQ' = Tail(bestQ)

CanExtend(r) == bst.flag /\ bst.len < MaxMatchLen /\ r.ch = bst.nextCh

(* Inside a match that is too far away to be boosted. *)
BstSkip ==
    /\ BstReads /\ bst.skip > 0
    /\ bst' \in Prefetched([bst EXCEPT !.skip = @ - 1], Head(bestQ).ch)
    /\ UNCHANGED <<text, lz, dict, late, flt, inQ, cmpQ, recQ>>

BstExtend ==
    /\ BstReads /\ bst.skip = 0 /\ CanExtend(Head(bestQ))
    /\ bst' \in Prefetched([bst EXCEPT !.len = @ + 1, !.loc = @ + 1, !.out.len = bst.len + 1],
                           Head(bestQ).ch)
    /\ UNCHANGED <<text, lz, dict, late, flt, inQ, cmpQ, recQ>>

(* A new record begins, and the previous one, if any, is complete.  Only a *)
(* match whose source is still in the booster's memory is extended.        *)
NoneOpenYetTwice(b) == b.i <= 1
NoneOpenYet(b) == b.i = 0
Near(r) == r.off < BoostWindow

Emitting(b) == [b EXCEPT !.sent = Append(@, b.out)]

Opened(b, r) ==
    [b EXCEPT !.len = 1, !.loc = b.i - r.off, !.out = r,
              !.flag = r.len > 0 /\ Near(r),
              !.skip = IF r.len > 0 /\ ~Near(r) THEN r.len - 1 ELSE 0]

BstNew ==
    /\ BstReads /\ bst.skip = 0 /\ ~CanExtend(Head(bestQ))
    /\ LET r == Head(bestQ)
       IN  IF NoneOpenYet(bst)
           THEN /\ bst' \in Prefetched(Opened(bst, r), r.ch)
                /\ UNCHANGED recQ
           ELSE /\ Room(recQ) /\ recQ' = Append(recQ, bst.out)
                /\ bst' \in Prefetched(Opened(Emitting(bst), r), r.ch)
    /\ UNCHANGED <<text, lz, dict, late, flt, inQ, cmpQ>>

BstFlush ==
    /\ bst.pc = "flush" /\ Room(recQ)
    /\ recQ' = Append(recQ, bst.out)
    /\ bst' = [Emitting(bst) EXCEPT !.pc = "left"]
    /\ UNCHANGED <<text, lz, dict, late, flt, inQ, cmpQ, bestQ>>

BstLeftBytes ==
    /\ bst.pc = "left" /\ bestQ # << >> /\ Room(recQ)
    /\ recQ' = Append(recQ, Head(bestQ))
    /\ bestQ' = Tail(bestQ)
    /\ bst' = [bst EXCEPT !.i = @ + 1, !.sent = Append(@, Head(bestQ)),
                          !.pc = IF bst.i + 1 = n THEN "done" ELSE "left"]
    /\ UNCHANGED <<text, lz, dict, late, flt, inQ, cmpQ>>

Booster == BstSkip \/ BstExtend \/ BstNew \/ BstFlush \/ BstLeftBytes

-----------------------------------------------------------------------------
(* The encoder's side of the last FIFO, as far as this module goes. *)
Take ==
    /\ recQ # << >>
    /\ recQ' = Tail(recQ)
    /\ UNCHANGED <<text, lz, dict, late, flt, bst, inQ, cmpQ, bestQ>>

FinderFinished == lz.pc = "done" /\ flt.pc = "done" /\ bst.pc = "done" /\ recQ = << >>
FinderRest == FinderFinished /\ UNCHANGED finderVars

FinderNext == LzCompress \/ BestMatchFilter \/ Booster \/ Take \/ FinderRest

FinderFairness ==
    /\ WF_finderVars(LzCompress) /\ WF_finderVars(BestMatchFilter)
    /\ WF_finderVars(Booster) /\ WF_finderVars(Take)

FinderSpec == FinderInit /\ [][FinderNext]_finderVars
FinderFairSpec == FinderSpec /\ FinderFairness

-----------------------------------------------------------------------------
(* Properties *)

(* A record says the truth about position p of the block: its byte, and a  *)
(* match whose source lies in the past.                                    *)
TrueAt(r, p) ==
    /\ r.ch = At(p)
    /\ r.len > 0 => r.off < p /\ p + r.len <= n - LeftBytes
    /\ \A k \in 0..r.len - 1 : At(p + k) = At(p + k - r.off - 1)

(* The k-th record of q, if its first is for position p. *)
AllTrue(q, p) == \A k \in 1..Len(q) : TrueAt(q[k], p + k - 1)

(* Every record on its way to the booster, wherever it is, is true at its  *)
(* own position.  A dictionary lookup that misses recent writes, or finds  *)
(* a bucket shared by other windows, may cost a match but never makes one  *)
(* up, and the filter and the FIFOs keep the records aligned.              *)
RecordsTrue ==
    /\ AllTrue(cmpQ, flt.i)
    /\ AllTrue(flt.win, flt.i - Len(flt.win))
    /\ AllTrue(bestQ, bst.i)

(* While a match is being extended, the prefetched byte is the one at its  *)
(* source for the next position, whatever stores have overtaken the        *)
(* prefetch, as long as its distance leaves room for these in the window:  *)
(* the byte is still remembered, and no store has reached its place yet.   *)
(* Matches between there and the end of the window are not safe.           *)
PrefetchFresh ==
    bst.pc = "scan" /\ bst.flag /\ bst.out.off + BoostLag < BoostWindow
    => bst.nextCh = At(bst.i - bst.out.off - 1)

(* In the end all three processes return, and the records have covered the *)
(* block unless one was extended by a byte that came too early.            *)
AllParsed == <>[](FinderFinished /\ (bst.overtaken \/ SizeOf(bst.sent) = n))

(* The chain implements the promise of a match finder, for as long as no   *)
(* open match has been compared with a byte that came too early.           *)
Parse == INSTANCE LzParse WITH block <- text, parse <- bst.sent
ImplementsParse ==
    Parse!Init /\ [][bst.overtaken \/ Parse!Next]_<<text, bst.sent>>

=============================================================================
