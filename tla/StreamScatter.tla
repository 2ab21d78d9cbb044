--------------------------- MODULE StreamScatter ---------------------------
(***************************************************************************)
(* streamOneToN with LoadBalanceT: one stream of words is cut into         *)
(* elements, dealt to the lanes that are not full.                         *)
(*                                                                         *)
(*   istrm --read--> buf_lcm --reduce--> buf_n --distribute--> ostrms[0]   *)
(*                                                             ostrms[..]  *)
(*                                                                         *)
(* read and reduce only wait for each other, so what they write does not   *)
(* depend on when: they are the operators Read and Reduce. distribute      *)
(* looks at how full its lanes are, two iterations late, while the lanes   *)
(* are emptied: it is the state machine.                                   *)
(*                                                                         *)
(* Widths are counted in units, the units of the input are 1, 2, 3, ...,   *)
(* and Junk is a unit of a buffer that no input was stored into.           *)
(***************************************************************************)
EXTENDS Integers, Sequences, FiniteSets, SequencesExt

CONSTANTS
    NStrm,     \* _NStrm
    WIn,       \* _WInStrm, in units
    WOut,      \* _WOutStrm, in units
    DeqDepth,  \* deq_depth, the ring of each lane
    Depth,     \* depth of the lanes
    Totals     \* the calls: numbers of input words

Lanes == 0..NStrm - 1
Junk == 0

ASSUME ScatterAssumption ==
    /\ {NStrm, WIn, WOut, DeqDepth, Depth} \subseteq Nat \ {0}
    /\ Totals \subseteq Nat

-----------------------------------------------------------------------------
(* The width conversion in front of the distribution *)

Lcm(a, b) == CHOOSE m \in 1..a * b :
                /\ m % a = 0 /\ m % b = 0
                /\ \A k \in 1..m - 1 : k % a # 0 \/ k % b # 0

Chunk == NStrm * WOut          \* a word of buf_n_strm
Wide == Lcm(WIn, Chunk)        \* buf_width

Padded(s, n) == [k \in 1..n |-> IF k \in DOMAIN s THEN s[k] ELSE Junk]
Slice(s, from, n) == SubSeq(Padded(s, from + n), from + 1, from + n)

(* stream_one_to_n_read: the full buffers, and the words in the last one.  *)
Read(total) ==
    LET words == Wide \div WIn
        full == total \div words
        units(from, n) == [k \in 1..n |-> from + k]
    IN  [bufs |-> [b \in 1..full + 1 |->
                     IF b <= full THEN units((b - 1) * Wide, Wide)
                     ELSE Padded(units(full * Wide, (total % words) * WIn), Wide)],
         left |-> total % words]

(* stream_one_to_n_reduce: the last buffer gives its full chunks, one more *)
(* chunk that may hold nothing, and how many elements of that one count.   *)
Reduce(rd) ==
    LET lastBuf == rd.bufs[Len(rd.bufs)]
        whole == (rd.left * WIn) \div Chunk
        cut(buf, n) == [k \in 1..n |-> Slice(buf, (k - 1) * Chunk, Chunk)]
    IN  [chunks |-> FlattenSeq([b \in 1..Len(rd.bufs) - 1 |-> cut(rd.bufs[b], Wide \div Chunk)])
                       \o cut(lastBuf, whole + 1),
         left |-> (rd.left * WIn) \div WOut - whole * NStrm]

(* The elements of a chunk, _WOutStrm wide. *)
Elements(chunk) == [k \in 1..NStrm |-> Slice(chunk, (k - 1) * WOut, WOut)]
JunkChunk == [k \in 1..NStrm |-> [u \in 1..WOut |-> Junk]]

-----------------------------------------------------------------------------
VARIABLES
    call,     \* words of the input
    chunks,   \* buf_n_strm still to read; the last one comes with left_n
    ds,       \* the locals of stream_one_to_n_distribute
    deq,      \* deq, one ring per lane
    lane,     \* ostrms: elements the reader of a lane has not taken
    got,      \* the elements written to each lane
    ended     \* lanes whose end flag is written

vars == <<call, chunks, ds, deq, lane, got, ended>>

AlmostFullLanes == {i \in Lanes : Len(lane[i]) >= Depth - 1}
FullLanes == {i \in Lanes : Len(lane[i]) = Depth}

(* bak_full1 is what the lanes were when the function started: a lane may  *)
(* have been full of an earlier call.                                      *)
Init ==
    /\ call \in Totals
    /\ chunks = Reduce(Read(call)).chunks
    /\ \E late \in SUBSET Lanes :
       ds = [pc |-> "loop", bak1 |-> late, ld |-> 0, ld2 |-> 0, rn |-> 0,
             ldFlg |-> TRUE, newR |-> FALSE, wb |-> TRUE, high |-> TRUE,
             r |-> JunkChunk, p |-> JunkChunk, q |-> JunkChunk,
             base |-> 0, sid |-> 0, at |-> 0]
    /\ deq = [i \in Lanes |-> << >>]
    /\ lane = [i \in Lanes |-> << >>]
    /\ got = [i \in Lanes |-> << >>]
    /\ ended = {}

LeftN == Reduce(Read(call)).left
BufArr(d) == d.p \o d.q
NextLane(i) == (i + 1) % NStrm

Put(i, e) ==
    /\ lane' = [lane EXCEPT ![i] = Append(@, e)]
    /\ got' = [got EXCEPT ![i] = Append(@, e)]

(* The lanes that had room an iteration ago; the place in buf_arr after a  *)
(* number of elements; whether there is room for another chunk, ld being   *)
(* what is held and kept what of it is in buf_arr; when it is fetched.     *)
LateAll(d) == Lanes
Late(d) == Lanes \ d.bak1
PlaceAfter(d, n) == (d.base + n) % (2 * NStrm)
RoomLeftAny(ld, kept) == ld <= 2 * NStrm
RoomLeft(ld, kept) ==
    /\ ld < 2 * NStrm
    /\ ld <= IF kept < NStrm THEN kept + 2 * NStrm ELSE kept + NStrm
Fetches(d) == d.bak1 # Lanes /\ d.ldFlg

(* One iteration of LOOP_core. Each lane with room gets the front of its   *)
(* ring; a chunk is fetched when enough of the earlier ones has been used; *)
(* then the lanes that had room in the previous iteration get an element   *)
(* of buf_arr each, into their ring. base is next_base, rn is rn2.         *)
Iterate ==
    /\ ds.pc = "loop"
    /\ Len(chunks) > 1
    /\ LET open == {i \in Lanes \ FullLanes : deq[i] # << >>}
           late == Late(ds)
           fetch == Fetches(ds)
           r == IF fetch THEN Elements(Head(chunks)) ELSE ds.r
           high == IF fetch THEN ~ds.high ELSE ds.high
           ld == ds.ld - ds.rn + IF fetch THEN NStrm ELSE 0
           kept == ds.ld2 - ds.rn
           load == (fetch \/ ds.newR) /\ kept < NStrm
           p == IF load /\ ~high THEN r ELSE ds.p
           q == IF load /\ high THEN r ELSE ds.q
           before(i) == Cardinality({j \in late : j < i})
           popped(i) == IF i \in open THEN Tail(deq[i]) ELSE deq[i]
       IN  /\ lane' = [i \in Lanes |-> IF i \in open THEN Append(lane[i], Head(deq[i])) ELSE lane[i]]
           /\ got' = [i \in Lanes |-> IF i \in open THEN Append(got[i], Head(deq[i])) ELSE got[i]]
           /\ deq' = [i \in Lanes |-> IF i \in late THEN Append(popped(i), (p \o q)[PlaceAfter(ds, before(i)) + 1])
                                      ELSE popped(i)]
           /\ chunks' = IF fetch THEN Tail(chunks) ELSE chunks
           /\ ds' = [ds EXCEPT !.bak1 = FullLanes, !.ld = ld,
                               !.ld2 = IF load THEN kept + NStrm ELSE kept,
                               !.rn = Cardinality(late),
                               !.ldFlg = RoomLeft(ld, kept),
                               !.newR = (fetch \/ ds.newR) /\ ~load,
                               !.wb = load, !.high = high, !.r = r, !.p = p, !.q = q,
                               !.base = PlaceAfter(ds, Cardinality(late))]
    /\ UNCHANGED <<call, ended>>

(* After the loop the rings are emptied one after the other, each element  *)
(* to the lane whose turn it is; that lane is waited for.                  *)
LeaveLoop ==
    /\ ds.pc = "loop"
    /\ Len(chunks) = 1
    /\ ds' = [ds EXCEPT !.pc = "rings"]
    /\ UNCHANGED <<call, chunks, deq, lane, got, ended>>

EmptyRing ==
    /\ ds.pc = "rings"
    /\ \E i \in Lanes :
          /\ deq[i] # << >>
          /\ \A j \in 0..i - 1 : deq[j] = << >>
          /\ ds.sid \notin FullLanes
          /\ Put(ds.sid, Head(deq[i]))
          /\ deq' = [deq EXCEPT ![i] = Tail(@)]
    /\ ds' = [ds EXCEPT !.sid = NextLane(@)]
    /\ UNCHANGED <<call, chunks, ended>>

RingsEmpty ==
    /\ ds.pc = "rings"
    /\ \A i \in Lanes : deq[i] = << >>
    /\ ds' = [ds EXCEPT !.pc = "array", !.ld2 = @ - ds.rn, !.at = ds.base]
    /\ UNCHANGED <<call, chunks, deq, lane, got, ended>>

(* The rest of a buffer goes out an element at a time; here a full lane is *)
(* passed over.                                                            *)
Deal(phase, e, next) ==
    /\ ds.pc = phase
    /\ IF ds.sid \in FullLanes
       THEN /\ ds' = [ds EXCEPT !.sid = NextLane(@)]
            /\ UNCHANGED <<lane, got>>
       ELSE /\ Put(ds.sid, e)
            /\ ds' = [next EXCEPT !.sid = NextLane(@)]
    /\ UNCHANGED <<call, chunks, deq, ended>>

DealArray ==
    /\ ds.ld2 > 0
    /\ Deal("array", BufArr(ds)[ds.at + 1],
            [ds EXCEPT !.ld2 = @ - 1, !.at = (@ + 1) % (2 * NStrm)])

DealRegister ==
    /\ ds.at < NStrm
    /\ Deal("register", ds.r[ds.at + 1], [ds EXCEPT !.at = @ + 1])

DealLast ==
    /\ ds.at < LeftN
    /\ Deal("last", ds.r[ds.at + 1], [ds EXCEPT !.at = @ + 1])

(* buff_r is still to go unless it is in buf_arr already. *)
RegisterFromNone(d) == NStrm
RegisterFrom(d) == IF d.wb THEN NStrm ELSE 0

ArrayDone ==
    /\ ds.pc = "array"
    /\ ds.ld2 <= 0
    /\ ds' = [ds EXCEPT !.pc = "register", !.at = RegisterFrom(ds)]
    /\ UNCHANGED <<call, chunks, deq, lane, got, ended>>

(* buff_r moves to the last chunk, whose first left_n elements count.      *)
RegisterDone ==
    /\ ds.pc = "register"
    /\ ds.at = NStrm
    /\ ds' = [ds EXCEPT !.pc = "last", !.at = 0, !.r = Elements(Head(chunks))]
    /\ chunks' = << >>
    /\ UNCHANGED <<call, deq, lane, got, ended>>

LastDone ==
    /\ ds.pc = "last"
    /\ ds.at >= LeftN
    /\ ds' = [ds EXCEPT !.pc = "done"]
    /\ ended' = Lanes
    /\ UNCHANGED <<call, chunks, deq, lane, got>>

Distribute ==
    \/ Iterate \/ LeaveLoop \/ EmptyRing \/ RingsEmpty
    \/ DealArray \/ ArrayDone \/ DealRegister \/ RegisterDone
    \/ DealLast \/ LastDone

(* The reader of a lane, external: it takes an element whenever it likes.  *)
Take(i) ==
    /\ lane[i] # << >>
    /\ lane' = [lane EXCEPT ![i] = Tail(@)]
    /\ UNCHANGED <<call, chunks, ds, deq, got, ended>>

Finished ==
    /\ ds.pc = "done"
    /\ \A i \in Lanes : lane[i] = << >>
    /\ UNCHANGED vars

Next == Distribute \/ (\E i \in Lanes : Take(i)) \/ Finished

Spec == Init /\ [][Next]_vars

(* The process is a loop that never rests; every lane has a reader.        *)
FairSpec == Spec /\ WF_vars(Distribute) /\ \A i \in Lanes : WF_vars(Take(i))
-----------------------------------------------------------------------------
(* Correctness *)

Expected == {[u \in 1..WOut |-> (k - 1) * WOut + u] : k \in 1..(call * WIn) \div WOut}
Dealt == FlattenSeq([i \in 1..NStrm |-> got[i - 1]])

(* Whatever the lanes do, the two counts the loop fetches by never let it  *)
(* deal a place of buf_arr that is empty or already dealt: every element   *)
(* that comes out is one of the input, and comes out once.                 *)
EachOnce ==
    /\ ToSet(Dealt) \subseteq Expected
    /\ IsInjective(Dealt)

(* The index of a ring wraps without a test for a full ring: it is the two *)
(* iterations of delay that keep a ring from filling.                      *)
RingFits == \A i \in Lanes : Len(deq[i]) < DeqDepth

(* What was in flight in the rings, the two halves of buf_arr, buff_r and  *)
(* the last chunk when the loop ended has all come out before the end      *)
(* flags: a reader that stops at its flag misses nothing.                  *)
NothingLost == ended # {} => Expected \subseteq ToSet(Dealt)

(* With readers that go on reading, the distribution ends: neither a ring  *)
(* waiting for one lane nor the search for a lane with room goes on        *)
(* forever.                                                                *)
Ends == <>(ds.pc = "done" /\ \A i \in Lanes : lane[i] = << >>)
=============================================================================
