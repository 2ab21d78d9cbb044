---------------------------- MODULE StreamGather ----------------------------
(***************************************************************************)
(* streamNToOne with LoadBalanceT: the elements of several lanes, taken as *)
(* they come, are packed into the words of one stream.                     *)
(*                                                                         *)
(*   istrms[0]  --\                                                        *)
(*   istrms[..] ---read_lb--> buf_n --collect--> buf_lcm --distribute--> ostrm *)
(*                                                                         *)
(* read_lb tests its lanes without waiting, an element and its end flag at *)
(* two different moments, while the lanes are written: it is the state     *)
(* machine. collect and distribute only wait for what comes before them:   *)
(* they are the operators Collect and Distribute.                          *)
(*                                                                         *)
(* Widths are counted in units. The element k of lane i is <<i, k>>; Junk  *)
(* is what a word holds where no element was put.                          *)
(***************************************************************************)
EXTENDS Integers, Sequences, FiniteSets, SequencesExt

CONSTANTS
    NStrm,    \* _NStrm
    WIn,      \* _WInStrm, in units
    WOut,     \* _WOutStrm, in units
    Depth,    \* depth of the lanes
    Loads     \* the calls: functions from lanes to numbers of elements

Lanes == 0..NStrm - 1
Junk == <<-1, 0>>

ASSUME GatherAssumption ==
    /\ {NStrm, WIn, WOut, Depth} \subseteq Nat \ {0}
    /\ Loads \subseteq [Lanes -> Nat]

VARIABLES
    load,      \* elements each lane will carry
    pu,        \* the unit that writes a lane: elements and flags written
    data,      \* istrms
    flag,      \* e_istrms
    rd,        \* the locals of stream_n_to_one_read_lb
    bufs,      \* the words written to buf_n_strm
    left       \* left_n, once written

vars == <<load, pu, data, flag, rd, bufs, left>>

Init ==
    /\ load \in Loads
    /\ pu = [i \in Lanes |-> [elements |-> 0, flags |-> 0]]
    /\ data = [i \in Lanes |-> << >>]
    /\ flag = [i \in Lanes |-> << >>]
    /\ rd = [pc |-> "first", last |-> {}, val |-> {}, took |-> << >>, buf |-> << >>]
    /\ bufs = << >>
    /\ left = -1

-----------------------------------------------------------------------------
(* The unit of a lane writes an element, then its flag; at the end it      *)
(* writes one flag more, that is TRUE.                                     *)
FlagDueEarly(i) == pu[i].flags <= pu[i].elements /\ pu[i].flags < load[i]
FlagDue(i) == pu[i].flags < pu[i].elements

WriteElement(i) ==
    /\ ~FlagDue(i)
    /\ pu[i].elements < load[i]
    /\ Len(data[i]) < Depth
    /\ data' = [data EXCEPT ![i] = Append(@, <<i, pu[i].elements + 1>>)]
    /\ pu' = [pu EXCEPT ![i].elements = @ + 1]
    /\ UNCHANGED <<load, flag, rd, bufs, left>>

WriteFlag(i) ==
    /\ FlagDue(i)
    /\ Len(flag[i]) < Depth
    /\ flag' = [flag EXCEPT ![i] = Append(@, FALSE)]
    /\ pu' = [pu EXCEPT ![i].flags = @ + 1]
    /\ UNCHANGED <<load, data, rd, bufs, left>>

WriteEnd(i) ==
    /\ pu[i] = [elements |-> load[i], flags |-> load[i]]
    /\ Len(flag[i]) < Depth
    /\ flag' = [flag EXCEPT ![i] = Append(@, TRUE)]
    /\ pu' = [pu EXCEPT ![i].flags = @ + 1]
    /\ UNCHANGED <<load, data, rd, bufs, left>>

Unit(i) == WriteElement(i) \/ WriteFlag(i) \/ WriteEnd(i)

-----------------------------------------------------------------------------
(* stream_n_to_one_read_lb *)

(* A flag that is there is read; a lane whose flag was TRUE is not asked   *)
(* again.                                                                  *)
LastWithForgotten(raised) == raised
LastWith(raised) == rd.last \cup raised

ReadFlags ==
    LET open == {i \in Lanes \ rd.last : flag[i] # << >>}
    IN  /\ flag' = [i \in Lanes |-> IF i \in open THEN Tail(flag[i]) ELSE flag[i]]
        /\ rd' = [rd EXCEPT !.last = LastWith({i \in open : Head(flag[i])}),
                            !.pc = IF rd.pc = "first" THEN "data" ELSE "pack"]

FirstFlags ==
    /\ rd.pc = "first"
    /\ ReadFlags
    /\ UNCHANGED <<load, pu, data, bufs, left>>

(* One iteration: the elements that are there ... *)
TakeElements ==
    /\ rd.pc = "data"
    /\ rd.last # Lanes
    /\ LET val == {i \in Lanes \ rd.last : data[i] # << >>}
           heads == [i \in 1..NStrm |-> IF i - 1 \in val THEN <<Head(data[i - 1])>> ELSE << >>]
       IN  /\ data' = [i \in Lanes |-> IF i \in val THEN Tail(data[i]) ELSE data[i]]
           /\ rd' = [rd EXCEPT !.pc = "flags", !.val = val, !.took = FlattenSeq(heads)]
    /\ UNCHANGED <<load, pu, flag, bufs, left>>

(* ... then the flags that are there ... *)
TakeFlags ==
    /\ rd.pc = "flags"
    /\ ReadFlags
    /\ UNCHANGED <<load, pu, data, bufs, left>>

(* ... and what was taken goes behind what buff_a holds: with _NStrm       *)
(* elements or more, the first _NStrm leave.                               *)
IsWord(buf) == Len(buf) >= NStrm
RestFromLast(buf) == SubSeq(buf, NStrm, Len(buf))
RestEmpty(buf) == << >>
Rest(buf) == SubSeq(buf, NStrm + 1, Len(buf))

Pack ==
    /\ rd.pc = "pack"
    /\ LET buf == rd.buf \o rd.took
       IN  /\ bufs' = IF IsWord(buf) THEN Append(bufs, SubSeq(buf, 1, NStrm)) ELSE bufs
           /\ rd' = [rd EXCEPT !.pc = "data", !.val = {}, !.took = << >>,
                               !.buf = IF IsWord(buf) THEN Rest(buf) ELSE buf]
    /\ UNCHANGED <<load, pu, data, flag, left>>

PackLast ==
    /\ rd.pc = "data"
    /\ rd.last = Lanes
    /\ bufs' = Append(bufs, [k \in 1..NStrm |-> IF k <= Len(rd.buf) THEN rd.buf[k] ELSE Junk])
    /\ left' = Len(rd.buf)
    /\ rd' = [rd EXCEPT !.pc = "done", !.buf = << >>]
    /\ UNCHANGED <<load, pu, data, flag>>

Reader == FirstFlags \/ TakeElements \/ TakeFlags \/ Pack \/ PackLast

-----------------------------------------------------------------------------
(* The width conversion behind the collection *)

Lcm(a, b) == CHOOSE m \in 1..a * b :
                /\ m % a = 0 /\ m % b = 0
                /\ \A k \in 1..m - 1 : k % a # 0 \/ k % b # 0

Wide == Lcm(WIn * NStrm, WOut)            \* buf_width
CountIn == Wide \div (WIn * NStrm)        \* count_in
NumOut == Wide \div WOut                  \* num_out

(* A unit of a wide buffer is <<element, unit of it>>.                     *)
Units(word) == FlattenSeq([k \in 1..Len(word) |-> [u \in 1..WIn |-> <<word[k], u>>]])
JunkUnits(n) == [u \in 1..n |-> <<Junk, 1>>]

(* stream_n_to_one_collect_lb: the full buffers, then the last one, which  *)
(* keeps in its unused part what the buffer before it had there (Junk in   *)
(* the model: left tells that it does not count).                          *)
Collect ==
    LET full == (Len(bufs) - 1) \div CountIn
        buf(b, n) == FlattenSeq([k \in 1..n |-> Units(bufs[(b - 1) * CountIn + k])])
        p == Len(bufs) - 1 - full * CountIn
        lastBuf == buf(full + 1, p + 1)
    IN  [bufs |-> [b \in 1..full |-> buf(b, CountIn)]
                     \o << lastBuf \o JunkUnits(Wide - Len(lastBuf)) >>,
         left |-> p * NStrm + left]

(* stream_n_to_one_distribute_lb: the words of a full buffer; the loop     *)
(* tests last before each word, so that the last buffer gives one at most. *)
Distribute(c) ==
    LET word(buf, n) == SubSeq(buf, (n - 1) * WOut + 1, n * WOut)
        full == Len(c.bufs) - 1
        words(b) == [n \in 1..NumOut |-> word(c.bufs[b], n)]
    IN  FlattenSeq([b \in 1..full |-> words(b)])
          \o IF WOut <= c.left * WIn THEN << word(c.bufs[full + 1], 1) >> ELSE << >>

-----------------------------------------------------------------------------
Finished == rd.pc = "done" /\ UNCHANGED vars

Next == Reader \/ (\E i \in Lanes : Unit(i)) \/ Finished

Spec == Init /\ [][Next]_vars

(* Each process is a loop that never rests. *)
FairSpec == Spec /\ WF_vars(Reader) /\ \A i \in Lanes : WF_vars(Unit(i))

-----------------------------------------------------------------------------
(* Correctness *)

Kept == FlattenSeq(bufs \o << rd.buf, rd.took >>)
Elements == UNION {{<<i, k>> : k \in 1..load[i]} : i \in Lanes}

(* An end flag is never taken while its lane still holds an element, even  *)
(* though the reader tests a lane for an element, and only later for a     *)
(* flag: the element behind every flag was there at the last test.         *)
FlagNotAhead == \A i \in rd.last : data[i] = << >>

(* Nothing is kept twice, and the elements of a lane keep their order.     *)
KeptInOrder ==
    \A m, n \in 1..Len(Kept) :
        m < n /\ Kept[m][1] = Kept[n][1] /\ Kept[m] # Junk => Kept[m][2] < Kept[n][2]

(* When read_lb stops, every element of every lane is in buf_n.            *)
ReadAll == rd.pc = "done" => Elements = ToSet(Kept) \ {Junk}

(* The collection ends once the units of all lanes have.                   *)
Ends == <>(rd.pc = "done")

(* Every word that is full of elements comes out: at the end fewer units   *)
(* than a word are left behind.                                            *)
FullWordsOut ==
    rd.pc = "done" =>
        Len(Distribute(Collect)) = (Cardinality(Elements) * WIn) \div WOut
=============================================================================
