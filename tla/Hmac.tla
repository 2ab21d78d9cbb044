-------------------------------- MODULE Hmac --------------------------------
(***************************************************************************)
(* hmacDataflow over the SHA-256 unit: a network of processes and FIFOs    *)
(* that computes hash(kopad, hash(kipad, message)) for one message and key *)
(* after another.                                                          *)
(*                                                                         *)
(*   key --kpad--> kipad, kopad --mergeKipad--> unit msg --mergeKopad-->   *)
(*                    msg ---------^     kopad2 --------------^            *)
(*                                                   --> unit res --> hsh  *)
(*                                                                         *)
(* kpad hashes a key longer than a block in a unit of its own. A unit is   *)
(* sha256_top: preProcessing, and behind it the digest, which takes the    *)
(* number of blocks announced and no notice of messages. What a digest is  *)
(* made of is kept in hashed; the digest itself is opaque, its bytes named *)
(* by the unit and its number.                                             *)
(*                                                                         *)
(* A channel is a FIFO named by its writer or its unit. A process takes    *)
(* what one step needs from all its inputs at once: the network is         *)
(* deterministic, so that neither its results nor whether it stops depend  *)
(* on where the steps are cut.                                             *)
(***************************************************************************)
EXTENDS Sha256Padding

CONSTANTS
    HashBytes,    \* hshW / 8
    Depth,        \* depth of a FIFO
    WordDepth,    \* depth of the FIFOs of words in front of a unit
    Calls         \* [w, keyLen, lens]: dataW / 8, keyLen, the message lengths

ASSUME HmacAssumption ==
    /\ HashBytes \in Nat /\ HashBytes % 8 = 0 /\ HashBytes <= BlockBytes
    /\ Depth \in Nat \ {0} /\ WordDepth \in Nat \ {0}
    /\ Calls \subseteq [w : {4, 8}, keyLen : Nat \ {0}, lens : Seq(Nat)]
    /\ \A c \in Calls : c.keyLen <= BlockBytes => c.keyLen % c.w = 0

Units == {"key", "msg", "res"}
Chans == (Units \X {"word", "len", "e", "nblk", "blk", "hash", "eHash"})
         \cup ({"in"} \X {"e", "len", "msg"})
         \cup ({"kpad"} \X {"kipad", "kopad", "eKipad"}) \cup {<<"merge", "kopad2">>}

VARIABLES
    call,     \* the input
    q,        \* the FIFOs
    kp,       \* kpad: "on" or "done" (expandStrm and genPad, for a long key)
    mk,       \* mergeKipad
    mo,       \* mergeKopad
    pre,      \* preProcessing of each unit
    dig,      \* sha256Digest of each unit
    hashed,   \* the blocks of each digest a unit has given
    out       \* hshStrm and eHshStrm as the caller has read them

vars == <<call, q, kp, mk, mo, pre, dig, hashed, out>>

(* Bytes of key m, of message m, and of the n-th digest of a unit; a byte  *)
(* beyond the end of a message may be anything.                            *)
KeyByte(m, i) == 1000 + 100 * m + i
MsgByte(m, i) == 2000 + 100 * m + i
UnitBase(u) == CASE u = "key" -> 3000 [] u = "msg" -> 4000 [] u = "res" -> 5000
Digest(u, n) == [i \in 1..HashBytes |-> UnitBase(u) + 100 * n + i]
Junk == -1

Ipad(bytes) == [i \in 1..Len(bytes) |-> 10000 + bytes[i]]
Opad(bytes) == [i \in 1..Len(bytes) |-> 20000 + bytes[i]]

(* A string of bytes on the wire, the first byte in the low end of a word. *)
Wire(bytes, w) ==
    [k \in 1..Words(Len(bytes), w) |->
        [i \in 1..w |-> LET at == k * w - i + 1 IN IF at > Len(bytes) THEN Junk ELSE bytes[at]]]
(* A wide integer, its bytes from the high end, cut into words from there. *)
Cut(bytes, w) == [k \in 1..Len(bytes) \div w |-> SubSeq(bytes, (k - 1) * w + 1, k * w)]

Messages == 1..Len(call.lens)
Key(m) == [i \in 1..call.keyLen |-> KeyByte(m, i)]
Message(m) == [i \in 1..call.lens[m] |-> MsgByte(m, i)]
LongKey == call.keyLen > BlockBytes

Flags(n) == Append([m \in 1..n |-> FALSE], TRUE)

Init ==
    /\ call \in Calls
    /\ q = [c \in Chans |->
              CASE c = <<"in", "e">>     -> Flags(Len(call.lens))
                [] c = <<"in", "len">>   -> call.lens
                [] c = <<"in", "msg">>   -> FlattenSeq([m \in Messages |-> Wire(Message(m), call.w)])
                [] c = <<"key", "word">> -> FlattenSeq([m \in Messages |-> Wire(Key(m), call.w)])
                [] OTHER                 -> << >>]
    /\ kp = [expand |-> LongKey, pad |-> TRUE]
    /\ mk = [pc |-> "flag", pad |-> << >>, words |-> 0]
    /\ mo = [pc |-> "flag", words |-> << >>]
    /\ pre = [u \in Units |-> [pc |-> "flag", len |-> 0, j |-> 0, buf |-> << >>]]
    /\ dig = [u \in Units |-> [pc |-> "flag", n |-> 0, got |-> << >>]]
    /\ hashed = [u \in Units |-> << >>]
    /\ out = [hashes |-> << >>, ended |-> FALSE]

DepthOf(c) == IF c[2] = "word" THEN WordDepth ELSE Depth
Can(gets, puts) ==
    /\ \A c \in gets : q[c] # << >>
    /\ \A c \in puts : Len(q[c]) < DepthOf(c)

(* The FIFOs after one element is taken from each of gets and put(c) is    *)
(* written to each of puts.                                                *)
Moved(gets, puts, put(_)) ==
    q' = [c \in Chans |-> IF c \in gets THEN Tail(q[c])
                          ELSE IF c \in puts THEN Append(q[c], put(c)) ELSE q[c]]
Move(gets, puts, put(_)) == Can(gets, puts) /\ Moved(gets, puts, put)

Ended(c) == q[c] # << >> /\ Head(q[c])
Goes(c) == q[c] # << >> /\ ~Head(q[c])
EndTo(c, e) == Move({c}, {e}, LAMBDA x : TRUE)

-----------------------------------------------------------------------------
(* kpad: the pads of the key, and with them the flags of the messages.     *)

PadChans == {"kpad"} \X {"kipad", "kopad", "eKipad"}
Pads(k1, c) == CASE c[2] = "kipad"  -> Ipad(k1)
                 [] c[2] = "kopad"  -> Opad(k1)
                 [] c[2] = "eKipad" -> FALSE

ShiftInLow(k1, word) == SubSeq(k1, call.w + 1, BlockBytes) \o word

(* The key moves up by a word, and a word goes in where the key ends: with *)
(* whole words its first byte arrives at the high end of k1.               *)
ShiftIn(k1, word) ==
    LET up == SubSeq(k1, call.w + 1, BlockBytes) \o Zeros(call.w)
    IN  SubSeq(up, 1, call.keyLen - call.w) \o word \o SubSeq(up, call.keyLen + 1, BlockBytes)
KeyWords == Words(call.keyLen, call.w)

KpadShort ==
    /\ ~LongKey /\ Goes(<<"in", "e">>)
    /\ Can({}, PadChans)
    /\ LET words == SubSeq(q[<<"key", "word">>], 1, KeyWords)
           k1    == FoldLeft(ShiftIn, Zeros(BlockBytes), words)
       IN  q' = [c \in Chans |->
                   CASE c = <<"in", "e">>     -> Tail(q[c])
                     [] c = <<"key", "word">> -> SubSeq(q[c], KeyWords + 1, Len(q[c]))
                     [] c \in PadChans        -> Append(q[c], Pads(k1, c))
                     [] OTHER                 -> q[c]]
    /\ UNCHANGED kp

KpadExpand ==
    /\ kp.expand /\ Goes(<<"in", "e">>)
    /\ Move({<<"in", "e">>}, {<<"key", "e">>, <<"key", "len">>},
            LAMBDA c : IF c[2] = "e" THEN FALSE ELSE call.keyLen)
    /\ UNCHANGED kp

KpadExpandEnd ==
    /\ kp.expand /\ Ended(<<"in", "e">>)
    /\ EndTo(<<"in", "e">>, <<"key", "e">>)
    /\ kp' = [kp EXCEPT !.expand = FALSE]

(* genPad: the words of the hash from the high end of k1 down. *)
KpadGen ==
    /\ LongKey /\ Goes(<<"key", "eHash">>)
    /\ LET k1 == FlattenSeq(Wire(Head(q[<<"key", "hash">>]), call.w)) \o Zeros(BlockBytes - HashBytes)
       IN  Move({<<"key", "eHash">>, <<"key", "hash">>}, PadChans, LAMBDA c : Pads(k1, c))
    /\ UNCHANGED kp

PadFlags == IF LongKey THEN <<"key", "eHash">> ELSE <<"in", "e">>

KpadEnd ==
    /\ kp.pad /\ Ended(PadFlags)
    /\ EndTo(PadFlags, <<"kpad", "eKipad">>)
    /\ kp' = [kp EXCEPT !.pad = FALSE]

Kpad ==
    /\ KpadShort \/ KpadExpand \/ KpadExpandEnd \/ KpadGen \/ KpadEnd
    /\ UNCHANGED <<call, mk, mo, pre, dig, hashed, out>>

-----------------------------------------------------------------------------
(* mergeKipad: the inner pad, then the message, to the unit; between them  *)
(* the outer pad is passed on.                                             *)

MkFlag ==
    /\ mk.pc = "flag" /\ Goes(<<"kpad", "eKipad">>)
    /\ LET ml == Head(q[<<"in", "len">>])
       IN  /\ Move({<<"kpad", "eKipad">>, <<"in", "len">>, <<"kpad", "kipad">>},
                   {<<"msg", "e">>, <<"msg", "len">>},
                   LAMBDA c : IF c[2] = "e" THEN FALSE ELSE ml + BlockBytes)
           /\ mk' = [pc |-> "pad", pad |-> Cut(Head(q[<<"kpad", "kipad">>]), call.w),
                     words |-> Words(ml, call.w)]

MkPad ==
    /\ mk.pc = "pad" /\ mk.pad # << >>
    /\ Move({}, {<<"msg", "word">>}, LAMBDA c : Head(mk.pad))
    /\ mk' = [mk EXCEPT !.pad = Tail(@)]

MkOpad ==
    /\ mk.pc = "pad" /\ mk.pad = << >>
    /\ Move({<<"kpad", "kopad">>}, {<<"merge", "kopad2">>}, LAMBDA c : Head(q[<<"kpad", "kopad">>]))
    /\ mk' = [mk EXCEPT !.pc = IF mk.words = 0 THEN "flag" ELSE "msg"]

MkMsg ==
    /\ mk.pc = "msg"
    /\ Move({<<"in", "msg">>}, {<<"msg", "word">>}, LAMBDA c : Head(q[<<"in", "msg">>]))
    /\ mk' = [mk EXCEPT !.pc = IF mk.words = 1 THEN "flag" ELSE "msg", !.words = @ - 1]

MkEnd ==
    /\ mk.pc = "flag" /\ Ended(<<"kpad", "eKipad">>)
    /\ EndTo(<<"kpad", "eKipad">>, <<"msg", "e">>)
    /\ mk' = [mk EXCEPT !.pc = "done"]

MergeKipad ==
    /\ MkFlag \/ MkPad \/ MkOpad \/ MkMsg \/ MkEnd
    /\ UNCHANGED <<call, kp, mo, pre, dig, hashed, out>>

-----------------------------------------------------------------------------
(* mergeKopad: the outer pad, then the digest of the inner message, its    *)
(* low end first.                                                          *)

MoFlag ==
    /\ mo.pc = "flag" /\ Goes(<<"msg", "eHash">>)
    /\ Move({<<"msg", "eHash">>, <<"merge", "kopad2">>, <<"msg", "hash">>},
            {<<"res", "e">>, <<"res", "len">>},
            LAMBDA c : IF c[2] = "e" THEN FALSE ELSE BlockBytes + HashBytes)
    /\ mo' = [pc |-> "words", words |-> Cut(Head(q[<<"merge", "kopad2">>]), call.w)
                                        \o Wire(Head(q[<<"msg", "hash">>]), call.w)]

MoWord ==
    /\ mo.pc = "words"
    /\ Move({}, {<<"res", "word">>}, LAMBDA c : Head(mo.words))
    /\ mo' = [pc |-> IF Len(mo.words) = 1 THEN "flag" ELSE "words", words |-> Tail(mo.words)]

MoEnd ==
    /\ mo.pc = "flag" /\ Ended(<<"msg", "eHash">>)
    /\ EndTo(<<"msg", "eHash">>, <<"res", "e">>)
    /\ mo' = [mo EXCEPT !.pc = "done"]

MergeKopad ==
    /\ MoFlag \/ MoWord \/ MoEnd
    /\ UNCHANGED <<call, kp, mk, pre, dig, hashed, out>>

-----------------------------------------------------------------------------
(* A hash unit: preProcessing ...                                          *)

PreFlag(u) ==
    /\ pre[u].pc = "flag" /\ Goes(<<u, "e">>)
    /\ LET len == Head(q[<<u, "len">>])
       IN  /\ Move({<<u, "e">>, <<u, "len">>}, {<<u, "nblk">>}, LAMBDA c : BlkNum(len))
           /\ pre' = [pre EXCEPT ![u] = [pc |-> "block", len |-> len, j |-> 0, buf |-> << >>]]

WordsNeeded(u) == WordsOf(pre[u].len, call.w, pre[u].j)

PreRead(u) ==
    /\ pre[u].pc = "block" /\ Len(pre[u].buf) < WordsNeeded(u)
    /\ Move({<<u, "word">>}, {}, LAMBDA c : c)
    /\ pre' = [pre EXCEPT ![u].buf = Append(@, Head(q[<<u, "word">>]))]

PreBlock(u) ==
    /\ pre[u].pc = "block" /\ Len(pre[u].buf) = WordsNeeded(u)
    /\ Move({}, {<<u, "blk">>}, LAMBDA c : Block(pre[u].len, pre[u].j, pre[u].buf))
    /\ pre' = [pre EXCEPT ![u].pc = IF pre[u].j + 1 = BlocksSent(pre[u].len) THEN "flag" ELSE "block",
                          ![u].j = @ + 1, ![u].buf = << >>]

NoBlocks == 0

PreEnd(u) ==
    /\ pre[u].pc = "flag" /\ Ended(<<u, "e">>)
    /\ Move({<<u, "e">>}, {<<u, "nblk">>}, LAMBDA c : NoBlocks)
    /\ pre' = [pre EXCEPT ![u].pc = "done"]

PreProcessing(u) ==
    /\ PreFlag(u) \/ PreRead(u) \/ PreBlock(u) \/ PreEnd(u)
    /\ UNCHANGED <<call, kp, mk, mo, dig, hashed, out>>

(* ... and the digest of as many blocks as were announced.                 *)
DigFlag(u) ==
    /\ dig[u].pc = "flag" /\ q[<<u, "nblk">>] # << >> /\ Head(q[<<u, "nblk">>]) # NoBlocks
    /\ Move({<<u, "nblk">>}, {}, LAMBDA c : c)
    /\ dig' = [dig EXCEPT ![u] = [pc |-> "blocks", n |-> Head(q[<<u, "nblk">>]), got |-> << >>]]
    /\ UNCHANGED hashed

DigBlock(u) ==
    /\ dig[u].pc = "blocks" /\ Len(dig[u].got) < dig[u].n
    /\ Move({<<u, "blk">>}, {}, LAMBDA c : c)
    /\ dig' = [dig EXCEPT ![u].got = Append(@, Head(q[<<u, "blk">>]))]
    /\ UNCHANGED hashed

DigEmit(u) ==
    /\ dig[u].pc = "blocks" /\ Len(dig[u].got) = dig[u].n
    /\ Move({}, {<<u, "hash">>, <<u, "eHash">>},
            LAMBDA c : IF c[2] = "eHash" THEN FALSE ELSE Digest(u, Len(hashed[u]) + 1))
    /\ hashed' = [hashed EXCEPT ![u] = Append(@, dig[u].got)]
    /\ dig' = [dig EXCEPT ![u].pc = "flag", ![u].got = << >>]

DigEnd(u) ==
    /\ dig[u].pc = "flag" /\ q[<<u, "nblk">>] # << >> /\ Head(q[<<u, "nblk">>]) = NoBlocks
    /\ Move({<<u, "nblk">>}, {<<u, "eHash">>}, LAMBDA c : TRUE)
    /\ dig' = [dig EXCEPT ![u].pc = "done"]
    /\ UNCHANGED hashed

Sha256Digest(u) ==
    /\ DigFlag(u) \/ DigBlock(u) \/ DigEmit(u) \/ DigEnd(u)
    /\ UNCHANGED <<call, kp, mk, mo, pre, out>>

-----------------------------------------------------------------------------
(* The caller reads a flag, and a MAC if there is one.                     *)
TakeMac ==
    /\ ~out.ended /\ Goes(<<"res", "eHash">>)
    /\ Move({<<"res", "eHash">>, <<"res", "hash">>}, {}, LAMBDA c : c)
    /\ out' = [out EXCEPT !.hashes = Append(@, Head(q[<<"res", "hash">>]))]

TakeEnd ==
    /\ ~out.ended /\ Ended(<<"res", "eHash">>)
    /\ Move({<<"res", "eHash">>}, {}, LAMBDA c : c)
    /\ out' = [out EXCEPT !.ended = TRUE]

Caller == (TakeMac \/ TakeEnd) /\ UNCHANGED <<call, kp, mk, mo, pre, dig, hashed>>

Finished == out.ended /\ UNCHANGED vars

Next ==
    \/ Kpad \/ MergeKipad \/ MergeKopad \/ Caller \/ Finished
    \/ \E u \in Units : PreProcessing(u) \/ Sha256Digest(u)

Spec == Init /\ [][Next]_vars

-----------------------------------------------------------------------------
(* Correctness *)

(* The key as it goes into the pads: hashed if it is longer than a block,  *)
(* and filled up with zeros.                                               *)
PaddedKey(m) == UpTo(IF LongKey THEN Digest("key", m) ELSE Key(m), BlockBytes)

(* The m-th MAC is the hash of the outer pad of key m and the hash of the  *)
(* inner pad of key m and message m, each padded as the standard says: no  *)
(* pad, block or byte of another message gets in, whatever the lengths.    *)
MacsRight ==
    /\ \A m \in 1..Len(out.hashes) : out.hashes[m] = Digest("res", m)
    /\ \A m \in 1..Len(hashed["res"]) :
          hashed["res"][m] = Padded(Opad(PaddedKey(m)) \o Digest("msg", m))
    /\ \A m \in 1..Len(hashed["msg"]) :
          hashed["msg"][m] = Padded(Ipad(PaddedKey(m)) \o Message(m))
    /\ \A m \in 1..Len(hashed["key"]) : hashed["key"][m] = Padded(Key(m))

(* The outer pads that wait for the digests of the inner messages are      *)
(* those of the messages whose digests come next, though mergeKipad passes *)
(* one on between the inner pad and the message, and mergeKopad takes it   *)
(* when a digest comes out of the unit.                                    *)
PadsInStep ==
    LET taken == Len(hashed["msg"]) - Len(q[<<"msg", "hash">>])
        pads  == q[<<"merge", "kopad2">>]
    IN  \A k \in 1..Len(pads) : pads[k] = Opad(FlattenSeq(Wire(PaddedKey(taken + k), call.w)))

(* Every message has got its MAC when the end flag comes out, and nothing  *)
(* is left in a FIFO that the next call would find.                        *)
NothingLeft ==
    out.ended => /\ Len(out.hashes) = Len(call.lens)
                 /\ \A c \in Chans : q[c] = << >>
=============================================================================
