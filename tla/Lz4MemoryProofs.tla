-------------------------- MODULE Lz4MemoryProofs --------------------------
(***************************************************************************)
(* Theorems about the reader and the writer of hlsLz4, for every number of *)
(* engines, every width and depth, and every call.  The two have nothing   *)
(* in common but the counting of words and bytes, which comes first.       *)
(***************************************************************************)
EXTENDS Lz4Reader, Lz4Writer, WellFoundedInduction, NaturalsInduction, TLAPS

WordsOf == [s \in Nat |-> Words(s)]

(* The sizes in q announce this many words: rest[k] are those of the sizes *)
(* from the k-th on.                                                       *)
Announces(q, words) ==
    \E rest \in [1..Len(q) + 1 -> Nat] :
        /\ rest[1] = words
        /\ rest[Len(q) + 1] = 0
        /\ \A k \in 1..Len(q) : rest[k] = WordsOf[q[k]] + rest[k + 1]

-----------------------------------------------------------------------------
(* Facts about sequences and words. *)

LEMMA AppendFacts ==
    ASSUME NEW S, NEW s \in Seq(S), NEW e \in S
    PROVE  /\ Append(s, e) \in Seq(S)
           /\ Len(s) \in Nat
           /\ Len(Append(s, e)) = Len(s) + 1
           /\ Append(s, e)[Len(s) + 1] = e
           /\ \A k \in 1..Len(s) : Append(s, e)[k] = s[k]
OBVIOUS

LEMMA TailFacts ==
    ASSUME NEW S, NEW s \in Seq(S), s # << >>
    PROVE  /\ Tail(s) \in Seq(S) /\ Head(s) \in S /\ Head(s) = s[1]
           /\ Len(s) \in Nat /\ Len(s) > 0 /\ Len(Tail(s)) = Len(s) - 1
           /\ \A k \in 1..Len(Tail(s)) : Tail(s)[k] = s[k + 1]
OBVIOUS

(* Whole words make as many words, no bytes make none, and some bytes make *)
(* at least one.                                                           *)
LEMMA WordsFacts ==
    /\ WordsOf \in [Nat -> Nat]
    /\ \A s \in Nat : WordsOf[s] = Words(s)
    /\ WordsOf[0] = 0
    /\ \A s \in Nat : s > 0 => WordsOf[s] > 0
    /\ \A n \in Nat : n * WordSize \in Nat /\ WordsOf[n * WordSize] = n
<1>1. WordSize \in Nat /\ WordSize > 0
  BY WordAssumption DEF WordAssumption
<1>2. \A s \in Nat, w \in Nat : w > 0 => (s + w - 1) \div w \in Nat
  OBVIOUS
<1>3. \A w \in Nat : w > 0 => (0 + w - 1) \div w = 0
  OBVIOUS
<1>4. \A s \in Nat, w \in Nat : w > 0 /\ s > 0 => (s + w - 1) \div w > 0
  OBVIOUS
<1>5. \A n \in Nat, w \in Nat : w > 0 => n * w \in Nat /\ (n * w + w - 1) \div w = n
  OBVIOUS
<1> QED
  BY <1>1, <1>2, <1>3, <1>4, <1>5 DEF Words, WordsOf

LEMMA NoneAnnounced == Announces(<< >>, 0)
<1> DEFINE rest == [k \in 1..1 |-> 0]
<1>1. rest \in [1..1 -> Nat] /\ rest[1] = 0
  OBVIOUS
<1>2. Len(<< >>) = 0 /\ 0 + 1 = 1 /\ \A k \in 1..0 : FALSE
  OBVIOUS
<1> HIDE DEF rest
<1>3. \A k \in 1..Len(<< >>) : rest[k] = WordsOf[<< >>[k]] + rest[k + 1]
  BY <1>2
<1>4. rest \in [1..Len(<< >>) + 1 -> Nat] /\ rest[Len(<< >>) + 1] = 0
  BY <1>1, <1>2
<1> QED
  BY <1>1, <1>3, <1>4 DEF Announces

(* A size more announces its words, and a size less takes them away. *)
LEMMA AnnounceMore ==
    ASSUME NEW q \in Seq(Nat), NEW words \in Nat, Announces(q, words), NEW s \in Nat
    PROVE  Announces(Append(q, s), words + WordsOf[s]) /\ words + WordsOf[s] \in Nat
<1> DEFINE n == Len(q)
           more == Append(q, s)
<1>1. /\ n \in Nat /\ Len(more) = n + 1 /\ more[n + 1] = s
      /\ \A k \in 1..n : more[k] = q[k]
  BY AppendFacts
<1>2. WordsOf[s] \in Nat /\ \A m \in Nat : WordsOf[m] \in Nat
  BY WordsFacts
<1>3. PICK rest \in [1..n + 1 -> Nat] :
          /\ rest[1] = words /\ rest[n + 1] = 0
          /\ \A k \in 1..n : rest[k] = WordsOf[q[k]] + rest[k + 1]
  BY DEF Announces
<1> HIDE DEF n, more
<1> DEFINE new == [k \in 1..n + 2 |-> IF k = n + 2 THEN 0 ELSE rest[k] + WordsOf[s]]
<1>4. new \in [1..n + 2 -> Nat]
  BY <1>1, <1>2
<1>5. new[1] = words + WordsOf[s] /\ new[n + 2] = 0
  BY <1>1, <1>2, <1>3
<1>6. ASSUME NEW k \in 1..n + 1 PROVE new[k] = WordsOf[more[k]] + new[k + 1]
  <2>1. CASE k = n + 1
    BY <2>1, <1>1, <1>2, <1>3
  <2>2. CASE k \in 1..n
    <3>1. new[k] = rest[k] + WordsOf[s] /\ new[k + 1] = rest[k + 1] + WordsOf[s]
      BY <2>2, <1>1
    <3>2. rest[k] = WordsOf[more[k]] + rest[k + 1]
      BY <2>2, <1>1, <1>3
    <3>3. rest[k] \in Nat /\ rest[k + 1] \in Nat
      BY <2>2, <1>1
    <3>4. new[k] = (WordsOf[more[k]] + rest[k + 1]) + WordsOf[s]
      BY <3>1, <3>2
    <3>5. WordsOf[more[k]] \in Int
      <4>1. more[k] \in Nat
        BY <2>2, <1>1 DEF n
      <4> QED
        BY <4>1, <1>2
    <3> HIDE DEF new
    <3> QED
      BY <3>1, <3>3, <3>4, <3>5, <1>2
  <2> QED
    BY <2>1, <2>2, <1>1
<1> HIDE DEF new
<1>7. Len(more) + 1 = n + 2 /\ Len(more) = n + 1
  BY <1>1
<1>8. Announces(more, words + WordsOf[s])
  <2> SUFFICES /\ new \in [1..Len(more) + 1 -> Nat]
               /\ new[1] = words + WordsOf[s] /\ new[Len(more) + 1] = 0
               /\ \A k \in 1..Len(more) : new[k] = WordsOf[more[k]] + new[k + 1]
    BY DEF Announces
  <2> QED
    BY <1>4, <1>5, <1>6, <1>7
<1> QED
  BY <1>2, <1>8 DEF more

LEMMA AnnounceLess ==
    ASSUME NEW q \in Seq(Nat), NEW words \in Nat, Announces(q, words), q # << >>
    PROVE  \E fewer \in Nat : Announces(Tail(q), fewer) /\ words = WordsOf[Head(q)] + fewer
<1> DEFINE n == Len(q)
<1>1. /\ n \in Nat /\ n > 0 /\ Head(q) = q[1] /\ Len(Tail(q)) = n - 1
      /\ \A k \in 1..n - 1 : Tail(q)[k] = q[k + 1]
  BY TailFacts
<1>2. PICK rest \in [1..n + 1 -> Nat] :
          /\ rest[1] = words /\ rest[n + 1] = 0
          /\ \A k \in 1..n : rest[k] = WordsOf[q[k]] + rest[k + 1]
  BY DEF Announces
<1> HIDE DEF n
<1> DEFINE new == [k \in 1..n |-> rest[k + 1]]
<1>3. new \in [1..n -> Nat] /\ new[1] = rest[2] /\ new[n] = 0
  BY <1>1, <1>2
<1>4. \A k \in 1..n - 1 : new[k] = WordsOf[Tail(q)[k]] + new[k + 1]
  BY <1>1, <1>2, SMTT(30)
<1>5. words = WordsOf[Head(q)] + rest[2] /\ rest[2] \in Nat
  BY <1>1, <1>2
<1>6. Len(Tail(q)) + 1 = n
  BY <1>1
<1> HIDE DEF new
<1>7. Announces(Tail(q), rest[2])
  <2> SUFFICES /\ new \in [1..Len(Tail(q)) + 1 -> Nat]
               /\ new[1] = rest[2] /\ new[Len(Tail(q)) + 1] = 0
               /\ \A k \in 1..Len(Tail(q)) : new[k] = WordsOf[Tail(q)[k]] + new[k + 1]
    BY DEF Announces
  <2> QED
    BY <1>1, <1>3, <1>4, <1>6
<1> QED
  BY <1>5, <1>7

-----------------------------------------------------------------------------
(* The definition by recursion says the same. *)

LEMMA Smallest ==
    ASSUME NEW T \in SUBSET Nat, T # {}
    PROVE  \E x \in T : \A y \in T : x <= y
<1> DEFINE R == OpToRel(<, Nat)
<1>1. IsWellFoundedOn(R, Nat)
  BY NatLessThanWellFounded
<1>2. PICK x \in T : \A y \in T : ~(<<y, x>> \in R)
  <2> HIDE DEF R
  <2> QED
    BY <1>1, WFMin
<1>3. \A y \in T : ~(y < x)
  BY <1>2 DEF OpToRel
<1> QED
  BY <1>3

(* What the recursion asks of a function that counts the words from each   *)
(* size on.                                                                *)
Counts(q, from) ==
    from = [k \in 1..Len(q) + 1 |-> IF k > Len(q) THEN 0 ELSE Words(q[k]) + from[k + 1]]

(* Two functions that do agree from the last size down to the first.       *)
LEMMA CountsUnique ==
    ASSUME NEW q \in Seq(Nat), NEW f, NEW g, Counts(q, f), Counts(q, g)
    PROVE  f[1] = g[1]
<1> DEFINE n == Len(q)
           differ == {m \in Nat : m <= n /\ f[n + 1 - m] # g[n + 1 - m]}
<1>1. n \in Nat
  OBVIOUS
<1>2. f[n + 1] = 0 /\ g[n + 1] = 0
  BY <1>1 DEF Counts
<1>3. ASSUME NEW k \in 1..n PROVE f[k] = Words(q[k]) + f[k + 1] /\ g[k] = Words(q[k]) + g[k + 1]
  <2>1. k \in 1..Len(q) + 1 /\ ~(k > Len(q))
    BY <1>1
  <2>2. ASSUME NEW h, Counts(q, h) PROVE h[k] = Words(q[k]) + h[k + 1]
    <3>1. h[k] = IF k > Len(q) THEN 0 ELSE Words(q[k]) + h[k + 1]
      BY <2>1, <2>2, Zenon DEF Counts
    <3> QED
      BY <2>1, <3>1, Zenon
  <2> QED
    BY <2>2
<1>4. differ = {}
  <2> SUFFICES ASSUME differ # {} PROVE FALSE
    OBVIOUS
  <2>1. PICK x \in differ : \A y \in differ : x <= y
    BY Smallest
  <2>2. x \in Nat /\ x <= n /\ f[n + 1 - x] # g[n + 1 - x]
    OBVIOUS
  <2> HIDE DEF n
  <2>3. x # 0
    BY <1>1, <1>2, <2>2
  <2>4. x - 1 \in Nat /\ x - 1 <= n /\ x - 1 \notin differ
    BY <1>1, <2>1, <2>2, <2>3
  <2>5. f[n + 1 - (x - 1)] = g[n + 1 - (x - 1)]
    BY <2>4
  <2>6. n + 1 - x \in 1..n /\ n + 1 - x + 1 = n + 1 - (x - 1)
    BY <1>1, <2>2, <2>3
  <2>7. f[n + 1 - x] = g[n + 1 - x]
    BY <2>5, <2>6, <1>3
  <2> QED
    BY <2>2, <2>7
<1>5. n \notin differ
  BY <1>4
<1>6. n + 1 - n = 1
  BY <1>1
<1> QED
  BY <1>1, <1>5, <1>6

(* Announces is the recursion, with its values named. *)
LEMMA AnnouncedIsSum ==
    ASSUME NEW q \in Seq(Nat), NEW words \in Nat, Announces(q, words)
    PROVE  AnnouncedWords(q) = words
<1>1. PICK rest \in [1..Len(q) + 1 -> Nat] :
          /\ rest[1] = words /\ rest[Len(q) + 1] = 0
          /\ \A k \in 1..Len(q) : rest[k] = WordsOf[q[k]] + rest[k + 1]
  BY DEF Announces
<1>2. Counts(q, rest)
  <2>1. ASSUME NEW k \in 1..Len(q) + 1
        PROVE  rest[k] = IF k > Len(q) THEN 0 ELSE Words(q[k]) + rest[k + 1]
    <3>1. CASE k = Len(q) + 1
      BY <3>1, <1>1
    <3>2. CASE k \in 1..Len(q)
      <4>1. WordsOf[q[k]] = Words(q[k])
        BY <3>2 DEF WordsOf
      <4> QED
        BY <3>2, <4>1, <1>1
    <3> QED
      BY <3>1, <3>2
  <2> QED
    BY <2>1 DEF Counts
<1> DEFINE from == CHOOSE f : Counts(q, f)
<1>3. Counts(q, from)
  BY <1>2
<1>4. AnnouncedWords(q) = from[1]
  BY DEF AnnouncedWords, Counts
<1> HIDE DEF from
<1> QED
  BY <1>1, <1>2, <1>3, <1>4, CountsUnique

-----------------------------------------------------------------------------
RdState ==
    [pc : {"poll", "burst", "announce", "end", "done"}, vid : Blocks,
     pending : [Blocks -> BOOLEAN], idx : [Blocks -> Nat], size : [Blocks -> Nat],
     midx : Nat, burst : Nat]
DsState == [pc : {"size", "bytes", "out", "done"}, left : Nat, itr : Nat, buf : Int]

RdTyped ==
    /\ input \in Inputs
    /\ rd \in RdState
    /\ wordQ \in [Blocks -> Seq(Int)]
    /\ sizeQ \in [Blocks -> Seq(Nat)]
    /\ ds \in [Blocks -> DsState]

(* The words a downsizer still takes for the size it has read.             *)
Owed(d) ==
    IF d.pc = "bytes" THEN WordsOf[d.itr + d.left] - WordsOf[d.itr]
    ELSE IF d.pc = "out" THEN WordsOf[d.itr + d.left] - WordsOf[d.itr + 1]
    ELSE 0

RdBalance(b) ==
    \E words \in Nat :
        /\ Announces(sizeQ[b], words)
        /\ Len(wordQ[b]) = words + Owed(ds[b]) + WordsUnannounced(b)

(* The reader has not read past a block, and the burst it is in is the one *)
(* that is due.                                                            *)
Reading ==
    /\ \A b \in Blocks : rd.size[b] <= input[b].size
    /\ rd.pc \in {"burst", "announce"} =>
         PendingBytes(rd.vid) > 0 /\ rd.burst = BurstOf(rd.vid)
    /\ rd.pc = "burst" => rd.midx < rd.burst
    /\ rd.pc = "announce" => rd.midx = rd.burst

RdInv ==
    /\ RdTyped /\ Reading
    /\ \A b \in Blocks : ds[b].pc \in {"bytes", "out"} => ds[b].left > 0
    /\ \A b \in Blocks : RdBalance(b)

-----------------------------------------------------------------------------
(* Words and bytes. *)

LEMMA RdConstants ==
    /\ NumBlock \in Nat /\ NumBlock > 0 /\ WordSize \in Nat /\ WordSize > 0
    /\ BurstSize \in Nat /\ BurstSize > 0
    /\ 0 \in Blocks /\ \A b \in Blocks : b \in Nat /\ (b < NumBlock - 1 => b + 1 \in Blocks)
    /\ \A r \in Inputs : \A b \in Blocks : r[b].base \in Nat /\ r[b].size \in Nat
BY ReaderAssumption, WordAssumption DEF ReaderAssumption, WordAssumption, Blocks

(* A byte more makes a word more where a word begins, and only there.      *)
LEMMA ByteMore ==
    ASSUME NEW n \in Nat
    PROVE  WordsOf[n + 1] = WordsOf[n] + (IF n % WordSize = 0 THEN 1 ELSE 0)
<1>1. \A w, q, r \in Nat : r < w => /\ (q * w + r + w - 1) \div w = IF r = 0 THEN q ELSE q + 1
                                    /\ (q * w + r + 1 + w - 1) \div w = q + 1
                                    /\ (q * w + r) % w = r
  OBVIOUS
<1>2. \A w \in Nat : w > 0 => /\ n \div w \in Nat /\ n % w \in Nat /\ n % w < w
                              /\ n = (n \div w) * w + (n % w)
  OBVIOUS
<1>3. PICK q \in Nat, r \in Nat : r < WordSize /\ n = q * WordSize + r /\ r = n % WordSize
  BY <1>2, RdConstants
<1>4. /\ (n + WordSize - 1) \div WordSize = IF r = 0 THEN q ELSE q + 1
      /\ (n + 1 + WordSize - 1) \div WordSize = q + 1
  BY <1>1, <1>3, RdConstants
<1>5. WordsOf[n] = Words(n) /\ WordsOf[n + 1] = Words(n + 1)
  BY WordsFacts
<1> QED
  BY <1>3, <1>4, <1>5 DEF Words

(* A burst consists of the words of the bytes it is announced with.        *)
LEMMA BurstWords ==
    ASSUME NEW pend \in Nat, pend > 0, NEW burst, burst = Least(Words(pend), BurstSize)
    PROVE  /\ burst \in Nat /\ burst > 0 /\ Least(burst * WordSize, pend) \in Nat
           /\ Least(burst * WordSize, pend) <= pend
           /\ WordsOf[Least(burst * WordSize, pend)] = burst
<1>1. WordsOf[pend] = Words(pend) /\ WordsOf[pend] \in Nat /\ WordsOf[pend] > 0
  BY WordsFacts
<1>2. burst \in Nat /\ burst > 0 /\ burst * WordSize \in Nat /\ WordsOf[burst * WordSize] = burst
  <2>1. burst \in Nat /\ burst > 0
    BY <1>1, RdConstants DEF Least
  <2> QED
    BY <2>1, WordsFacts
<1>3. \A w, p, n \in Nat : w > 0 /\ n < (p + w - 1) \div w => n * w < p
  OBVIOUS
<1>4. CASE burst = Words(pend)
  <2>1. \A w, p \in Nat : w > 0 => ((p + w - 1) \div w) * w >= p
    OBVIOUS
  <2>2. burst * WordSize >= pend
    BY <1>4, <2>1, RdConstants DEF Words
  <2>3. Least(burst * WordSize, pend) = pend
    BY <1>2, <2>2 DEF Least
  <2> QED
    BY <1>1, <1>2, <1>4, <2>3
<1>5. CASE burst # Words(pend)
  <2>1. burst < Words(pend)
    BY <1>1, <1>5, RdConstants DEF Least
  <2>2. burst * WordSize < pend
    BY <1>2, <1>3, <2>1, RdConstants DEF Words
  <2>3. Least(burst * WordSize, pend) = burst * WordSize
    BY <2>2 DEF Least
  <2> QED
    BY <1>2, <2>2, <2>3
<1> QED
  BY <1>4, <1>5

LEMMA MovesOver == \A m, n \in Nat : (m + 1) + (n - 1) = m + n
OBVIOUS

LEMMA OwedTyped == \A d \in DsState : Owed(d) \in Int
<1> SUFFICES ASSUME NEW d \in DsState PROVE Owed(d) \in Int
  OBVIOUS
<1>1. d.itr \in Nat /\ d.left \in Nat /\ d.itr + d.left \in Nat /\ d.itr + 1 \in Nat
  BY DEF DsState
<1>2. /\ WordsOf[d.itr] \in Nat /\ WordsOf[d.itr + 1] \in Nat
      /\ WordsOf[d.itr + d.left] \in Nat
  BY <1>1, WordsFacts
<1> QED
  BY <1>2 DEF Owed

-----------------------------------------------------------------------------
(* The reader. *)

LEMMA RdTurnTyped ==
    ASSUME NEW r \in RdState
    PROVE  /\ RdNextTurn(r) \in RdState /\ RdNextTurn(r).pc \in {"poll", "end"}
           /\ RdNextTurn(r).size = r.size /\ RdNextTurn(r).idx = r.idx
BY RdConstants DEF RdNextTurn, RdState

LEMMA RdInvInit == RdInit => RdInv
<1> SUFFICES ASSUME RdInit PROVE RdInv
  OBVIOUS
<1>1. RdTyped
  <2>1. \A w, n \in Nat : w > 0 => n \div w \in Nat
    OBVIOUS
  <2>2. \A b \in Blocks : input[b].base \div WordSize \in Nat
    BY <2>1, RdConstants DEF RdInit
  <2>3. rd \in RdState
    BY <2>2, RdConstants DEF RdInit, RdState
  <2> QED
    BY <2>3 DEF RdInit, RdTyped, DsState
<1>2. Reading
  BY <1>1, RdConstants DEF RdInit, Reading
<1>3. ASSUME NEW b \in Blocks PROVE RdBalance(b)
  <2>1. /\ sizeQ[b] = << >> /\ wordQ[b] = << >> /\ Owed(ds[b]) = 0
        /\ WordsUnannounced(b) = 0
    BY DEF RdInit, Owed, WordsUnannounced
  <2>2. Announces(<< >>, 0)
    BY NoneAnnounced
  <2> QED
    BY <2>1, <2>2 DEF RdBalance
<1>4. \A b \in Blocks : ds[b].pc \notin {"bytes", "out"}
  BY DEF RdInit
<1> QED
  BY <1>1, <1>2, <1>3, <1>4 DEF RdInv

LEMMA RdSameBalance ==
    ASSUME NEW b \in Blocks, RdBalance(b), wordQ'[b] = wordQ[b], sizeQ'[b] = sizeQ[b],
           ds'[b] = ds[b], WordsUnannounced(b)' = WordsUnannounced(b)
    PROVE  RdBalance(b)'
BY DEF RdBalance

(* The reader chooses a burst, sends its words, and announces them.        *)
LEMMA PollStep ==
    ASSUME RdInv, Poll
    PROVE  RdInv'
<1> PICK b \in Blocks : b = rd.vid
  BY DEF RdInv, RdTyped, RdState
<1> DEFINE r == [rd EXCEPT !.pending[b] = PendingBytes(b) > 0]
<1>1. /\ RdTyped /\ Reading /\ rd.pc = "poll" /\ UNCHANGED <<input, wordQ, sizeQ, ds>>
      /\ rd' = IF PendingBytes(b) > 0 /\ Len(sizeQ[b]) < SizeDepth
               THEN [r EXCEPT !.pc = "burst", !.midx = 0, !.burst = BurstOf(b)]
               ELSE RdNextTurn(r)
  BY DEF Poll, RdInv
<1>2. r \in RdState /\ r.vid = b /\ r.size = rd.size
  <2>1. [rd.pending EXCEPT ![b] = PendingBytes(b) > 0] \in [Blocks -> BOOLEAN]
    BY <1>1 DEF RdTyped, RdState
  <2> QED
    BY <1>1, <2>1 DEF RdTyped, RdState
<1>3. PendingBytes(b) \in Nat
  BY <1>1, RdConstants DEF PendingBytes, RdTyped, RdState
<1> HIDE DEF r
<1>4. /\ rd' \in RdState /\ rd'.size = rd.size
      /\ \/ rd'.pc \in {"poll", "end"}
         \/ /\ rd'.pc = "burst" /\ rd'.vid = b /\ rd'.midx = 0 /\ rd'.burst = BurstOf(b)
            /\ PendingBytes(b) > 0 /\ BurstOf(b) > 0
  <2>1. CASE PendingBytes(b) > 0 /\ Len(sizeQ[b]) < SizeDepth
    <3>1. BurstOf(b) \in Nat /\ BurstOf(b) > 0
      BY <1>3, <2>1, BurstWords DEF BurstOf
    <3>2. rd' = [r EXCEPT !.pc = "burst", !.midx = 0, !.burst = BurstOf(b)]
      BY <1>1, <2>1
    <3> QED
      BY <1>2, <2>1, <3>1, <3>2 DEF RdState
  <2>2. CASE ~(PendingBytes(b) > 0 /\ Len(sizeQ[b]) < SizeDepth)
    BY <1>1, <1>2, <2>2, RdTurnTyped
  <2> QED
    BY <2>1, <2>2
<1>5. \A c : PendingBytes(c)' = PendingBytes(c) /\ BurstOf(c)' = BurstOf(c)
  BY <1>1, <1>4 DEF PendingBytes, BurstOf
<1>6. RdTyped'
  BY <1>1, <1>4 DEF RdTyped
<1>7. Reading'
  <2>1. rd'.pc = "burst" => PendingBytes(rd.vid)' > 0 /\ rd'.burst = BurstOf(rd.vid)'
    <3>1. rd'.pc = "burst" => rd'.vid = b /\ rd'.burst = BurstOf(b) /\ PendingBytes(b) > 0
      BY <1>4
    <3>2. rd'.pc = "burst" => /\ input'[rd'.vid] = input[b] /\ rd'.size[rd'.vid] = rd.size[b]
      BY <1>1, <1>4, <3>1
    <3> QED
      BY <3>1, <3>2 DEF PendingBytes, BurstOf
  <2> QED
    BY <1>1, <1>4, <2>1 DEF Reading
<1>8. ASSUME NEW c \in Blocks PROVE RdBalance(c)'
  <2>1. WordsUnannounced(c)' = WordsUnannounced(c)
    BY <1>1, <1>4 DEF WordsUnannounced
  <2> QED
    BY <1>1, <2>1, RdSameBalance DEF RdInv
<1> QED
  BY <1>1, <1>6, <1>7, <1>8 DEF RdInv

LEMMA BurstWordStep ==
    ASSUME RdInv, BurstWord
    PROVE  RdInv'
<1> PICK b \in Blocks : b = rd.vid
  BY DEF RdInv, RdTyped, RdState
<1>1. /\ RdTyped /\ Reading /\ rd.pc = "burst" /\ UNCHANGED <<input, sizeQ, ds>>
      /\ wordQ' = [wordQ EXCEPT ![b] = Append(wordQ[b], rd.idx[b] + rd.midx)]
      /\ rd' = [rd EXCEPT !.midx = rd.midx + 1,
                          !.pc = IF rd.midx + 1 < rd.burst THEN "burst" ELSE "announce"]
  BY DEF BurstWord, RdInv
<1>2. /\ rd.midx \in Nat /\ rd.burst \in Nat /\ rd.midx < rd.burst /\ rd.midx + 1 \in Nat
      /\ PendingBytes(b) > 0 /\ rd.burst = BurstOf(b) /\ rd.idx[b] + rd.midx \in Int
      /\ wordQ[b] \in Seq(Int)
  BY <1>1 DEF RdTyped, RdState, Reading
<1>3. /\ rd' \in RdState /\ rd'.vid = b /\ rd'.midx = rd.midx + 1 /\ rd'.size = rd.size
      /\ rd'.burst = rd.burst
      /\ rd'.pc = IF rd.midx + 1 < rd.burst THEN "burst" ELSE "announce"
  <2>1. CASE rd.midx + 1 < rd.burst
    <3>1. rd' = [rd EXCEPT !.midx = rd.midx + 1, !.pc = "burst"]
      BY <1>1, <2>1
    <3> QED
      BY <1>1, <1>2, <2>1, <3>1 DEF RdTyped, RdState
  <2>2. CASE ~(rd.midx + 1 < rd.burst)
    <3>1. rd' = [rd EXCEPT !.midx = rd.midx + 1, !.pc = "announce"]
      BY <1>1, <2>2
    <3> QED
      BY <1>1, <1>2, <2>2, <3>1 DEF RdTyped, RdState
  <2> QED
    BY <2>1, <2>2
<1>4. /\ Append(wordQ[b], rd.idx[b] + rd.midx) \in Seq(Int) /\ Len(wordQ[b]) \in Nat
      /\ Len(Append(wordQ[b], rd.idx[b] + rd.midx)) = Len(wordQ[b]) + 1
  BY <1>2, AppendFacts
<1>5. /\ wordQ' \in [Blocks -> Seq(Int)] /\ Len(wordQ'[b]) = Len(wordQ[b]) + 1
      /\ \A c \in Blocks : c # b => wordQ'[c] = wordQ[c]
  BY <1>1, <1>4 DEF RdTyped
<1>6. RdTyped'
  BY <1>1, <1>3, <1>5 DEF RdTyped
<1>7. Reading'
  <2>1. PendingBytes(rd.vid)' > 0 /\ rd'.burst = BurstOf(rd.vid)'
    BY <1>1, <1>2, <1>3 DEF PendingBytes, BurstOf
  <2>2. \A c \in Blocks : rd'.size[c] <= input'[c].size
    BY <1>1, <1>3 DEF Reading
  <2>3. /\ rd'.pc = "burst" => rd'.midx < rd'.burst
        /\ rd'.pc = "announce" => rd'.midx = rd'.burst
        /\ rd'.pc \in {"burst", "announce"}
    BY <1>2, <1>3
  <2> QED
    BY <2>1, <2>2, <2>3 DEF Reading
<1>8. ASSUME NEW c \in Blocks PROVE RdBalance(c)'
  <2>1. CASE c = b
    <3>1. WordsUnannounced(b) = rd.midx /\ WordsUnannounced(b)' = rd.midx + 1
      BY <1>1, <1>2, <1>3 DEF WordsUnannounced
    <3>2. PICK words \in Nat : /\ Announces(sizeQ[b], words)
                               /\ Len(wordQ[b]) = words + Owed(ds[b]) + rd.midx
      BY <3>1 DEF RdInv, RdBalance
    <3>3. Owed(ds[b]) \in Int
      BY <1>1, OwedTyped DEF RdTyped
    <3>4. Len(wordQ'[b]) = words + Owed(ds[b]) + (rd.midx + 1)
      BY <1>2, <1>4, <1>5, <3>2, <3>3, SMTT(30)
    <3> QED
      BY <1>1, <2>1, <3>1, <3>2, <3>4 DEF RdBalance
  <2>2. CASE c # b
    <3>1. WordsUnannounced(c)' = WordsUnannounced(c)
      BY <1>3, <2>2 DEF WordsUnannounced
    <3> QED
      BY <1>1, <1>5, <2>2, <3>1, RdSameBalance DEF RdInv
  <2> QED
    BY <2>1, <2>2
<1> QED
  BY <1>1, <1>6, <1>7, <1>8 DEF RdInv

LEMMA AnnounceStep ==
    ASSUME RdInv, Announce
    PROVE  RdInv'
<1> PICK b \in Blocks : b = rd.vid
  BY DEF RdInv, RdTyped, RdState
<1> DEFINE s == Least(rd.burst * WordSize, input[b].size - rd.size[b])
           r == [rd EXCEPT !.idx[b] = rd.idx[b] + rd.burst, !.size[b] = rd.size[b] + s]
<1>1. /\ RdTyped /\ Reading /\ rd.pc = "announce" /\ UNCHANGED <<input, wordQ, ds>>
      /\ sizeQ' = [sizeQ EXCEPT ![b] = Append(sizeQ[b], s)]
      /\ rd' = RdNextTurn(r)
  BY DEF Announce, Announced, RdInv
<1>2. /\ rd.midx = rd.burst /\ PendingBytes(b) > 0 /\ rd.burst = BurstOf(b)
      /\ rd.size[b] \in Nat /\ input[b].size \in Nat /\ rd.size[b] <= input[b].size
      /\ rd.idx[b] \in Nat /\ rd.burst \in Nat /\ sizeQ[b] \in Seq(Nat)
  BY <1>1, RdConstants DEF RdTyped, RdState, Reading
<1>3. PendingBytes(b) = input[b].size - rd.size[b] /\ PendingBytes(b) \in Nat
  BY <1>2 DEF PendingBytes
<1>4. s \in Nat /\ WordsOf[s] = rd.burst /\ s <= input[b].size - rd.size[b]
  BY <1>2, <1>3, BurstWords DEF BurstOf
<1> HIDE DEF s
<1>5. /\ r \in RdState /\ r.size[b] = rd.size[b] + s
      /\ \A c \in Blocks : c # b => r.size[c] = rd.size[c]
  <2>1. rd.idx[b] + rd.burst \in Nat /\ rd.size[b] + s \in Nat
    BY <1>2, <1>4
  <2> QED
    BY <1>1, <2>1 DEF RdTyped, RdState
<1> HIDE DEF r
<1>6. rd' \in RdState /\ rd'.pc \in {"poll", "end"} /\ rd'.size = r.size
  BY <1>1, <1>5, RdTurnTyped
<1>7. /\ Append(sizeQ[b], s) \in Seq(Nat)
      /\ sizeQ' \in [Blocks -> Seq(Nat)] /\ sizeQ'[b] = Append(sizeQ[b], s)
      /\ \A c \in Blocks : c # b => sizeQ'[c] = sizeQ[c]
  <2>1. Append(sizeQ[b], s) \in Seq(Nat)
    BY <1>2, <1>4, AppendFacts
  <2> QED
    BY <1>1, <2>1 DEF RdTyped
<1>8. RdTyped'
  BY <1>1, <1>6, <1>7 DEF RdTyped
<1>9. Reading'
  <2>1. ASSUME NEW c \in Blocks PROVE rd'.size[c] <= input'[c].size
    <3>1. CASE c = b
      BY <1>1, <1>2, <1>4, <1>5, <1>6, <3>1
    <3>2. CASE c # b
      BY <1>1, <1>5, <1>6, <3>2 DEF Reading
    <3> QED
      BY <3>1, <3>2
  <2> QED
    BY <1>6, <2>1 DEF Reading
<1>10. ASSUME NEW c \in Blocks PROVE RdBalance(c)'
  <2>1. WordsUnannounced(c)' = 0
    BY <1>6 DEF WordsUnannounced
  <2>2. CASE c = b
    <3>1. WordsUnannounced(b) = rd.burst
      BY <1>1, <1>2 DEF WordsUnannounced
    <3>2. PICK words \in Nat : /\ Announces(sizeQ[b], words)
                               /\ Len(wordQ[b]) = words + Owed(ds[b]) + rd.burst
      BY <3>1 DEF RdInv, RdBalance
    <3>3. Announces(sizeQ'[b], words + rd.burst) /\ words + rd.burst \in Nat
      <4>1. Announces(Append(sizeQ[b], s), words + WordsOf[s]) /\ words + WordsOf[s] \in Nat
        BY <1>2, <1>4, <3>2, AnnounceMore
      <4> QED
        BY <1>4, <1>7, <4>1
    <3>4. Owed(ds[b]) \in Int
      BY <1>1, OwedTyped DEF RdTyped
    <3>5. Len(wordQ[b]) = (words + rd.burst) + Owed(ds[b]) + 0
      BY <1>2, <3>2, <3>4
    <3> QED
      BY <1>1, <2>1, <2>2, <3>3, <3>5 DEF RdBalance
  <2>3. CASE c # b
    <3>1. WordsUnannounced(c) = 0
      BY <2>3 DEF WordsUnannounced
    <3> QED
      BY <1>1, <1>7, <2>1, <2>3, <3>1, RdSameBalance DEF RdInv
  <2> QED
    BY <2>2, <2>3
<1> QED
  BY <1>1, <1>8, <1>9, <1>10 DEF RdInv

LEMMA EndStep ==
    ASSUME RdInv, EndMark
    PROVE  RdInv'
<1> PICK b \in Blocks : b = rd.vid
  BY DEF RdInv, RdTyped, RdState
<1>1. /\ RdTyped /\ Reading /\ rd.pc = "end" /\ UNCHANGED <<input, wordQ, ds>>
      /\ sizeQ' = [sizeQ EXCEPT ![b] = Append(sizeQ[b], 0)]
      /\ rd' = IF b < NumBlock - 1 THEN [rd EXCEPT !.vid = b + 1] ELSE [rd EXCEPT !.pc = "done"]
  BY DEF EndMark, RdInv
<1>2. rd' \in RdState /\ rd'.pc \in {"end", "done"} /\ rd'.size = rd.size
  <2>1. CASE b < NumBlock - 1
    <3>1. rd' = [rd EXCEPT !.vid = b + 1] /\ b + 1 \in Blocks
      BY <1>1, <2>1, RdConstants
    <3> QED
      BY <1>1, <3>1 DEF RdTyped, RdState
  <2>2. CASE ~(b < NumBlock - 1)
    <3>1. rd' = [rd EXCEPT !.pc = "done"]
      BY <1>1, <2>2
    <3> QED
      BY <1>1, <3>1 DEF RdTyped, RdState
  <2> QED
    BY <2>1, <2>2
<1>3. /\ sizeQ[b] \in Seq(Nat) /\ 0 \in Nat /\ Append(sizeQ[b], 0) \in Seq(Nat)
      /\ WordsOf[0] = 0
  <2>1. sizeQ[b] \in Seq(Nat) /\ 0 \in Nat
    BY <1>1 DEF RdTyped
  <2> QED
    BY <2>1, AppendFacts, WordsFacts
<1>4. /\ sizeQ' \in [Blocks -> Seq(Nat)] /\ sizeQ'[b] = Append(sizeQ[b], 0)
      /\ \A c \in Blocks : c # b => sizeQ'[c] = sizeQ[c]
  BY <1>1, <1>3 DEF RdTyped
<1>5. RdTyped' /\ Reading'
  BY <1>1, <1>2, <1>4 DEF RdTyped, Reading
<1>6. ASSUME NEW c \in Blocks PROVE RdBalance(c)'
  <2>1. WordsUnannounced(c)' = 0 /\ WordsUnannounced(c) = 0
    BY <1>1, <1>2 DEF WordsUnannounced
  <2>2. CASE c = b
    <3>1. PICK words \in Nat : /\ Announces(sizeQ[b], words)
                               /\ Len(wordQ[b]) = words + Owed(ds[b]) + 0
      BY <2>1, <2>2 DEF RdInv, RdBalance
    <3>2. Announces(Append(sizeQ[b], 0), words + WordsOf[0])
      BY <1>3, <3>1, AnnounceMore
    <3>3. words + WordsOf[0] = words
      BY <1>3, <3>1
    <3>4. Announces(sizeQ'[b], words)
      BY <1>4, <3>2, <3>3
    <3> QED
      BY <1>1, <2>1, <2>2, <3>1, <3>4 DEF RdBalance
  <2>3. CASE c # b
    BY <1>1, <1>4, <2>1, <2>3, RdSameBalance DEF RdInv
  <2> QED
    BY <2>2, <2>3
<1> QED
  BY <1>1, <1>5, <1>6 DEF RdInv

-----------------------------------------------------------------------------
(* The downsizers. *)

LEMMA DownSizerStep ==
    ASSUME RdInv, NEW b \in Blocks, DownSizer(b)
    PROVE  RdInv'
<1>1. UNCHANGED <<input, rd>> /\ RdTyped /\ Reading
  BY DEF DownSizer, DsSize, DsWord, DsByte, RdInv
<1>2. \A c \in Blocks : WordsUnannounced(c)' = WordsUnannounced(c)
  BY <1>1 DEF WordsUnannounced
<1>3. Reading'
  BY <1>1 DEF Reading, PendingBytes, BurstOf
<1>4. /\ ds[b] \in DsState /\ ds[b].left \in Nat /\ ds[b].itr \in Nat
      /\ wordQ[b] \in Seq(Int) /\ sizeQ[b] \in Seq(Nat)
      /\ ds[b].pc \in {"bytes", "out"} => ds[b].left > 0
      /\ WordsUnannounced(b) \in Int
  BY <1>1, SMTT(30) DEF RdTyped, DsState, RdInv, RdState, WordsUnannounced
<1>5. PICK words \in Nat : /\ Announces(sizeQ[b], words)
                           /\ Len(wordQ[b]) = words + Owed(ds[b]) + WordsUnannounced(b)
  BY DEF RdInv, RdBalance
<1> DEFINE Kept == /\ ds' \in [Blocks -> DsState]
                   /\ wordQ' \in [Blocks -> Seq(Int)] /\ sizeQ' \in [Blocks -> Seq(Nat)]
                   /\ \A c \in Blocks : c # b => /\ ds'[c] = ds[c] /\ wordQ'[c] = wordQ[c]
                                                 /\ sizeQ'[c] = sizeQ[c]
                   /\ ds'[b].pc \in {"bytes", "out"} => ds'[b].left > 0
<1>6. Kept => RdTyped'
  BY <1>1 DEF RdTyped
<1>7. Kept => \A c \in Blocks : ds'[c].pc \in {"bytes", "out"} => ds'[c].left > 0
  BY DEF RdInv
<1>8. Kept => \A c \in Blocks : c # b => RdBalance(c)'
  BY <1>2, RdSameBalance DEF RdInv
<1>9. Kept /\ RdBalance(b)'
  <2>1. CASE DsSize(b)
    <3> DEFINE s == Head(sizeQ[b])
    <3>1. /\ ds[b].pc = "size" /\ sizeQ[b] # << >> /\ wordQ' = wordQ
          /\ ds' = [ds EXCEPT ![b] = [ds[b] EXCEPT !.pc = IF s = 0 THEN "done" ELSE "bytes",
                                                   !.left = s, !.itr = 0]]
          /\ sizeQ' = [sizeQ EXCEPT ![b] = Tail(sizeQ[b])]
      BY <2>1 DEF DsSize
    <3>2. s \in Nat /\ Tail(sizeQ[b]) \in Seq(Nat)
      BY <1>4, <3>1, TailFacts
    <3>3. PICK fewer \in Nat : Announces(Tail(sizeQ[b]), fewer) /\ words = WordsOf[s] + fewer
      BY <1>4, <1>5, <3>1, AnnounceLess
    <3> HIDE DEF s
    <3> DEFINE d == [ds[b] EXCEPT !.pc = IF s = 0 THEN "done" ELSE "bytes",
                                  !.left = s, !.itr = 0]
    <3>4. /\ d \in DsState /\ d.left = s /\ d.itr = 0
          /\ d.pc = IF s = 0 THEN "done" ELSE "bytes"
      BY <1>4, <3>2 DEF DsState
    <3>5. ds' = [ds EXCEPT ![b] = d]
      BY <3>1
    <3> HIDE DEF d
    <3>6. Kept /\ ds'[b] = d /\ sizeQ'[b] = Tail(sizeQ[b])
      BY <1>1, <3>1, <3>2, <3>4, <3>5 DEF RdTyped
    <3>7. Owed(ds[b]) = 0 /\ Owed(d) = WordsOf[s] /\ WordsOf[s] \in Nat
      <4>1. WordsOf[s] \in Nat /\ WordsOf[0] = 0 /\ 0 + s = s
        <5>1. 0 + s = s
          BY <3>2
        <5> QED
          BY <3>2, <5>1, WordsFacts
      <4>2. CASE s = 0
        BY <3>1, <3>4, <4>1, <4>2 DEF Owed
      <4>3. CASE s # 0
        BY <3>1, <3>4, <4>1, <4>3 DEF Owed
      <4> QED
        BY <4>2, <4>3
    <3>8. Len(wordQ'[b]) = fewer + Owed(ds'[b]) + WordsUnannounced(b)
      BY <1>4, <1>5, <3>1, <3>3, <3>6, <3>7, SMTT(30)
    <3> QED
      BY <1>2, <3>3, <3>6, <3>8 DEF RdBalance
  <2>2. CASE DsWord(b)
    <3>1. /\ ds[b].pc = "bytes" /\ ds[b].itr % WordSize = 0 /\ wordQ[b] # << >> /\ sizeQ' = sizeQ
          /\ ds' = [ds EXCEPT ![b].buf = Head(wordQ[b]), ![b].pc = "out"]
          /\ wordQ' = [wordQ EXCEPT ![b] = Tail(wordQ[b])]
      BY <2>2 DEF DsWord, NeedsWord
    <3>2. /\ Head(wordQ[b]) \in Int /\ Tail(wordQ[b]) \in Seq(Int) /\ Len(wordQ[b]) \in Nat
          /\ Len(Tail(wordQ[b])) = Len(wordQ[b]) - 1
      BY <1>4, <3>1, TailFacts
    <3>3. /\ Kept /\ wordQ'[b] = Tail(wordQ[b]) /\ ds'[b].pc = "out"
          /\ ds'[b].itr = ds[b].itr /\ ds'[b].left = ds[b].left
      BY <1>1, <1>4, <3>1, <3>2 DEF RdTyped, DsState
    <3>4. /\ WordsOf[ds[b].itr + 1] = WordsOf[ds[b].itr] + 1 /\ WordsOf[ds[b].itr] \in Nat
          /\ WordsOf[ds[b].itr + ds[b].left] \in Nat
      <4>1. WordsOf[ds[b].itr] \in Nat /\ WordsOf[ds[b].itr + ds[b].left] \in Nat
        <5>1. ds[b].itr + ds[b].left \in Nat
          BY <1>4
        <5> QED
          BY <1>4, <5>1, WordsFacts
      <4>2. WordsOf[ds[b].itr + 1] = WordsOf[ds[b].itr] + 1
        BY <1>4, <3>1, ByteMore
      <4> QED
        BY <4>1, <4>2
    <3>5. /\ Owed(ds[b]) = WordsOf[ds[b].itr + ds[b].left] - WordsOf[ds[b].itr]
          /\ Owed(ds'[b]) = WordsOf[ds[b].itr + ds[b].left] - WordsOf[ds[b].itr + 1]
      BY <3>1, <3>3 DEF Owed
    <3>6. Len(wordQ'[b]) = words + Owed(ds'[b]) + WordsUnannounced(b)
      <4>1. Owed(ds[b]) \in Int /\ Owed(ds'[b]) = Owed(ds[b]) - 1
        BY <3>4, <3>5
      <4> QED
        BY <1>4, <1>5, <3>2, <3>3, <4>1
    <3> QED
      BY <1>2, <1>5, <3>1, <3>3, <3>6 DEF RdBalance
  <2>3. CASE DsByte(b)
    <3>1. /\ ds[b].pc = "out" \/ (ds[b].pc = "bytes" /\ ds[b].itr % WordSize # 0)
          /\ wordQ' = wordQ /\ sizeQ' = sizeQ
          /\ ds' = [ds EXCEPT ![b].itr = ds[b].itr + 1, ![b].left = ds[b].left - 1,
                              ![b].pc = IF ds[b].left = 1 THEN "size" ELSE "bytes"]
      BY <2>3 DEF DsByte, NeedsWord, LastByte
    <3>2. ds[b].left > 0 /\ ds[b].left - 1 \in Nat /\ ds[b].itr + 1 \in Nat
      BY <1>4, <3>1
    <3>3. /\ ds' \in [Blocks -> DsState] /\ ds'[b].pc = IF ds[b].left = 1 THEN "size" ELSE "bytes"
          /\ ds'[b].itr = ds[b].itr + 1 /\ ds'[b].left = ds[b].left - 1
          /\ \A c \in Blocks : c # b => ds'[c] = ds[c]
      BY <1>1, <1>4, <3>1, <3>2 DEF RdTyped, DsState
    <3>4. Kept
      BY <1>1, <1>4, <3>1, <3>2, <3>3 DEF RdTyped
    <3>5. Owed(ds[b]) = WordsOf[ds[b].itr + ds[b].left] - WordsOf[ds[b].itr + 1]
      <4>1. CASE ds[b].pc = "out"
        BY <4>1 DEF Owed
      <4>2. CASE ds[b].pc = "bytes" /\ ds[b].itr % WordSize # 0
        <5>1. WordsOf[ds[b].itr + 1] = WordsOf[ds[b].itr]
          <6>1. WordsOf[ds[b].itr] \in Nat
            BY <1>4, WordsFacts
          <6>2. WordsOf[ds[b].itr + 1] = WordsOf[ds[b].itr] + 0
            BY <1>4, <4>2, ByteMore
          <6> QED
            BY <6>1, <6>2
        <5> QED
          BY <4>2, <5>1 DEF Owed
      <4> QED
        BY <3>1, <4>1, <4>2
    <3>6. Owed(ds'[b]) = Owed(ds[b])
      <4>1. /\ WordsOf[ds[b].itr + 1] \in Nat
            /\ (ds[b].itr + 1) + (ds[b].left - 1) = ds[b].itr + ds[b].left
        BY <1>4, <3>2, WordsFacts, MovesOver
      <4>2. CASE ds[b].left = 1
        BY <3>3, <3>5, <4>1, <4>2 DEF Owed
      <4>3. CASE ds[b].left # 1
        BY <3>3, <3>5, <4>1, <4>3 DEF Owed
      <4> QED
        BY <4>2, <4>3
    <3> QED
      <4>1. Announces(sizeQ'[b], words)
        BY <1>5, <3>1
      <4>2. Len(wordQ'[b]) = words + Owed(ds'[b]) + WordsUnannounced(b)'
        BY <1>2, <1>5, <3>1, <3>6
      <4> QED
        BY <3>4, <4>1, <4>2 DEF RdBalance
  <2> QED
    BY <2>1, <2>2, <2>3 DEF DownSizer
<1> HIDE DEF Kept
<1>10. \A c \in Blocks : RdBalance(c)'
  BY <1>8, <1>9
<1> QED
  BY <1>3, <1>6, <1>7, <1>9, <1>10 DEF RdInv

LEMMA InvRests == RdInv /\ UNCHANGED <<input, rd, wordQ, sizeQ, ds>> => RdInv'
BY DEF RdInv, RdTyped, Reading, PendingBytes, BurstOf, RdBalance, WordsUnannounced

LEMMA RdInvStep == RdInv /\ [RdNext]_rdVars => RdInv'
<1> SUFFICES ASSUME RdInv, [RdNext]_rdVars PROVE RdInv'
  OBVIOUS
<1>1. CASE UNCHANGED rdVars
  BY <1>1, InvRests DEF rdVars
<1>2. CASE RdRest
  BY <1>1, <1>2 DEF RdRest
<1>3. ASSUME NEW b \in Blocks, EngineRead(b) PROVE RdInv'
  BY <1>3, InvRests DEF EngineRead
<1>4. CASE Reader
  BY <1>4, PollStep, BurstWordStep, AnnounceStep, EndStep DEF Reader
<1> QED
  BY <1>1, <1>2, <1>3, <1>4, DownSizerStep DEF RdNext

-----------------------------------------------------------------------------
(* The words in the FIFO between the reader and a downsizer are always     *)
(* those the announced sizes call for, those left of the size read last,   *)
(* and those of the burst not yet announced, for any number of engines and *)
(* any alignment (mm2s.hpp): a downsizer never waits for a word.           *)
THEOREM ReaderWordsAndSizesAgree == RdSpec => []WordsMatchSizes
<1>1. RdInv => WordsMatchSizes
  <2> SUFFICES ASSUME RdInv, NEW b \in Blocks
               PROVE  Len(wordQ[b]) = WordsAnnounced(b) + WordsUnannounced(b)
    BY DEF WordsMatchSizes
  <2>1. /\ sizeQ[b] \in Seq(Nat) /\ ds[b] \in DsState /\ ds[b].itr \in Nat /\ ds[b].left \in Nat
        /\ ds[b].pc \in {"size", "bytes", "out", "done"}
        /\ ds[b].pc \in {"bytes", "out"} => ds[b].left > 0
        /\ WordsUnannounced(b) \in Int
    BY SMTT(30) DEF RdInv, RdTyped, DsState, RdState, WordsUnannounced
  <2>2. PICK words \in Nat : /\ Announces(sizeQ[b], words)
                             /\ Len(wordQ[b]) = words + Owed(ds[b]) + WordsUnannounced(b)
    BY DEF RdInv, RdBalance
  <2>3. AnnouncedWords(sizeQ[b]) = words
    BY <2>1, <2>2, AnnouncedIsSum
  <2>4. /\ WordsOf[ds[b].itr + ds[b].left] = Words(ds[b].itr + ds[b].left)
        /\ WordsOf[ds[b].itr] = Words(ds[b].itr) /\ WordsOf[ds[b].itr + 1] = Words(ds[b].itr + 1)
    <3>1. ds[b].itr \in Nat /\ ds[b].itr + 1 \in Nat /\ ds[b].itr + ds[b].left \in Nat
      BY <2>1
    <3> QED
      BY <3>1, WordsFacts
  <2>5. Owed(ds[b]) \in Int
    BY <2>1, OwedTyped
  <2>6. WordsAnnounced(b) = Owed(ds[b]) + words
    <3>1. CASE ds[b].pc \in {"size", "done"}
      BY <2>3, <3>1 DEF WordsAnnounced, Owed
    <3>2. CASE ds[b].pc = "bytes"
      BY <2>3, <2>4, <3>2 DEF WordsAnnounced, Owed
    <3>3. CASE ds[b].pc = "out"
      <4>1. (ds[b].itr + 1) + (ds[b].left - 1) = ds[b].itr + ds[b].left
        BY <2>1, MovesOver
      <4> QED
        BY <2>3, <2>4, <3>3, <4>1 DEF WordsAnnounced, Owed
    <3> QED
      BY <2>1, <3>1, <3>2, <3>3
  <2> QED
    BY <2>1, <2>2, <2>5, <2>6
<1> QED
  BY <1>1, RdInvInit, RdInvStep, PTL DEF RdSpec

-----------------------------------------------------------------------------
(* The order of the bytes.  Off counts the bytes into a word.              *)

Off(n) == n % WordSize

Sent(b) == taken[b] + Len(byteQ[b])

FirstWord(b) == input[b].base \div WordSize

(* The word the next one in the FIFO, or the next one sent, must be.       *)
NextWord(b) == FirstWord(b) + WordsOf[IF ds[b].pc = "out" THEN Sent(b) + 1 ELSE Sent(b)]

(* The bytes of the sizes in q lie behind each other, from first on to     *)
(* last; only at the beginning of a word does one begin that is not empty. *)
Adjoins(q, first, last) ==
    \E from \in [1..Len(q) + 1 -> Nat] :
        /\ from[1] = first /\ from[Len(q) + 1] = last
        /\ \A k \in 1..Len(q) + 1 : from[k] <= last
        /\ \A k \in 1..Len(q) : /\ from[k + 1] = from[k] + q[k]
                                /\ q[k] > 0 => Off(from[k]) = 0

Holding(b) == ds[b].pc = "out" \/ (ds[b].pc = "bytes" /\ Off(Sent(b)) # 0)

SizesInOrder(b) ==
    /\ Adjoins(sizeQ[b], Sent(b) + ds[b].left, rd.size[b])
    /\ Off(rd.size[b]) = 0 \/ rd.size[b] = input[b].size
    /\ rd.idx[b] = FirstWord(b) + WordsOf[rd.size[b]]
    /\ ds[b].pc \in {"size", "done"} => ds[b].left = 0
    /\ ds[b].pc \in {"bytes", "out"} => Off(ds[b].itr) = Off(Sent(b))
    /\ ds[b].pc = "out" => Off(Sent(b)) = 0

WordsInOrder(b) ==
    /\ rd.idx[b] + WordsUnannounced(b) = NextWord(b) + Len(wordQ[b])
    /\ \A k \in 1..Len(wordQ[b]) : wordQ[b][k] = NextWord(b) + k - 1
    /\ Holding(b) => (ds[b].buf * WordSize) + Off(Sent(b)) = input[b].base + Sent(b)

BytesInOrder(b) ==
    \A k \in 1..Len(byteQ[b]) : byteQ[b][k] = input[b].base + taken[b] + k - 1

OrderInv ==
    /\ byteQ \in [Blocks -> Seq(Int)] /\ taken \in [Blocks -> Nat]
    /\ \A b \in Blocks : SizesInOrder(b) /\ WordsInOrder(b) /\ BytesInOrder(b)

LEMMA OffFacts ==
    /\ \A n \in Nat : Off(n) \in Nat /\ Off(n) < WordSize
    /\ \A n \in Nat : Off(n + 1) = IF Off(n) + 1 = WordSize THEN 0 ELSE Off(n) + 1
    /\ Off(0) = 0
    /\ \A a, n \in Nat : Off(a) = 0 => Off(a + (n * WordSize)) = 0
    /\ \A n \in Nat : WordsOf[n + 1] = IF Off(n) = 0 THEN WordsOf[n] + 1 ELSE WordsOf[n]
    /\ \A n \in Nat : Off(n) = 0 => n = WordsOf[n] * WordSize
    /\ \A a, s \in Nat : Off(a) = 0 => WordsOf[a + s] = WordsOf[a] + WordsOf[s]
<1>1. WordSize \in Nat /\ WordSize > 0
  BY RdConstants
<1>2. \A n, w \in Nat : w > 0 => n % w \in Nat /\ n % w < w
  OBVIOUS
<1>3. \A n, w \in Nat : w > 0 =>
        /\ n \div w \in Nat /\ n % w \in Nat /\ n % w < w /\ n = (n \div w) * w + (n % w)
  OBVIOUS
<1>4. \A w, q, r \in Nat : r < w => (q * w + r) % w = r
  OBVIOUS
<1>5. ASSUME NEW n \in Nat
      PROVE  Off(n + 1) = IF Off(n) + 1 = WordSize THEN 0 ELSE Off(n) + 1
  <2>1. PICK q \in Nat, r \in Nat : r < WordSize /\ n = q * WordSize + r /\ r = Off(n)
    BY <1>1, <1>3 DEF Off
  <2>2. CASE r + 1 = WordSize
    <3>1. n + 1 = (q + 1) * WordSize + 0 /\ q + 1 \in Nat
      <4>1. \A k, w \in Nat : (k + 1) * w + 0 = k * w + w
        OBVIOUS
      <4>2. n + 1 = q * WordSize + WordSize
        <5>1. n = q * WordSize + r /\ q * WordSize \in Nat
          BY <1>1, <2>1
        <5> QED
          BY <1>1, <2>2, <5>1
      <4> QED
        BY <1>1, <4>1, <4>2
    <3>2. Off(n + 1) = 0
      BY <1>1, <1>4, <3>1 DEF Off
    <3> QED
      BY <2>1, <2>2, <3>2
  <2>3. CASE r + 1 # WordSize
    <3>1. n + 1 = q * WordSize + (r + 1) /\ r + 1 \in Nat /\ r + 1 < WordSize
      BY <1>1, <2>1, <2>3
    <3>2. Off(n + 1) = r + 1
      BY <1>1, <1>4, <2>1, <3>1 DEF Off
    <3> QED
      BY <2>1, <2>3, <3>2
  <2> QED
    BY <2>2, <2>3
<1>6. ASSUME NEW a \in Nat, Off(a) = 0 PROVE \E q \in Nat : a = q * WordSize
  BY <1>1, <1>3, <1>6 DEF Off
<1>7. ASSUME NEW a \in Nat, NEW n \in Nat, Off(a) = 0 PROVE Off(a + (n * WordSize)) = 0
  <2>1. PICK q \in Nat : a = q * WordSize
    BY <1>6, <1>7
  <2>2. a + (n * WordSize) = (q + n) * WordSize + 0 /\ q + n \in Nat
    BY <1>1, <2>1
  <2> QED
    BY <1>1, <1>4, <2>2 DEF Off
<1>8. ASSUME NEW n \in Nat, Off(n) = 0 PROVE n = WordsOf[n] * WordSize
  BY <1>1, <1>6, <1>8, WordsFacts
<1>9. ASSUME NEW a \in Nat, NEW s \in Nat, Off(a) = 0
      PROVE  WordsOf[a + s] = WordsOf[a] + WordsOf[s]
  <2>1. PICK q \in Nat : a = q * WordSize
    BY <1>6, <1>9
  <2>2. \A k, t, w \in Nat : w > 0 => (k * w + t + w - 1) \div w = k + ((t + w - 1) \div w)
    OBVIOUS
  <2>3. WordsOf[a] = q
    BY <2>1, WordsFacts
  <2>4. WordsOf[a + s] = Words(a + s) /\ WordsOf[s] = Words(s)
    BY WordsFacts
  <2> QED
    BY <1>1, <2>1, <2>2, <2>3, <2>4 DEF Words
<1>10. \A n \in Nat : WordsOf[n + 1] = IF Off(n) = 0 THEN WordsOf[n] + 1 ELSE WordsOf[n]
  BY ByteMore, WordsFacts DEF Off
<1>11. Off(0) = 0
  BY <1>1, <1>4 DEF Off
<1>12. \A n \in Nat : Off(n) \in Nat /\ Off(n) < WordSize
  BY <1>1, <1>2 DEF Off
<1> QED
  BY <1>5, <1>7, <1>8, <1>9, <1>10, <1>11, <1>12

LEMMA OffWhole ==
    ASSUME NEW a \in Nat, NEW n \in Nat, Off(a) = 0
    PROVE  Off(a + (n * WordSize)) = 0
BY OffFacts, Zenon

LEMMA WordsAdd ==
    ASSUME NEW a \in Nat, NEW s \in Nat, Off(a) = 0
    PROVE  WordsOf[a + s] = WordsOf[a] + WordsOf[s] /\ WordsOf[a] \in Nat
<1>1. WordsOf[a] \in Nat
  BY WordsFacts
<1> QED
  BY <1>1, OffFacts, Zenon

LEMMA OffStep ==
    ASSUME NEW m \in Nat, NEW n \in Nat, Off(m) = Off(n)
    PROVE  Off(m + 1) = Off(n + 1)
BY OffFacts, ZenonT(30)

LEMMA FirstWordFacts ==
    ASSUME RdTyped, NEW b \in Blocks
    PROVE  /\ FirstWord(b) \in Nat /\ input[b].base = FirstWord(b) * WordSize
           /\ input[b].base \in Nat /\ input[b].size \in Nat
<1>1. \A n, w \in Nat : w > 0 /\ n % w = 0 => n \div w \in Nat /\ n = (n \div w) * w
  OBVIOUS
<1>2. input \in Inputs /\ input[b].base \in Nat /\ input[b].size \in Nat /\ input[b].base % WordSize = 0
  BY RdConstants, ReaderAssumption DEF RdTyped, ReaderAssumption
<1> QED
  BY <1>1, <1>2, RdConstants DEF FirstWord

LEMMA SentTyped ==
    ASSUME OrderInv, NEW b \in Blocks
    PROVE  /\ Sent(b) \in Nat /\ taken[b] \in Nat /\ byteQ[b] \in Seq(Int) /\ Len(byteQ[b]) \in Nat
           /\ Sent(b) + 1 \in Nat /\ WordsOf[Sent(b)] \in Nat /\ WordsOf[Sent(b) + 1] \in Nat
<1>1. taken[b] \in Nat /\ byteQ[b] \in Seq(Int) /\ Len(byteQ[b]) \in Nat
  BY DEF OrderInv
<1>2. Sent(b) \in Nat /\ Sent(b) + 1 \in Nat
  BY <1>1 DEF Sent
<1> QED
  BY <1>1, <1>2, WordsFacts

(* What one process does for its block leaves the others in order.         *)
LEMMA SizesStay ==
    ASSUME NEW b \in Blocks, SizesInOrder(b), UNCHANGED input,
           rd'.size[b] = rd.size[b], rd'.idx[b] = rd.idx[b],
           sizeQ'[b] = sizeQ[b], ds'[b] = ds[b], Sent(b)' = Sent(b)
    PROVE  SizesInOrder(b)'
BY DEF SizesInOrder, FirstWord

LEMMA WordsStay ==
    ASSUME NEW b \in Blocks, WordsInOrder(b), UNCHANGED input,
           rd'.idx[b] + WordsUnannounced(b)' = rd.idx[b] + WordsUnannounced(b),
           wordQ'[b] = wordQ[b], ds'[b] = ds[b], Sent(b)' = Sent(b)
    PROVE  WordsInOrder(b)'
BY DEF WordsInOrder, FirstWord, NextWord, Holding

LEMMA BytesStay ==
    ASSUME NEW b \in Blocks, BytesInOrder(b), UNCHANGED input,
           ds'[b] = ds[b], byteQ'[b] = byteQ[b], taken'[b] = taken[b]
    PROVE  BytesInOrder(b)' /\ Sent(b)' = Sent(b)
BY DEF BytesInOrder, Sent

(* A size at the end of the queue adjoins to what is there, and the first  *)
(* one may be taken off.                                                   *)
LEMMA NoneAdjoins == \A n \in Nat : Adjoins(<< >>, n, n)
<1> SUFFICES ASSUME NEW n \in Nat PROVE Adjoins(<< >>, n, n)
  OBVIOUS
<1> DEFINE from == [k \in 1..1 |-> n]
<1>1. from \in [1..1 -> Nat] /\ from[1] = n
  OBVIOUS
<1>2. Len(<< >>) + 1 = 1 /\ \A k \in 1..Len(<< >>) : FALSE
  OBVIOUS
<1> HIDE DEF from
<1>3. \A k \in 1..Len(<< >>) + 1 : from[k] <= n
  <2>1. \A k \in 1..1 : from[k] <= n
    BY <1>1
  <2> QED
    BY <1>2, <2>1, Zenon
<1> QED
  BY <1>1, <1>2, <1>3, Zenon DEF Adjoins

LEMMA AdjoinMore ==
    ASSUME NEW q \in Seq(Nat), NEW first, NEW last \in Nat, Adjoins(q, first, last),
           NEW s \in Nat, s > 0 => Off(last) = 0
    PROVE  Adjoins(Append(q, s), first, last + s)
<1> DEFINE n == Len(q)
           more == Append(q, s)
<1>1. /\ n \in Nat /\ Len(more) = n + 1 /\ more[n + 1] = s
      /\ \A k \in 1..n : more[k] = q[k]
  BY AppendFacts
<1>2. PICK from \in [1..n + 1 -> Nat] :
         /\ from[1] = first /\ from[n + 1] = last
         /\ \A k \in 1..n + 1 : from[k] <= last
         /\ \A k \in 1..n : /\ from[k + 1] = from[k] + q[k]
                            /\ q[k] > 0 => Off(from[k]) = 0
  BY DEF Adjoins
<1> DEFINE to == [k \in 1..n + 2 |-> IF k = n + 2 THEN last + s ELSE from[k]]
<1> HIDE DEF n, more
<1>3. /\ to \in [1..n + 2 -> Nat] /\ to[n + 2] = last + s
      /\ \A k \in 1..n + 1 : to[k] = from[k]
  BY <1>1, <1>2
<1> HIDE DEF to
<1>4. to[1] = first
  BY <1>1, <1>2, <1>3
<1>5. ASSUME NEW k \in 1..n + 1
      PROVE  to[k + 1] = to[k] + more[k] /\ (more[k] > 0 => Off(to[k]) = 0)
  <2>1. CASE k = n + 1
    <3>1. k + 1 = n + 2 /\ to[k] = last /\ more[k] = s
      BY <1>1, <1>2, <1>3, <2>1
    <3> QED
      BY <1>3, <3>1
  <2>2. CASE k # n + 1
    <3>1. k \in 1..n /\ k + 1 \in 1..n + 1
      BY <1>1, <2>2
    <3> QED
      BY <1>1, <1>2, <1>3, <3>1
  <2> QED
    BY <2>1, <2>2
<1>6. Len(more) + 1 = n + 2
  BY <1>1
<1>7. \A k \in 1..n + 2 : to[k] <= last + s
  <2>1. \A k \in 1..n + 1 : to[k] \in Nat /\ to[k] <= last
    BY <1>2, <1>3
  <2>2. \A k \in 1..n + 1 : to[k] <= last + s
    BY <2>1
  <2> QED
    BY <1>1, <1>3, <2>2
<1> QED
  BY <1>1, <1>3, <1>4, <1>5, <1>6, <1>7 DEF Adjoins, more

LEMMA AdjoinLess ==
    ASSUME NEW q \in Seq(Nat), NEW first, NEW last, Adjoins(q, first, last), q # << >>
    PROVE  /\ Adjoins(Tail(q), first + Head(q), last)
           /\ Head(q) > 0 => Off(first) = 0
<1> DEFINE n == Len(q)
           less == Tail(q)
<1>1. /\ n \in Nat /\ n > 0 /\ Len(less) = n - 1 /\ Head(q) = q[1] /\ Head(q) \in Nat
      /\ \A k \in 1..n - 1 : less[k] = q[k + 1]
  BY TailFacts
<1>2. PICK from \in [1..n + 1 -> Nat] :
         /\ from[1] = first /\ from[n + 1] = last
         /\ \A k \in 1..n + 1 : from[k] <= last
         /\ \A k \in 1..n : /\ from[k + 1] = from[k] + q[k]
                            /\ q[k] > 0 => Off(from[k]) = 0
  BY DEF Adjoins
<1> DEFINE to == [k \in 1..n |-> from[k + 1]]
<1> HIDE DEF n, less
<1>3. to \in [1..n -> Nat] /\ \A k \in 1..n : to[k] = from[k + 1]
  BY <1>1, <1>2
<1> HIDE DEF to
<1>4. to[1] = first + Head(q) /\ to[n] = last
  BY <1>1, <1>2, <1>3
<1>5. \A k \in 1..n - 1 : k \in 1..n /\ k + 1 \in 1..n
  BY <1>1
<1>6. \A k \in 1..n - 1 : to[k + 1] = to[k] + less[k] /\ (less[k] > 0 => Off(to[k]) = 0)
  <2> SUFFICES ASSUME NEW k \in 1..n - 1
               PROVE  to[k + 1] = to[k] + less[k] /\ (less[k] > 0 => Off(to[k]) = 0)
    OBVIOUS
  <2>1. k \in 1..n /\ k + 1 \in 1..n
    BY <1>5
  <2>2. to[k] = from[k + 1] /\ to[k + 1] = from[(k + 1) + 1] /\ less[k] = q[k + 1]
    BY <1>1, <1>3, <2>1
  <2>3. /\ from[(k + 1) + 1] = from[k + 1] + q[k + 1]
        /\ q[k + 1] > 0 => Off(from[k + 1]) = 0
    BY <1>2, <2>1 DEF n
  <2> QED
    BY <2>2, <2>3
<1>7. Len(less) + 1 = n
  BY <1>1
<1>8. Adjoins(less, first + Head(q), last)
  <2>1. \A k \in 1..n : to[k] <= last
    BY <1>1, <1>2, <1>3
  <2> QED
    BY <1>1, <1>3, <1>4, <1>6, <1>7, <2>1 DEF Adjoins
<1>9. Head(q) > 0 => Off(first) = 0
  BY <1>1, <1>2
<1> QED
  BY <1>8, <1>9 DEF less

LEMMA AdjoinEnds ==
    ASSUME NEW q \in Seq(Nat), NEW first, NEW last, Adjoins(q, first, last)
    PROVE  first <= last
BY DEF Adjoins

LEMMA OrderInit == RdInit => OrderInv
<1> SUFFICES ASSUME RdInit PROVE OrderInv
  OBVIOUS
<1>1. RdInv /\ RdTyped
  BY RdInvInit DEF RdInv
<1>2. byteQ \in [Blocks -> Seq(Int)] /\ taken \in [Blocks -> Nat]
  BY DEF RdInit
<1>3. ASSUME NEW b \in Blocks PROVE SizesInOrder(b) /\ WordsInOrder(b) /\ BytesInOrder(b)
  <2>1. /\ rd.size[b] = 0 /\ rd.idx[b] = FirstWord(b) /\ WordsUnannounced(b) = 0
        /\ sizeQ[b] = << >> /\ wordQ[b] = << >> /\ byteQ[b] = << >> /\ taken[b] = 0
        /\ ds[b].pc = "size" /\ ds[b].left = 0
    BY DEF RdInit, FirstWord, WordsUnannounced
  <2>2. Len(<< >>) = 0
    OBVIOUS
  <2>3. Sent(b) = 0 /\ NextWord(b) = FirstWord(b) /\ FirstWord(b) \in Nat
    BY <1>1, <2>1, <2>2, WordsFacts, FirstWordFacts DEF Sent, NextWord
  <2>4. Adjoins(<< >>, 0, 0) /\ 0 + 0 = 0
    BY NoneAdjoins
  <2>5. SizesInOrder(b)
    BY <2>1, <2>3, <2>4, WordsFacts, OffFacts DEF SizesInOrder
  <2>6. WordsInOrder(b)
    BY <2>1, <2>2, <2>3 DEF WordsInOrder, Holding
  <2>7. BytesInOrder(b)
    BY <2>1, <2>2 DEF BytesInOrder
  <2> QED
    BY <2>5, <2>6, <2>7
<1> QED
  BY <1>2, <1>3 DEF OrderInv

LEMMA PollKeepsOrder ==
    ASSUME RdInv, OrderInv, Poll
    PROVE  OrderInv'
<1> PICK b \in Blocks : b = rd.vid
  BY DEF RdInv, RdTyped, RdState
<1> DEFINE r == [rd EXCEPT !.pending[b] = PendingBytes(b) > 0]
<1>1. /\ RdTyped /\ rd.pc = "poll" /\ UNCHANGED <<input, wordQ, sizeQ, ds, byteQ, taken>>
      /\ rd' = IF PendingBytes(b) > 0 /\ Len(sizeQ[b]) < SizeDepth
               THEN [r EXCEPT !.pc = "burst", !.midx = 0, !.burst = BurstOf(b)]
               ELSE RdNextTurn(r)
  BY DEF Poll, RdInv
<1>2. r \in RdState /\ r.vid = b /\ r.size = rd.size /\ r.idx = rd.idx
  <2>1. [rd.pending EXCEPT ![b] = PendingBytes(b) > 0] \in [Blocks -> BOOLEAN]
    BY <1>1 DEF RdTyped, RdState
  <2> QED
    BY <1>1, <2>1 DEF RdTyped, RdState
<1> HIDE DEF r
<1>3. /\ rd'.size = rd.size /\ rd'.idx = rd.idx
      /\ rd'.pc \in {"poll", "end"} \/ (rd'.pc = "burst" /\ rd'.midx = 0)
  <2>1. CASE PendingBytes(b) > 0 /\ Len(sizeQ[b]) < SizeDepth
    BY <1>1, <1>2, <2>1 DEF RdState
  <2>2. CASE ~(PendingBytes(b) > 0 /\ Len(sizeQ[b]) < SizeDepth)
    BY <1>1, <1>2, <2>2, RdTurnTyped
  <2> QED
    BY <2>1, <2>2
<1>4. \A c \in Blocks : WordsUnannounced(c)' = WordsUnannounced(c)
  BY <1>1, <1>3 DEF WordsUnannounced
<1>5. \A c \in Blocks : BytesInOrder(c)' /\ Sent(c)' = Sent(c)
  BY <1>1, BytesStay DEF OrderInv
<1>6. \A c \in Blocks : SizesInOrder(c)'
  BY <1>1, <1>3, <1>5, SizesStay DEF OrderInv
<1>7. \A c \in Blocks : WordsInOrder(c)'
  BY <1>1, <1>3, <1>4, <1>5, WordsStay DEF OrderInv
<1> QED
  BY <1>1, <1>5, <1>6, <1>7 DEF OrderInv

LEMMA BurstWordKeepsOrder ==
    ASSUME RdInv, OrderInv, BurstWord
    PROVE  OrderInv'
<1> PICK b \in Blocks : b = rd.vid
  BY DEF RdInv, RdTyped, RdState
<1>1. /\ RdTyped /\ rd.pc = "burst" /\ UNCHANGED <<input, sizeQ, ds, byteQ, taken>>
      /\ wordQ' = [wordQ EXCEPT ![b] = Append(wordQ[b], rd.idx[b] + rd.midx)]
      /\ rd' = [rd EXCEPT !.midx = rd.midx + 1,
                          !.pc = IF rd.midx + 1 < rd.burst THEN "burst" ELSE "announce"]
  BY DEF BurstWord, RdInv
<1> DEFINE word == rd.idx[b] + rd.midx
<1>2. /\ rd.midx \in Nat /\ rd.idx[b] \in Nat /\ word \in Int /\ wordQ[b] \in Seq(Int)
      /\ rd.pc = "burst" /\ WordsUnannounced(b) = rd.midx
  BY <1>1 DEF RdTyped, RdState, WordsUnannounced
<1>3. /\ rd'.vid = b /\ rd'.midx = rd.midx + 1 /\ rd'.size = rd.size /\ rd'.idx = rd.idx
      /\ rd'.pc \in {"burst", "announce"}
  BY <1>1 DEF RdTyped, RdState
<1>4. /\ \A c \in Blocks : c # b => WordsUnannounced(c)' = WordsUnannounced(c)
      /\ WordsUnannounced(b)' = rd.midx + 1
  BY <1>1, <1>3 DEF WordsUnannounced
<1>5. /\ wordQ'[b] = Append(wordQ[b], word)
      /\ \A c \in Blocks : c # b => wordQ'[c] = wordQ[c]
  BY <1>1 DEF RdTyped
<1>6. \A c \in Blocks : BytesInOrder(c)' /\ Sent(c)' = Sent(c)
  BY <1>1, BytesStay DEF OrderInv
<1>7. \A c \in Blocks : SizesInOrder(c)'
  BY <1>1, <1>3, <1>6, SizesStay DEF OrderInv
<1>8. \A c \in Blocks : c # b => WordsInOrder(c)'
  BY <1>1, <1>3, <1>4, <1>5, <1>6, WordsStay DEF OrderInv
<1>9. WordsInOrder(b)'
  <2>1. NextWord(b)' = NextWord(b) /\ (Holding(b)' <=> Holding(b))
    BY <1>1, <1>6 DEF NextWord, FirstWord, Holding
  <2>2. NextWord(b) \in Nat
    BY <1>1, FirstWordFacts, SentTyped DEF NextWord
  <2>3. /\ word = NextWord(b) + Len(wordQ[b])
        /\ \A k \in 1..Len(wordQ[b]) : wordQ[b][k] = NextWord(b) + k - 1
    BY <1>2 DEF OrderInv, WordsInOrder
  <2> HIDE DEF word
  <2>4. /\ Len(wordQ[b]) \in Nat /\ Len(wordQ'[b]) = Len(wordQ[b]) + 1
        /\ wordQ'[b][Len(wordQ[b]) + 1] = word
        /\ \A k \in 1..Len(wordQ[b]) : wordQ'[b][k] = wordQ[b][k]
    BY <1>2, <1>5, AppendFacts
  <2>5. ASSUME NEW k \in 1..Len(wordQ'[b]) PROVE wordQ'[b][k] = NextWord(b)' + k - 1
    <3>1. CASE k \in 1..Len(wordQ[b])
      BY <2>1, <2>3, <2>4, <3>1
    <3>2. CASE k \notin 1..Len(wordQ[b])
      <4>1. k = Len(wordQ[b]) + 1
        BY <2>4, <3>2
      <4>2. NextWord(b) + (Len(wordQ[b]) + 1) - 1 = NextWord(b) + Len(wordQ[b])
        BY <2>2, <2>4
      <4> QED
        BY <2>1, <2>3, <2>4, <4>1, <4>2
    <3> QED
      BY <3>1, <3>2
  <2>6. rd'.idx[b] + (rd.midx + 1) = NextWord(b)' + Len(wordQ'[b])
    <3>1. rd.idx[b] + (rd.midx + 1) = NextWord(b) + (Len(wordQ[b]) + 1)
      <4>1. rd.idx[b] + rd.midx = NextWord(b) + Len(wordQ[b])
        BY <2>3 DEF word
      <4>2. /\ rd.idx[b] \in Nat /\ rd.midx \in Nat
            /\ NextWord(b) \in Nat /\ Len(wordQ[b]) \in Nat
        BY <1>2, <2>2, <2>4
      <4> DEFINE i == rd.idx[b]
                 m == rd.midx
                 w == NextWord(b)
                 l == Len(wordQ[b])
      <4>3. i \in Nat /\ m \in Nat /\ w \in Nat /\ l \in Nat /\ i + m = w + l
        BY <4>1, <4>2
      <4> HIDE DEF i, m, w, l
      <4>4. i + (m + 1) = w + (l + 1)
        BY <4>3
      <4> QED
        BY <4>4 DEF i, m, w, l
    <3> QED
      BY <1>3, <2>1, <2>4, <3>1
  <2>7. Holding(b)' => (ds'[b].buf * WordSize) + Off(Sent(b)') = input'[b].base + Sent(b)'
    BY <1>1, <1>6, <2>1 DEF OrderInv, WordsInOrder
  <2> QED
    BY <1>4, <2>5, <2>6, <2>7 DEF WordsInOrder
<1> QED
  BY <1>1, <1>6, <1>7, <1>8, <1>9 DEF OrderInv

LEMMA AnnounceKeepsOrder ==
    ASSUME RdInv, OrderInv, Announce
    PROVE  OrderInv'
<1> PICK b \in Blocks : b = rd.vid
  BY DEF RdInv, RdTyped, RdState
<1> DEFINE s == Least(rd.burst * WordSize, input[b].size - rd.size[b])
           r == [rd EXCEPT !.idx[b] = rd.idx[b] + rd.burst, !.size[b] = rd.size[b] + s]
<1>1. /\ RdTyped /\ Reading /\ rd.pc = "announce"
      /\ UNCHANGED <<input, wordQ, ds, byteQ, taken>>
      /\ sizeQ' = [sizeQ EXCEPT ![b] = Append(sizeQ[b], s)]
      /\ rd' = RdNextTurn(r)
  BY DEF Announce, Announced, RdInv
<1>2. /\ rd.midx = rd.burst /\ PendingBytes(b) > 0 /\ rd.burst = BurstOf(b)
      /\ rd.size[b] \in Nat /\ input[b].size \in Nat /\ rd.size[b] <= input[b].size
      /\ rd.idx[b] \in Nat /\ rd.burst \in Nat /\ sizeQ[b] \in Seq(Nat)
  BY <1>1, RdConstants DEF RdTyped, RdState, Reading
<1>3. PendingBytes(b) = input[b].size - rd.size[b] /\ PendingBytes(b) \in Nat
  BY <1>2 DEF PendingBytes
<1>4. s \in Nat /\ WordsOf[s] = rd.burst /\ rd.size[b] + s \in Nat
  <2>1. s \in Nat /\ WordsOf[s] = rd.burst
    BY <1>2, <1>3, BurstWords DEF BurstOf
  <2> QED
    BY <1>2, <2>1
<1>5. Off(rd.size[b]) = 0
  BY <1>1, <1>2, <1>3 DEF OrderInv, SizesInOrder
<1>6. Off(rd.size[b] + s) = 0 \/ rd.size[b] + s = input[b].size
  <2>1. s = rd.burst * WordSize \/ s = input[b].size - rd.size[b]
    BY DEF Least
  <2>2. CASE s = rd.burst * WordSize
    BY <1>2, <1>5, <2>2, OffWhole
  <2>3. CASE s = input[b].size - rd.size[b]
    BY <1>2, <2>3
  <2> QED
    BY <2>1, <2>2, <2>3
<1> HIDE DEF s
<1>7. /\ r \in RdState /\ r.size[b] = rd.size[b] + s /\ r.idx[b] = rd.idx[b] + rd.burst
      /\ \A c \in Blocks : c # b => r.size[c] = rd.size[c] /\ r.idx[c] = rd.idx[c]
  <2>1. rd.idx[b] + rd.burst \in Nat
    BY <1>2
  <2> QED
    BY <1>1, <1>4, <2>1 DEF RdTyped, RdState
<1> HIDE DEF r
<1>8. rd'.pc \in {"poll", "end"} /\ rd'.size = r.size /\ rd'.idx = r.idx
  BY <1>1, <1>7, RdTurnTyped
<1>9. /\ \A c \in Blocks : WordsUnannounced(c)' = 0
      /\ \A c \in Blocks : c # b => WordsUnannounced(c) = 0
      /\ WordsUnannounced(b) = rd.burst
  BY <1>1, <1>2, <1>8 DEF WordsUnannounced
<1>10. /\ sizeQ'[b] = Append(sizeQ[b], s)
       /\ \A c \in Blocks : c # b => sizeQ'[c] = sizeQ[c]
  BY <1>1 DEF RdTyped
<1>11. \A c \in Blocks : BytesInOrder(c)' /\ Sent(c)' = Sent(c)
  BY <1>1, BytesStay DEF OrderInv
<1>12. \A c \in Blocks : c # b => SizesInOrder(c)' /\ WordsInOrder(c)'
  <2> SUFFICES ASSUME NEW c \in Blocks, c # b PROVE SizesInOrder(c)' /\ WordsInOrder(c)'
    OBVIOUS
  <2>1. rd'.size[c] = rd.size[c] /\ rd'.idx[c] = rd.idx[c]
    BY <1>7, <1>8
  <2>2. SizesInOrder(c)'
    BY <1>1, <1>10, <1>11, <2>1, SizesStay DEF OrderInv
  <2>3. WordsUnannounced(c)' = WordsUnannounced(c)
    BY <1>9
  <2>4. WordsInOrder(c)'
    BY <1>1, <1>11, <2>1, <2>3, WordsStay DEF OrderInv
  <2> QED
    BY <2>2, <2>4
<1>13. WordsInOrder(b)'
  <2>1. rd'.idx[b] + WordsUnannounced(b)' = rd.idx[b] + WordsUnannounced(b)
    BY <1>2, <1>7, <1>8, <1>9
  <2> QED
    BY <1>1, <1>11, <2>1, WordsStay DEF OrderInv
<1>14. SizesInOrder(b)'
  <2>1. /\ Adjoins(sizeQ[b], Sent(b) + ds[b].left, rd.size[b])
        /\ rd.idx[b] = FirstWord(b) + WordsOf[rd.size[b]] /\ FirstWord(b) \in Nat
    BY <1>1, FirstWordFacts DEF OrderInv, SizesInOrder
  <2>2. Adjoins(sizeQ'[b], Sent(b)' + ds'[b].left, rd'.size[b])
    <3>1. Adjoins(Append(sizeQ[b], s), Sent(b) + ds[b].left, rd.size[b] + s)
      BY <1>2, <1>4, <1>5, <2>1, AdjoinMore
    <3> QED
      BY <1>1, <1>7, <1>8, <1>10, <1>11, <3>1
  <2>3. rd'.idx[b] = FirstWord(b)' + WordsOf[rd'.size[b]]
    <3>1. WordsOf[rd.size[b] + s] = WordsOf[rd.size[b]] + rd.burst /\ WordsOf[rd.size[b]] \in Nat
      <4>1. rd.size[b] \in Nat /\ s \in Nat /\ Off(rd.size[b]) = 0
        BY <1>2, <1>4, <1>5
      <4>2. /\ WordsOf[rd.size[b] + s] = WordsOf[rd.size[b]] + WordsOf[s]
            /\ WordsOf[rd.size[b]] \in Nat
        BY <4>1, WordsAdd
      <4> QED
        BY <1>4, <4>2
    <3>2. rd.idx[b] + rd.burst = FirstWord(b) + WordsOf[rd.size[b] + s]
      BY <1>2, <2>1, <3>1
    <3> QED
      BY <1>1, <1>7, <1>8, <3>2 DEF FirstWord
  <2>4. Off(rd'.size[b]) = 0 \/ rd'.size[b] = input'[b].size
    BY <1>1, <1>6, <1>7, <1>8
  <2>5. /\ ds'[b].pc \in {"size", "done"} => ds'[b].left = 0
        /\ ds'[b].pc \in {"bytes", "out"} => Off(ds'[b].itr) = Off(Sent(b)')
        /\ ds'[b].pc = "out" => Off(Sent(b)') = 0
    BY <1>1, <1>11 DEF OrderInv, SizesInOrder
  <2> QED
    BY <2>2, <2>3, <2>4, <2>5 DEF SizesInOrder
<1> QED
  BY <1>1, <1>11, <1>12, <1>13, <1>14 DEF OrderInv

LEMMA EndKeepsOrder ==
    ASSUME RdInv, OrderInv, EndMark
    PROVE  OrderInv'
<1> PICK b \in Blocks : b = rd.vid
  BY DEF RdInv, RdTyped, RdState
<1>1. /\ RdTyped /\ rd.pc = "end" /\ UNCHANGED <<input, wordQ, ds, byteQ, taken>>
      /\ sizeQ' = [sizeQ EXCEPT ![b] = Append(sizeQ[b], 0)]
      /\ rd' = IF b < NumBlock - 1 THEN [rd EXCEPT !.vid = b + 1] ELSE [rd EXCEPT !.pc = "done"]
  BY DEF EndMark, RdInv
<1>2. rd'.pc \in {"end", "done"} /\ rd'.size = rd.size /\ rd'.idx = rd.idx
  BY <1>1 DEF RdTyped, RdState
<1>3. \A c \in Blocks : WordsUnannounced(c)' = WordsUnannounced(c)
  BY <1>1, <1>2 DEF WordsUnannounced
<1>4. /\ sizeQ'[b] = Append(sizeQ[b], 0) /\ sizeQ[b] \in Seq(Nat) /\ rd.size[b] \in Nat
      /\ \A c \in Blocks : c # b => sizeQ'[c] = sizeQ[c]
  BY <1>1 DEF RdTyped, RdState
<1>5. \A c \in Blocks : BytesInOrder(c)' /\ Sent(c)' = Sent(c)
  BY <1>1, BytesStay DEF OrderInv
<1>6. \A c \in Blocks : c # b => SizesInOrder(c)'
  BY <1>1, <1>2, <1>4, <1>5, SizesStay DEF OrderInv
<1>7. \A c \in Blocks : WordsInOrder(c)'
  BY <1>1, <1>2, <1>3, <1>5, WordsStay DEF OrderInv
<1>8. SizesInOrder(b)'
  <2>1. Adjoins(sizeQ[b], Sent(b) + ds[b].left, rd.size[b])
    BY DEF OrderInv, SizesInOrder
  <2>2. 0 \in Nat /\ ~(0 > 0) /\ rd.size[b] + 0 = rd.size[b]
    BY <1>4
  <2>3. Adjoins(Append(sizeQ[b], 0), Sent(b) + ds[b].left, rd.size[b] + 0)
    BY <1>4, <2>1, <2>2, AdjoinMore
  <2>4. Adjoins(sizeQ'[b], Sent(b)' + ds'[b].left, rd'.size[b])
    BY <1>1, <1>2, <1>4, <1>5, <2>2, <2>3
  <2> QED
    BY <1>1, <1>2, <1>5, <2>4 DEF OrderInv, SizesInOrder, FirstWord
<1> QED
  BY <1>1, <1>5, <1>6, <1>7, <1>8 DEF OrderInv

(* The downsizer of b touches nothing of the other blocks.                 *)
LEMMA OthersStay ==
    ASSUME RdInv, OrderInv, NEW b \in Blocks, DownSizer(b)
    PROVE  \A c \in Blocks : c # b => SizesInOrder(c)' /\ WordsInOrder(c)' /\ BytesInOrder(c)'
<1> SUFFICES ASSUME NEW c \in Blocks, c # b
             PROVE  SizesInOrder(c)' /\ WordsInOrder(c)' /\ BytesInOrder(c)'
  OBVIOUS
<1>1. /\ UNCHANGED <<input, rd, taken>> /\ ds'[c] = ds[c] /\ wordQ'[c] = wordQ[c]
      /\ sizeQ'[c] = sizeQ[c] /\ byteQ'[c] = byteQ[c]
  <2>1. RdTyped /\ byteQ \in [Blocks -> Seq(Int)]
    BY DEF RdInv, OrderInv
  <2>2. CASE DsSize(b)
    BY <2>1, <2>2 DEF DsSize, RdTyped
  <2>3. CASE DsWord(b)
    BY <2>1, <2>3 DEF DsWord, RdTyped
  <2>4. CASE DsByte(b)
    BY <2>1, <2>4 DEF DsByte, RdTyped
  <2> QED
    BY <2>2, <2>3, <2>4 DEF DownSizer
<1>2. BytesInOrder(c)' /\ Sent(c)' = Sent(c)
  BY <1>1, BytesStay DEF OrderInv
<1>3. SizesInOrder(c)'
  BY <1>1, <1>2, SizesStay DEF OrderInv
<1>4. WordsUnannounced(c)' = WordsUnannounced(c)
  BY <1>1 DEF WordsUnannounced
<1> QED
  BY <1>1, <1>2, <1>3, <1>4, WordsStay DEF OrderInv

LEMMA DsSizeKeepsOrder ==
    ASSUME RdInv, OrderInv, NEW b \in Blocks, DsSize(b)
    PROVE  OrderInv'
<1> DEFINE s == Head(sizeQ[b])
<1>1. /\ ds[b].pc = "size" /\ sizeQ[b] # << >> /\ UNCHANGED <<input, rd, wordQ, byteQ, taken>>
      /\ ds' = [ds EXCEPT ![b] = [ds[b] EXCEPT !.pc = IF s = 0 THEN "done" ELSE "bytes",
                                               !.left = s, !.itr = 0]]
      /\ sizeQ' = [sizeQ EXCEPT ![b] = Tail(sizeQ[b])]
      /\ RdTyped
  BY DEF DsSize, RdInv
<1>2. /\ s \in Nat /\ sizeQ[b] \in Seq(Nat) /\ sizeQ'[b] = Tail(sizeQ[b])
      /\ ds[b].left = 0 /\ Sent(b) \in Nat
  <2>1. sizeQ[b] \in Seq(Nat)
    BY <1>1 DEF RdTyped
  <2>2. sizeQ'[b] = Tail(sizeQ[b])
    BY <1>1 DEF RdTyped
  <2>3. ds[b].left = 0 /\ Sent(b) \in Nat
    BY <1>1, SentTyped DEF OrderInv, SizesInOrder
  <2> QED
    BY <1>1, <2>1, <2>2, <2>3, TailFacts
<1>3. /\ ds'[b].pc = IF s = 0 THEN "done" ELSE "bytes"
      /\ ds'[b].left = s /\ ds'[b].itr = 0
  BY <1>1 DEF RdTyped, DsState
<1>4. BytesInOrder(b)' /\ Sent(b)' = Sent(b)
  BY <1>1 DEF OrderInv, BytesInOrder, Sent
<1>5. Adjoins(Tail(sizeQ[b]), Sent(b) + s, rd.size[b]) /\ (s > 0 => Off(Sent(b)) = 0)
  <2>1. Adjoins(sizeQ[b], Sent(b), rd.size[b])
    <3>1. Sent(b) + ds[b].left = Sent(b)
      BY <1>2
    <3> QED
      BY <3>1 DEF OrderInv, SizesInOrder
  <2> QED
    BY <1>1, <1>2, <2>1, AdjoinLess
<1> HIDE DEF s
<1>6. SizesInOrder(b)'
  <2>1. Adjoins(sizeQ'[b], Sent(b)' + ds'[b].left, rd'.size[b])
    BY <1>1, <1>2, <1>3, <1>4, <1>5
  <2>2. /\ Off(rd'.size[b]) = 0 \/ rd'.size[b] = input'[b].size
        /\ rd'.idx[b] = FirstWord(b)' + WordsOf[rd'.size[b]]
    BY <1>1 DEF OrderInv, SizesInOrder, FirstWord
  <2>3. /\ ds'[b].pc \in {"size", "done"} => ds'[b].left = 0
        /\ ds'[b].pc \in {"bytes", "out"} => Off(ds'[b].itr) = Off(Sent(b)')
        /\ ds'[b].pc # "out"
    BY <1>2, <1>3, <1>4, <1>5, OffFacts
  <2> QED
    BY <2>1, <2>2, <2>3 DEF SizesInOrder
<1>7. WordsInOrder(b)'
  <2>1. NextWord(b)' = NextWord(b)
    BY <1>1, <1>3, <1>4 DEF NextWord, FirstWord
  <2>2. ~Holding(b)'
    BY <1>2, <1>3, <1>4, <1>5 DEF Holding
  <2> QED
    BY <1>1, <2>1, <2>2 DEF OrderInv, WordsInOrder, WordsUnannounced
<1> QED
  BY <1>1, <1>4, <1>6, <1>7, OthersStay DEF OrderInv, DownSizer

LEMMA DsWordKeepsOrder ==
    ASSUME RdInv, OrderInv, NEW b \in Blocks, DsWord(b)
    PROVE  OrderInv'
<1>1. /\ ds[b].pc = "bytes" /\ Off(ds[b].itr) = 0 /\ wordQ[b] # << >>
      /\ UNCHANGED <<input, rd, sizeQ, byteQ, taken>>
      /\ ds' = [ds EXCEPT ![b].buf = Head(wordQ[b]), ![b].pc = "out"]
      /\ wordQ' = [wordQ EXCEPT ![b] = Tail(wordQ[b])]
      /\ RdTyped
  BY DEF DsWord, NeedsWord, RdInv, Off
<1>2. /\ ds'[b].pc = "out" /\ ds'[b].buf = Head(wordQ[b]) /\ ds'[b].left = ds[b].left
      /\ ds'[b].itr = ds[b].itr
      /\ wordQ'[b] = Tail(wordQ[b]) /\ wordQ[b] \in Seq(Int)
  BY <1>1 DEF RdTyped, DsState
<1>3. BytesInOrder(b)' /\ Sent(b)' = Sent(b)
  BY <1>1 DEF OrderInv, BytesInOrder, Sent
<1>4. Off(Sent(b)) = 0
  BY <1>1 DEF OrderInv, SizesInOrder
<1>5. SizesInOrder(b)'
  <2>1. SizesInOrder(b)
    BY DEF OrderInv
  <2>2. Sent(b)' + ds'[b].left = Sent(b) + ds[b].left
    BY <1>2, <1>3
  <2> QED
    BY <1>1, <1>2, <1>3, <1>4, <2>1, <2>2 DEF SizesInOrder, FirstWord
<1>6. /\ NextWord(b) = FirstWord(b) + WordsOf[Sent(b)] /\ NextWord(b)' = NextWord(b) + 1
      /\ NextWord(b) \in Nat /\ Sent(b) = WordsOf[Sent(b)] * WordSize
      /\ FirstWord(b) \in Nat /\ WordsOf[Sent(b)] \in Nat /\ Sent(b) \in Nat
      /\ input[b].base = FirstWord(b) * WordSize /\ WordSize \in Nat
  <2>1. /\ FirstWord(b) \in Nat /\ input[b].base = FirstWord(b) * WordSize
        /\ WordsOf[Sent(b)] \in Nat /\ Sent(b) \in Nat /\ WordSize \in Nat
    BY <1>1, FirstWordFacts, SentTyped, RdConstants
  <2>2. WordsOf[Sent(b) + 1] = WordsOf[Sent(b)] + 1 /\ Sent(b) = WordsOf[Sent(b)] * WordSize
    BY <1>4, <2>1, OffFacts
  <2>3. /\ NextWord(b) = FirstWord(b) + WordsOf[Sent(b)]
        /\ NextWord(b)' = FirstWord(b) + WordsOf[Sent(b) + 1]
    BY <1>1, <1>2, <1>3 DEF NextWord, FirstWord
  <2> QED
    BY <2>1, <2>2, <2>3
<1>7. /\ Head(wordQ[b]) = NextWord(b) /\ Len(wordQ'[b]) = Len(wordQ[b]) - 1 /\ Len(wordQ[b]) \in Nat
      /\ \A k \in 1..Len(wordQ'[b]) : wordQ'[b][k] = NextWord(b)' + k - 1
  <2>1. /\ Len(wordQ[b]) \in Nat /\ Len(wordQ[b]) > 0 /\ Head(wordQ[b]) = wordQ[b][1]
        /\ Len(wordQ'[b]) = Len(wordQ[b]) - 1
        /\ \A k \in 1..Len(wordQ'[b]) : wordQ'[b][k] = wordQ[b][k + 1]
    <3>1. wordQ[b] \in Seq(Int) /\ wordQ[b] # << >> /\ wordQ'[b] = Tail(wordQ[b])
      BY <1>1, <1>2
    <3> QED
      BY <3>1, TailFacts
  <2>2. \A k \in 1..Len(wordQ[b]) : wordQ[b][k] = NextWord(b) + k - 1
    BY DEF OrderInv, WordsInOrder
  <2>3. Head(wordQ[b]) = NextWord(b)
    BY <1>6, <2>1, <2>2
  <2>4. ASSUME NEW k \in 1..Len(wordQ'[b]) PROVE wordQ'[b][k] = NextWord(b)' + k - 1
    <3>1. k + 1 \in 1..Len(wordQ[b]) /\ wordQ'[b][k] = wordQ[b][k + 1] /\ k \in Nat
      BY <2>1
    <3>2. wordQ'[b][k] = NextWord(b) + (k + 1) - 1
      BY <2>2, <3>1
    <3> QED
      BY <1>6, <3>1, <3>2
  <2> QED
    BY <2>1, <2>3, <2>4
<1>8. WordsInOrder(b)'
  <2>1. rd'.idx[b] + WordsUnannounced(b)' = NextWord(b)' + Len(wordQ'[b])
    <3>1. rd.idx[b] + WordsUnannounced(b) = NextWord(b) + Len(wordQ[b])
      BY DEF OrderInv, WordsInOrder
    <3>2. NextWord(b)' + Len(wordQ'[b]) = NextWord(b) + Len(wordQ[b])
      <4>1. \A w, l \in Nat : (w + 1) + (l - 1) = w + l
        OBVIOUS
      <4>2. /\ NextWord(b)' = NextWord(b) + 1 /\ NextWord(b) \in Nat
            /\ Len(wordQ'[b]) = Len(wordQ[b]) - 1 /\ Len(wordQ[b]) \in Nat
        BY <1>6, <1>7
      <4> QED
        BY <4>1, <4>2
    <3> QED
      BY <1>1, <3>1, <3>2 DEF WordsUnannounced
  <2>2. (ds'[b].buf * WordSize) + Off(Sent(b)') = input'[b].base + Sent(b)'
    <3>1. \A f, q, w \in Nat : (f + q) * w + 0 = f * w + q * w
      OBVIOUS
    <3>2. ds'[b].buf = FirstWord(b) + WordsOf[Sent(b)]
      BY <1>2, <1>6, <1>7
    <3>3. (ds'[b].buf * WordSize) + 0 = input[b].base + Sent(b)
      BY <1>6, <3>1, <3>2
    <3> QED
      BY <1>1, <1>3, <1>4, <3>3
  <2> QED
    BY <1>7, <2>1, <2>2 DEF WordsInOrder
<1> QED
  BY <1>1, <1>3, <1>5, <1>8, OthersStay DEF OrderInv, DownSizer

LEMMA DsByteKeepsOrder ==
    ASSUME RdInv, OrderInv, NEW b \in Blocks, DsByte(b)
    PROVE  OrderInv'
<1> DEFINE byte == (ds[b].buf * WordSize) + (ds[b].itr % WordSize)
<1>1. /\ ds[b].pc = "out" \/ (ds[b].pc = "bytes" /\ Off(ds[b].itr) # 0)
      /\ UNCHANGED <<input, rd, wordQ, sizeQ, taken>>
      /\ byteQ' = [byteQ EXCEPT ![b] = Append(byteQ[b], byte)]
      /\ ds' = [ds EXCEPT ![b].itr = ds[b].itr + 1, ![b].left = ds[b].left - 1,
                          ![b].pc = IF ds[b].left = 1 THEN "size" ELSE "bytes"]
      /\ RdTyped
  BY DEF DsByte, NeedsWord, LastByte, RdInv, Off
<1>2. /\ ds[b].itr \in Nat /\ ds[b].left \in Nat /\ ds[b].left > 0 /\ ds[b].buf \in Int
      /\ ds[b].left - 1 \in Nat
  <2>1. ds[b] \in DsState /\ ds[b].left > 0
    BY <1>1 DEF RdInv, RdTyped
  <2>2. ds[b].itr \in Nat /\ ds[b].left \in Nat /\ ds[b].buf \in Int
    BY <2>1 DEF DsState
  <2> QED
    BY <2>1, <2>2
<1>3. /\ ds'[b].pc = IF ds[b].left = 1 THEN "size" ELSE "bytes"
      /\ ds'[b].itr = ds[b].itr + 1 /\ ds'[b].left = ds[b].left - 1 /\ ds'[b].buf = ds[b].buf
  BY <1>1 DEF RdTyped, DsState
<1>4. /\ Off(ds[b].itr) = Off(Sent(b)) /\ Holding(b)
      /\ byte = input[b].base + Sent(b)
      /\ input[b].base \in Nat /\ Sent(b) \in Nat /\ Off(Sent(b)) \in Nat
  <2>1. Off(ds[b].itr) = Off(Sent(b))
    BY <1>1 DEF OrderInv, SizesInOrder
  <2>2. Holding(b)
    BY <1>1, <2>1 DEF Holding
  <2>3. (ds[b].buf * WordSize) + Off(Sent(b)) = input[b].base + Sent(b)
    BY <2>2 DEF OrderInv, WordsInOrder
  <2>4. input[b].base \in Nat /\ Sent(b) \in Nat /\ Off(Sent(b)) \in Nat
    BY <1>1, FirstWordFacts, SentTyped, OffFacts
  <2> QED
    BY <2>1, <2>2, <2>3, <2>4 DEF Off
<1> HIDE DEF byte
<1>5. /\ byteQ[b] \in Seq(Int) /\ byte \in Int /\ taken[b] \in Nat /\ Len(byteQ[b]) \in Nat
      /\ Sent(b) = taken[b] + Len(byteQ[b])
  BY <1>4, SentTyped DEF Sent
<1>6. /\ byteQ' \in [Blocks -> Seq(Int)] /\ byteQ'[b] = Append(byteQ[b], byte)
      /\ Len(byteQ'[b]) = Len(byteQ[b]) + 1 /\ byteQ'[b][Len(byteQ[b]) + 1] = byte
      /\ \A k \in 1..Len(byteQ[b]) : byteQ'[b][k] = byteQ[b][k]
  <2>1. Append(byteQ[b], byte) \in Seq(Int) /\ byteQ'[b] = Append(byteQ[b], byte)
    BY <1>1, <1>5, AppendFacts DEF OrderInv
  <2> QED
    BY <1>1, <1>5, <2>1, AppendFacts DEF OrderInv
<1>7. Sent(b)' = Sent(b) + 1 /\ Sent(b)' + ds'[b].left = Sent(b) + ds[b].left
  <2>1. Sent(b)' = taken[b] + (Len(byteQ[b]) + 1)
    BY <1>1, <1>6 DEF Sent
  <2>2. Sent(b)' = Sent(b) + 1
    BY <1>5, <2>1, SMTT(30)
  <2>3. (Sent(b) + 1) + (ds[b].left - 1) = Sent(b) + ds[b].left
    BY <1>2, <1>4, MovesOver
  <2> QED
    BY <1>3, <2>2, <2>3
<1>8. BytesInOrder(b)'
  <2> SUFFICES ASSUME NEW k \in 1..Len(byteQ'[b])
               PROVE  byteQ'[b][k] = input'[b].base + taken'[b] + k - 1
    BY DEF BytesInOrder
  <2>1. CASE k \in 1..Len(byteQ[b])
    BY <1>1, <1>6, <2>1 DEF OrderInv, BytesInOrder
  <2>2. CASE k \notin 1..Len(byteQ[b])
    <3>1. k = Len(byteQ[b]) + 1
      BY <1>5, <1>6, <2>2
    <3>2. \A i, t, l \in Nat : i + (t + l) = i + t + (l + 1) - 1
      OBVIOUS
    <3>3. byte = input[b].base + taken[b] + (Len(byteQ[b]) + 1) - 1
      BY <1>4, <1>5, <3>2
    <3> QED
      BY <1>1, <1>6, <3>1, <3>3
  <2> QED
    BY <2>1, <2>2
<1>9. SizesInOrder(b)'
  <2>1. Off(ds'[b].itr) = Off(Sent(b)')
    <3>1. Off(ds[b].itr + 1) = Off(Sent(b) + 1)
      BY <1>2, <1>4, OffStep
    <3> QED
      BY <1>3, <1>7, <3>1
  <2>2. ds'[b].pc # "out" /\ (ds'[b].pc \in {"size", "done"} => ds'[b].left = 0)
    BY <1>2, <1>3
  <2> QED
    BY <1>1, <1>7, <2>1, <2>2 DEF OrderInv, SizesInOrder, FirstWord
<1>10. NextWord(b)' = NextWord(b)
  <2>1. CASE ds[b].pc = "out"
    BY <1>1, <1>3, <1>7, <2>1 DEF NextWord, FirstWord
  <2>2. CASE ds[b].pc # "out"
    <3>1. Off(Sent(b)) # 0
      BY <1>1, <1>4, <2>2
    <3>2. WordsOf[Sent(b) + 1] = WordsOf[Sent(b)]
      BY <1>4, <3>1, OffFacts
    <3> QED
      BY <1>1, <1>3, <1>7, <2>2, <3>2 DEF NextWord, FirstWord
  <2> QED
    BY <2>1, <2>2
<1>11. ASSUME Holding(b)'
       PROVE  (ds'[b].buf * WordSize) + Off(Sent(b)') = input'[b].base + Sent(b)'
  <2>1. Off(Sent(b) + 1) # 0
    BY <1>3, <1>7, <1>11 DEF Holding
  <2>2. Off(Sent(b) + 1) = Off(Sent(b)) + 1
    BY <1>4, <2>1, OffFacts
  <2>3. (ds[b].buf * WordSize) + Off(Sent(b)) = input[b].base + Sent(b)
    BY <1>4 DEF OrderInv, WordsInOrder
  <2>4. ds[b].buf * WordSize \in Int
    BY <1>2, RdConstants
  <2>5. \A x \in Int, o, i, n \in Nat : x + o = i + n => x + (o + 1) = i + (n + 1)
    OBVIOUS
  <2>6. (ds[b].buf * WordSize) + (Off(Sent(b)) + 1) = input[b].base + (Sent(b) + 1)
    BY <1>4, <2>3, <2>4, <2>5
  <2> QED
    BY <1>1, <1>3, <1>7, <2>2, <2>6
<1>12. WordsInOrder(b)'
  BY <1>1, <1>10, <1>11 DEF OrderInv, WordsInOrder, WordsUnannounced
<1> QED
  BY <1>1, <1>6, <1>8, <1>9, <1>12, OthersStay DEF OrderInv, DownSizer

LEMMA EngineReadKeepsOrder ==
    ASSUME RdInv, OrderInv, NEW b \in Blocks, EngineRead(b)
    PROVE  OrderInv'
<1>1. /\ byteQ[b] # << >> /\ UNCHANGED <<input, rd, wordQ, sizeQ, ds>>
      /\ taken' = [taken EXCEPT ![b] = taken[b] + 1]
      /\ byteQ' = [byteQ EXCEPT ![b] = Tail(byteQ[b])]
  BY DEF EngineRead
<1>2. taken[b] \in Nat /\ byteQ[b] \in Seq(Int) /\ input[b].base \in Nat
  BY SentTyped, FirstWordFacts DEF RdInv
<1>3. /\ Tail(byteQ[b]) \in Seq(Int) /\ Len(byteQ[b]) \in Nat
      /\ Len(Tail(byteQ[b])) = Len(byteQ[b]) - 1
      /\ \A k \in 1..Len(Tail(byteQ[b])) : Tail(byteQ[b])[k] = byteQ[b][k + 1]
  BY <1>1, <1>2, TailFacts
<1>4. /\ byteQ' \in [Blocks -> Seq(Int)] /\ taken' \in [Blocks -> Nat]
      /\ byteQ'[b] = Tail(byteQ[b]) /\ taken'[b] = taken[b] + 1
      /\ \A c \in Blocks : c # b => byteQ'[c] = byteQ[c] /\ taken'[c] = taken[c]
  BY <1>1, <1>2, <1>3 DEF OrderInv
<1>5. \A c \in Blocks : Sent(c)' = Sent(c)
  <2>1. (taken[b] + 1) + (Len(byteQ[b]) - 1) = taken[b] + Len(byteQ[b])
    BY <1>2, <1>3, MovesOver
  <2>2. Sent(b)' = Sent(b)
    BY <1>3, <1>4, <2>1 DEF Sent
  <2>3. \A c \in Blocks : c # b => Sent(c)' = Sent(c)
    BY <1>4 DEF Sent
  <2> QED
    BY <2>2, <2>3
<1>6. \A c \in Blocks : WordsUnannounced(c)' = WordsUnannounced(c)
  BY <1>1 DEF WordsUnannounced
<1>7. \A c \in Blocks : SizesInOrder(c)'
  BY <1>1, <1>5, SizesStay DEF OrderInv
<1>8. \A c \in Blocks : WordsInOrder(c)'
  BY <1>1, <1>5, <1>6, WordsStay DEF OrderInv
<1>9. \A c \in Blocks : c # b => BytesInOrder(c)'
  BY <1>1, <1>4, BytesStay DEF OrderInv
<1>10. BytesInOrder(b)'
  <2> SUFFICES ASSUME NEW k \in 1..Len(Tail(byteQ[b]))
               PROVE  Tail(byteQ[b])[k] = input[b].base + (taken[b] + 1) + k - 1
    BY <1>1, <1>4 DEF BytesInOrder
  <2>1. k + 1 \in 1..Len(byteQ[b]) /\ k \in Nat
    BY <1>3
  <2>2. byteQ[b][k + 1] = input[b].base + taken[b] + (k + 1) - 1
    BY <2>1 DEF OrderInv, BytesInOrder
  <2>3. \A i, t, n \in Nat : i + (t + 1) + n - 1 = i + t + (n + 1) - 1
    OBVIOUS
  <2> QED
    BY <1>2, <1>3, <2>1, <2>2, <2>3
<1> QED
  BY <1>4, <1>7, <1>8, <1>9, <1>10 DEF OrderInv

LEMMA OrderStep == RdInv /\ OrderInv /\ [RdNext]_rdVars => OrderInv'
<1> SUFFICES ASSUME RdInv, OrderInv, [RdNext]_rdVars PROVE OrderInv'
  OBVIOUS
<1>1. CASE UNCHANGED rdVars
  BY <1>1 DEF rdVars, OrderInv, SizesInOrder, WordsInOrder, BytesInOrder, Sent, FirstWord,
              NextWord, Holding, WordsUnannounced
<1>2. CASE RdRest
  BY <1>1, <1>2 DEF RdRest
<1>3. CASE Reader
  BY <1>3, PollKeepsOrder, BurstWordKeepsOrder, AnnounceKeepsOrder, EndKeepsOrder DEF Reader
<1>4. ASSUME NEW b \in Blocks, DownSizer(b) PROVE OrderInv'
  BY <1>4, DsSizeKeepsOrder, DsWordKeepsOrder, DsByteKeepsOrder DEF DownSizer
<1> QED
  BY <1>1, <1>2, <1>3, <1>4, EngineReadKeepsOrder DEF RdNext

(* Every engine receives its own block, byte by byte, without gap or       *)
(* repetition and nothing past its end (mm2s.hpp), for any number of       *)
(* engines and any blocks that begin with a word: the sizes announced      *)
(* adjoin, so the word the downsizer takes next is the one its bytes have  *)
(* come to, however the bursts of the blocks alternate.                    *)
THEOREM BlocksInOrder == RdSpec => []InOrder
<1>1. RdInv /\ OrderInv => InOrder
  <2> SUFFICES ASSUME RdInv, OrderInv, NEW b \in Blocks, NEW k \in 1..Len(byteQ[b])
               PROVE  /\ byteQ[b][k] = input[b].base + taken[b] + k - 1
                      /\ byteQ[b][k] < input[b].base + input[b].size
    BY DEF InOrder
  <2>1. byteQ[b][k] = input[b].base + taken[b] + k - 1
    BY DEF OrderInv, BytesInOrder
  <2>2. /\ RdTyped /\ sizeQ[b] \in Seq(Nat) /\ ds[b].left \in Nat
        /\ rd.size[b] \in Nat /\ rd.size[b] <= input[b].size
    BY DEF RdInv, RdTyped, RdState, DsState, Reading
  <2>3. /\ input[b].base \in Nat /\ input[b].size \in Nat /\ taken[b] \in Nat
        /\ Len(byteQ[b]) \in Nat /\ Sent(b) = taken[b] + Len(byteQ[b])
    BY <2>2, FirstWordFacts, SentTyped DEF Sent
  <2>4. Sent(b) + ds[b].left <= rd.size[b]
    BY <2>2, AdjoinEnds DEF OrderInv, SizesInOrder
  <2>5. taken[b] + Len(byteQ[b]) <= input[b].size
    BY <2>2, <2>3, <2>4
  <2>6. \A i, t, l, s \in Nat : \A n \in 1..l : t + l <= s => i + t + n - 1 < i + s
    OBVIOUS
  <2> QED
    BY <2>1, <2>3, <2>5, <2>6
<1>2. RdInv /\ OrderInv /\ [RdNext]_rdVars => (RdInv /\ OrderInv)'
  BY RdInvStep, OrderStep
<1>3. RdInit => RdInv /\ OrderInv
  BY RdInvInit, OrderInit
<1> QED
  BY <1>1, <1>2, <1>3, PTL DEF RdSpec

-----------------------------------------------------------------------------
Word == [0..WordSize - 1 -> Int]

UpState ==
    [pc : {"first", "flag", "word", "tail", "next", "size", "tailsize", "end", "done"},
     buf : Word, byteIdx : Nat, sizeWrite : Nat, val : Int]
WrState ==
    [pc : {"poll", "burst", "total", "done"}, i : Blocks, pending : [Blocks -> BOOLEAN],
     size : [Blocks -> Nat], j : Nat, burst : Nat]

WrTyped ==
    /\ eng \in [Blocks -> [pc : {"byte", "flag", "pad", "last", "done"}, sent : Nat]]
    /\ up \in [Blocks -> UpState]
    /\ wr \in WrState
    /\ outQ \in [Blocks -> Seq(Int)]
    /\ packQ \in [Blocks -> Seq(Word)]
    /\ burstQ \in [Blocks -> Seq(Nat)]

(* Words of block b the writer still has to take of the burst it serves.   *)
InBurst(b) == IF wr.pc = "burst" /\ wr.i = b THEN wr.burst - wr.j ELSE 0

(* The words in the FIFO are those announced, those of the burst being     *)
(* written and those of the burst being packed.                            *)
WrBalance(b) ==
    \E words \in Nat :
        /\ Announces(burstQ[b], words)
        /\ Len(packQ[b]) = words + InBurst(b) + up[b].sizeWrite

WrInv ==
    /\ WrTyped
    /\ wr.pc = "burst" => wr.j < wr.burst
    /\ \A b \in Blocks : WrBalance(b)

-----------------------------------------------------------------------------
LEMMA WrConstants ==
    /\ NumBlock \in Nat /\ NumBlock > 0 /\ WordSize \in Nat /\ WordSize > 0
    /\ 0 \in Blocks /\ \A b \in Blocks : b \in Nat /\ (b < NumBlock - 1 => b + 1 \in Blocks)
BY WriterAssumption, WordAssumption DEF WriterAssumption, WordAssumption, Blocks

-----------------------------------------------------------------------------
(* The types. *)

LEMMA TypedInit == WrInit => WrTyped
<1> SUFFICES ASSUME WrInit PROVE WrTyped
  OBVIOUS
<1>1. UpStart \in UpState
  BY WrConstants DEF UpStart, UpState, Word, Zero
<1> QED
  BY <1>1, WrConstants DEF WrInit, WrTyped, WrState

LEMMA WrTurnTyped ==
    ASSUME NEW w \in WrState
    PROVE  WrNextTurn(w) \in WrState /\ WrNextTurn(w).pc # "burst"
BY WrConstants DEF WrNextTurn, WrState

LEMMA EngineTyped ==
    ASSUME WrTyped, NEW b \in Blocks, Engine(b)
    PROVE  WrTyped'
<1>1. /\ eng[b] \in [pc : {"byte", "flag", "pad", "last", "done"}, sent : Nat]
      /\ outQ[b] \in Seq(Int) /\ eng[b].sent \in Nat
  BY DEF WrTyped
<1>2. Append(outQ[b], eng[b].sent) \in Seq(Int) /\ Append(outQ[b], Zero) \in Seq(Int)
  <2>1. Zero \in Int /\ eng[b].sent \in Int
    BY <1>1 DEF Zero
  <2> QED
    BY <2>1, <1>1, AppendFacts
<1>3. CASE EngByte(b)
  BY <1>3, <1>2 DEF EngByte, WrTyped
<1>4. CASE EngTotal(b)
  BY <1>4 DEF EngTotal, WrTyped
<1>5. CASE EngPad(b)
  BY <1>5, <1>2 DEF EngPad, WrTyped
<1>6. CASE EngFlag(b)
  <2>1. eng' \in [Blocks -> [pc : {"byte", "flag", "pad", "last", "done"}, sent : Nat]]
    <3>1. eng[b].sent + 1 \in Nat
      BY <1>1
    <3> QED
      BY <1>1, <1>6, <3>1 DEF EngFlag, WrTyped
  <2> QED
    BY <1>6, <2>1 DEF EngFlag, WrTyped
<1> QED
  BY <1>3, <1>4, <1>5, <1>6 DEF Engine

LEMMA UpTyped ==
    ASSUME WrTyped, NEW b \in Blocks, UpSizer(b)
    PROVE  WrTyped'
<1>1. /\ up[b] \in UpState /\ outQ[b] \in Seq(Int) /\ packQ[b] \in Seq(Word) /\ burstQ[b] \in Seq(Nat)
      /\ up[b].buf \in Word /\ up[b].byteIdx \in Nat /\ up[b].sizeWrite \in Nat /\ up[b].val \in Int
  BY DEF WrTyped, UpState
<1>2. outQ[b] # << >> => Head(outQ[b]) \in Int /\ Tail(outQ[b]) \in Seq(Int)
  BY <1>1, TailFacts
<1>3. UNCHANGED <<eng, wr>>
  BY DEF UpSizer, UpFirst, UpFlag, UpWord, UpSize, UpNext, UpEnd, UpOnly
<1>4. CASE UpFirst(b)
  <2>1. up' \in [Blocks -> UpState]
    BY <1>2, <1>4, ZenonT(30) DEF UpFirst, WrTyped, UpState
  <2> QED
    BY <1>2, <1>3, <1>4, <2>1 DEF UpFirst, WrTyped
<1>5. CASE UpFlag(b)
  <2>1. PICK p \in {"tail", "end", "word", "next"} : up' = [up EXCEPT ![b] = [up[b] EXCEPT !.pc = p]]
    BY <1>5 DEF UpFlag, WrTyped
  <2>2. [up[b] EXCEPT !.pc = p] \in UpState
    BY <1>1 DEF UpState
  <2>3. up' \in [Blocks -> UpState]
    BY <2>1, <2>2 DEF WrTyped
  <2> QED
    BY <1>3, <1>5, <2>3 DEF UpFlag, WrTyped
<1>6. CASE UpWord(b)
  <2>1. Append(packQ[b], up[b].buf) \in Seq(Word)
    BY <1>1, AppendFacts
  <2>2. up[b].sizeWrite + 1 \in Nat
    BY <1>1
  <2> DEFINE new(p) == [up[b] EXCEPT !.byteIdx = 0, !.sizeWrite = up[b].sizeWrite + 1, !.pc = p]
  <2>4. PICK p \in {"tailsize", "size", "next"} : up' = [up EXCEPT ![b] = new(p)]
    BY <1>6 DEF UpWord, WrTyped
  <2>5. new(p) \in UpState
    BY <1>1, <2>2 DEF UpState
  <2> HIDE DEF new
  <2>3. up' \in [Blocks -> UpState]
    BY <2>4, <2>5 DEF WrTyped
  <2> QED
    BY <1>3, <1>6, <2>1, <2>3 DEF UpWord, WrTyped
<1>7. CASE UpSize(b)
  <2>1. BurstBytes(up[b]) \in Nat
    BY <1>1, WordsFacts DEF BurstBytes
  <2>2. Append(burstQ[b], BurstBytes(up[b])) \in Seq(Nat)
    BY <1>1, <2>1, AppendFacts
  <2> DEFINE new(p) == [up[b] EXCEPT !.sizeWrite = 0, !.pc = p]
  <2>4. PICK p \in {"end", "next"} : up' = [up EXCEPT ![b] = new(p)]
    BY <1>7 DEF UpSize, WrTyped
  <2>5. new(p) \in UpState
    BY <1>1 DEF UpState
  <2> HIDE DEF new
  <2>3. up' \in [Blocks -> UpState]
    BY <2>4, <2>5 DEF WrTyped
  <2> QED
    BY <1>3, <1>7, <2>2, <2>3 DEF UpSize, WrTyped
<1>8. CASE UpNext(b)
  <2> DEFINE v == up[b]
             new == [v EXCEPT !.pc = "flag", !.buf[v.byteIdx] = v.val,
                              !.byteIdx = v.byteIdx + 1, !.val = Head(outQ[b])]
  <2>1. outQ[b] # << >> /\ up' = [up EXCEPT ![b] = new] /\ outQ' = [outQ EXCEPT ![b] = Tail(outQ[b])]
    <3>1. /\ outQ[b] # << >> /\ outQ' = [outQ EXCEPT ![b] = Tail(outQ[b])]
          /\ up' = [up EXCEPT ![b].pc = "flag", ![b].buf[up[b].byteIdx] = up[b].val,
                              ![b].byteIdx = @ + 1, ![b].val = Head(outQ[b])]
      BY <1>8 DEF UpNext
    <3>2. up \in [Blocks -> UpState]
      BY DEF WrTyped
    <3>3. up' = [up EXCEPT ![b] = new]
      BY <3>1, <3>2
    <3> QED
      BY <3>1, <3>3
  <2>2. [v.buf EXCEPT ![v.byteIdx] = v.val] \in Word
    BY <1>1 DEF Word
  <2>3. new \in UpState
    <3>1. v.byteIdx + 1 \in Nat /\ Head(outQ[b]) \in Int
      BY <1>1, <1>2, <2>1
    <3> QED
      BY <1>1, <2>2, <3>1 DEF UpState
  <2> HIDE DEF new
  <2>4. Tail(outQ[b]) \in Seq(Int) /\ UNCHANGED <<packQ, burstQ>>
    BY <1>2, <1>8, <2>1 DEF UpNext
  <2>5. up' \in [Blocks -> UpState] /\ outQ' \in [Blocks -> Seq(Int)]
    BY <2>1, <2>3, <2>4 DEF WrTyped
  <2> QED
    BY <1>3, <2>4, <2>5 DEF WrTyped
<1>9. CASE UpEnd(b)
  <2>1. Append(burstQ[b], 0) \in Seq(Nat)
    BY <1>1, AppendFacts
  <2>2. up' \in [Blocks -> UpState]
    BY <1>9, ZenonT(30) DEF UpEnd, WrTyped, UpState
  <2> QED
    BY <1>3, <1>9, <2>1, <2>2 DEF UpEnd, WrTyped
<1> QED
  BY <1>4, <1>5, <1>6, <1>7, <1>8, <1>9 DEF UpSizer

LEMMA WrStepTyped ==
    ASSUME WrTyped, Writer, wr.pc = "burst" => wr.j < wr.burst
    PROVE  WrTyped' /\ (wr'.pc = "burst" => wr'.j < wr'.burst)
<1>1. /\ wr \in WrState /\ wr.i \in Blocks /\ wr.j \in Nat /\ wr.burst \in Nat
      /\ wr.size \in [Blocks -> Nat] /\ wr.pending \in [Blocks -> BOOLEAN]
      /\ burstQ[wr.i] \in Seq(Nat) /\ packQ[wr.i] \in Seq(Word)
  BY DEF WrTyped, WrState
<1>2. CASE WrPoll
  <2>0. UNCHANGED <<eng, up, outQ, packQ>>
    BY <1>2 DEF WrPoll
  <2>1. CASE burstQ[wr.i] = << >>
    BY <2>0, <1>1, <1>2, <2>1, WrTurnTyped DEF WrPoll, WrTyped
  <2>2. CASE burstQ[wr.i] # << >>
    <3> DEFINE s == Head(burstQ[wr.i])
               w == [wr EXCEPT !.pending[wr.i] = s > 0, !.j = 0, !.burst = Words(s)]
    <3>1. s \in Nat /\ Tail(burstQ[wr.i]) \in Seq(Nat)
      BY <1>1, <2>2, TailFacts
    <3>2. Words(s) \in Nat /\ (s > 0 => Words(s) > 0)
      BY <3>1, WordsFacts, ZenonT(30)
    <3>3. /\ wr' = IF s > 0 THEN [w EXCEPT !.pc = "burst"] ELSE WrNextTurn(w)
          /\ burstQ' = [burstQ EXCEPT ![wr.i] = Tail(burstQ[wr.i])]
      BY <1>2, <2>2 DEF WrPoll
    <3>4. w \in WrState /\ w.j = 0 /\ w.burst = Words(s)
      <4>1. [wr.pending EXCEPT ![wr.i] = s > 0] \in [Blocks -> BOOLEAN]
        BY <1>1
      <4> HIDE DEF s
      <4> QED
        BY <1>1, <3>2, <4>1 DEF WrState
    <3>5. burstQ' \in [Blocks -> Seq(Nat)]
      BY <3>1, <3>3 DEF WrTyped
    <3> HIDE DEF w, s
    <3>6. CASE s > 0
      <4>1. [w EXCEPT !.pc = "burst"] \in WrState /\ wr'.j = 0 /\ wr'.burst = Words(s)
        BY <3>3, <3>4, <3>6 DEF WrState
      <4> QED
        BY <2>0, <3>2, <3>3, <3>5, <3>6, <4>1 DEF WrTyped
    <3>7. CASE ~(s > 0)
      BY <2>0, <3>3, <3>4, <3>5, <3>7, WrTurnTyped DEF WrTyped
    <3> QED
      BY <3>6, <3>7
  <2> QED
    BY <2>1, <2>2
<1>3. CASE WrWord
  <2>1. Tail(packQ[wr.i]) \in Seq(Word)
    BY <1>1, <1>3, TailFacts DEF WrWord
  <2>2. packQ' \in [Blocks -> Seq(Word)]
    BY <1>3, <2>1 DEF WrWord, WrTyped
  <2>3. UNCHANGED <<eng, up, outQ, burstQ>>
    BY <1>3 DEF WrWord
  <2>4. CASE wr.j + 1 < wr.burst
    <3>1. wr' = [wr EXCEPT !.j = wr.j + 1] /\ wr.j + 1 \in Nat
      BY <1>1, <1>3, <2>4 DEF WrWord
    <3>2. wr' \in WrState /\ wr'.j = wr.j + 1 /\ wr'.burst = wr.burst
      BY <1>1, <3>1 DEF WrState
    <3> QED
      BY <2>2, <2>3, <2>4, <3>2 DEF WrTyped
  <2>5. CASE ~(wr.j + 1 < wr.burst)
    <3> DEFINE w == [wr EXCEPT !.size[wr.i] = SizeAfterBurst(wr)]
    <3>1. wr' = WrNextTurn(w)
      BY <1>3, <2>5 DEF WrWord
    <3>2. SizeAfterBurst(wr) \in Nat
      BY <1>1 DEF SizeAfterBurst
    <3>3. w \in WrState
      BY <1>1, <3>2 DEF WrState
    <3> HIDE DEF w
    <3> QED
      BY <2>2, <2>3, <3>1, <3>3, WrTurnTyped DEF WrTyped
  <2> QED
    BY <2>4, <2>5
<1>4. CASE WrTotal
  <2>1. wr.pc = "total" /\ UNCHANGED <<eng, up, outQ, packQ, burstQ>>
    BY <1>4 DEF WrTotal
  <2>2. wr' \in WrState /\ wr'.pc # "burst"
    <3>1. CASE wr.i < NumBlock - 1
      <4>1. wr' = [wr EXCEPT !.i = wr.i + 1] /\ wr.i + 1 \in Blocks
        BY <1>1, <1>4, <3>1, WrConstants DEF WrTotal
      <4> QED
        BY <1>1, <2>1, <4>1 DEF WrState
    <3>2. CASE ~(wr.i < NumBlock - 1)
      <4>1. wr' = [wr EXCEPT !.pc = "done"]
        BY <1>4, <3>2 DEF WrTotal
      <4> QED
        BY <1>1, <4>1 DEF WrState
    <3> QED
      BY <3>1, <3>2
  <2> QED
    BY <2>1, <2>2 DEF WrTyped
<1> QED
  BY <1>2, <1>3, <1>4 DEF Writer

-----------------------------------------------------------------------------
(* The balance. *)

LEMMA WrSameBalance ==
    ASSUME NEW b \in Blocks, WrBalance(b), packQ'[b] = packQ[b], burstQ'[b] = burstQ[b],
           up'[b].sizeWrite = up[b].sizeWrite, InBurst(b)' = InBurst(b)
    PROVE  WrBalance(b)'
BY DEF WrBalance

LEMMA WrInvInit == WrInit => WrInv
<1> SUFFICES ASSUME WrInit PROVE WrInv
  OBVIOUS
<1>1. WrTyped
  BY TypedInit
<1>2. ASSUME NEW b \in Blocks PROVE WrBalance(b)
  <2>1. burstQ[b] = << >> /\ packQ[b] = << >> /\ up[b].sizeWrite = 0 /\ InBurst(b) = 0
    BY DEF WrInit, UpStart, InBurst
  <2>2. Announces(<< >>, 0)
    BY NoneAnnounced
  <2> QED
    BY <2>1, <2>2 DEF WrBalance
<1>3. wr.pc # "burst"
  BY DEF WrInit
<1> QED
  BY <1>1, <1>2, <1>3 DEF WrInv

LEMMA EngineStep ==
    ASSUME WrInv, NEW b \in Blocks, Engine(b)
    PROVE  WrInv'
<1>1. UNCHANGED <<up, wr, packQ, burstQ>>
  BY DEF Engine, EngByte, EngTotal, EngPad, EngFlag
<1>2. WrTyped'
  BY EngineTyped DEF WrInv
<1> QED
  BY <1>1, <1>2 DEF WrInv, WrBalance, InBurst

(* The upsizer packs a word, or announces what it has packed.              *)
LEMMA UpStep ==
    ASSUME WrInv, NEW b \in Blocks, UpSizer(b)
    PROVE  WrInv'
<1>0. WrTyped /\ WrTyped'
  BY UpTyped DEF WrInv
<1>1. UNCHANGED wr
  BY DEF UpSizer, UpFirst, UpFlag, UpWord, UpSize, UpNext, UpEnd, UpOnly
<1>2. \A c \in Blocks : InBurst(c)' = InBurst(c)
  BY <1>1 DEF InBurst
<1>3. ASSUME NEW c \in Blocks, c # b PROVE WrBalance(c)'
  <2>1. packQ'[c] = packQ[c] /\ burstQ'[c] = burstQ[c] /\ up'[c] = up[c]
    BY <1>0, <1>3 DEF WrTyped, UpSizer, UpFirst, UpFlag, UpWord, UpSize, UpNext, UpEnd
  <2> QED
    BY <1>2, <2>1, WrSameBalance DEF WrInv
<1>4. WrBalance(b)'
  <2>0. /\ up[b] \in UpState /\ up[b].sizeWrite \in Nat /\ burstQ[b] \in Seq(Nat)
        /\ packQ[b] \in Seq(Word) /\ up[b].buf \in Word
    BY <1>0 DEF WrTyped, UpState
  <2>1. PICK words \in Nat : /\ Announces(burstQ[b], words)
                             /\ Len(packQ[b]) = words + InBurst(b) + up[b].sizeWrite
    BY DEF WrInv, WrBalance
  <2>2. InBurst(b) \in Int
    BY <1>0 DEF InBurst, WrTyped, WrState
  <2>3. CASE UpFirst(b) \/ UpFlag(b) \/ UpNext(b)
    <3>1. packQ'[b] = packQ[b] /\ burstQ'[b] = burstQ[b] /\ up'[b].sizeWrite = up[b].sizeWrite
      <4>1. CASE UpFirst(b)
        BY <1>0, <2>0, <4>1 DEF UpFirst, WrTyped, UpState
      <4>2. CASE UpFlag(b)
        BY <1>0, <2>0, <4>2 DEF UpFlag, WrTyped, UpState
      <4>3. CASE UpNext(b)
        BY <1>0, <2>0, <4>3 DEF UpNext, WrTyped, UpState
      <4> QED
        BY <2>3, <4>1, <4>2, <4>3
    <3> QED
      BY <1>2, <3>1, WrSameBalance DEF WrInv
  <2>4. CASE UpWord(b)
    <3>1. up'[b].sizeWrite = up[b].sizeWrite + 1 /\ burstQ'[b] = burstQ[b]
      BY <1>0, <2>0, <2>4 DEF UpWord, WrTyped, UpState
    <3>2. Len(packQ'[b]) = Len(packQ[b]) + 1
      BY <1>0, <2>0, <2>4, AppendFacts DEF UpWord, WrTyped
    <3>3. Len(packQ'[b]) = words + InBurst(b) + (up[b].sizeWrite + 1)
      BY <2>0, <2>1, <2>2, <3>2
    <3> QED
      BY <1>2, <2>1, <3>1, <3>3 DEF WrBalance
  <2>5. CASE UpSize(b)
    <3>1. /\ up'[b].sizeWrite = 0 /\ packQ'[b] = packQ[b]
          /\ burstQ'[b] = Append(burstQ[b], BurstBytes(up[b]))
      BY <1>0, <2>0, <2>5 DEF UpSize, WrTyped, UpState
    <3>2. BurstBytes(up[b]) \in Nat /\ WordsOf[BurstBytes(up[b])] = up[b].sizeWrite
      BY <2>0, WordsFacts DEF BurstBytes
    <3>3. /\ Announces(burstQ'[b], words + up[b].sizeWrite)
          /\ words + up[b].sizeWrite \in Nat
      BY <2>0, <2>1, <3>1, <3>2, AnnounceMore
    <3>4. Len(packQ'[b]) = (words + up[b].sizeWrite) + InBurst(b) + 0
      BY <2>0, <2>1, <2>2, <3>1
    <3> QED
      BY <1>2, <3>1, <3>3, <3>4 DEF WrBalance
  <2>6. CASE UpEnd(b)
    <3>1. /\ up'[b].sizeWrite = up[b].sizeWrite /\ packQ'[b] = packQ[b]
          /\ burstQ'[b] = Append(burstQ[b], 0)
      BY <1>0, <2>0, <2>6 DEF UpEnd, WrTyped, UpState
    <3>2. Announces(burstQ'[b], words + 0)
      <4>1. 0 \in Nat /\ WordsOf[0] = 0
        BY WordsFacts
      <4>2. Announces(Append(burstQ[b], 0), words + WordsOf[0])
        BY <2>0, <2>1, <4>1, AnnounceMore
      <4> QED
        BY <3>1, <4>1, <4>2
    <3>3. words + 0 = words
      OBVIOUS
    <3> QED
      BY <1>2, <2>1, <3>1, <3>2, <3>3 DEF WrBalance
  <2> QED
    BY <2>3, <2>4, <2>5, <2>6 DEF UpSizer
<1>5. wr'.pc = "burst" => wr'.j < wr'.burst
  BY <1>1 DEF WrInv
<1> QED
  BY <1>0, <1>3, <1>4, <1>5 DEF WrInv

(* The writer takes over a burst whose words have all been announced, and  *)
(* then its words one by one.                                              *)
LEMMA WriterStep ==
    ASSUME WrInv, Writer
    PROVE  WrInv'
<1>0. WrTyped /\ WrTyped' /\ (wr'.pc = "burst" => wr'.j < wr'.burst)
  BY WrStepTyped DEF WrInv
<1> PICK i \in Blocks : i = wr.i
  BY <1>0 DEF WrTyped, WrState
<1>1. /\ wr \in WrState /\ i \in Blocks /\ wr.j \in Nat /\ wr.burst \in Nat
      /\ burstQ[i] \in Seq(Nat) /\ packQ[i] \in Seq(Word) /\ up[i].sizeWrite \in Nat
  BY <1>0 DEF WrTyped, WrState, UpState
<1>2. UNCHANGED up
  BY DEF Writer, WrPoll, WrWord, WrTotal
<1>3. ASSUME NEW b \in Blocks, b # i PROVE WrBalance(b)'
  <2>1. packQ'[b] = packQ[b] /\ burstQ'[b] = burstQ[b]
    BY <1>0, <1>3 DEF WrTyped, Writer, WrPoll, WrWord, WrTotal
  <2>2. InBurst(b) = 0
    BY <1>3 DEF InBurst
  <2>3. wr'.pc = "burst" => wr'.i = i
    <3>1. CASE WrPoll
      <4>1. CASE burstQ[i] = << >>
        BY <1>1, <3>1, <4>1, WrTurnTyped DEF WrPoll
      <4>2. CASE burstQ[i] # << >>
        <5> DEFINE s == Head(burstQ[i])
                   w == [wr EXCEPT !.pending[i] = s > 0, !.j = 0, !.burst = Words(s)]
        <5>1. wr' = IF s > 0 THEN [w EXCEPT !.pc = "burst"] ELSE WrNextTurn(w)
          BY <3>1, <4>2 DEF WrPoll
        <5>2. s \in Nat /\ Words(s) \in Nat
          <6>1. s \in Nat
            BY <1>1, <4>2, TailFacts
          <6> HIDE DEF s
          <6>2. WordsOf[s] = Words(s) /\ WordsOf[s] \in Nat
            BY <6>1, WordsFacts
          <6> QED
            BY <6>1, <6>2
        <5>3. w \in WrState /\ w.i = i
          <6>1. [wr.pending EXCEPT ![i] = s > 0] \in [Blocks -> BOOLEAN]
            BY <1>1 DEF WrState
          <6> HIDE DEF s
          <6> QED
            BY <1>1, <5>2, <6>1 DEF WrState
        <5> HIDE DEF w, s
        <5>4. [w EXCEPT !.pc = "burst"].i = i
          BY <5>3 DEF WrState
        <5> QED
          BY <5>1, <5>3, <5>4, WrTurnTyped
      <4> QED
        BY <4>1, <4>2
    <3>2. CASE WrWord
      <4>1. CASE wr.j + 1 < wr.burst
        BY <1>1, <3>2, <4>1 DEF WrWord, WrState
      <4>2. CASE ~(wr.j + 1 < wr.burst)
        <5> DEFINE w == [wr EXCEPT !.size[i] = SizeAfterBurst(wr)]
        <5>1. wr' = WrNextTurn(w)
          BY <3>2, <4>2 DEF WrWord
        <5>2. w \in WrState
          <6>1. SizeAfterBurst(wr) \in Nat
            BY <1>1 DEF SizeAfterBurst, WrState
          <6> QED
            BY <1>1, <6>1 DEF WrState
        <5> HIDE DEF w
        <5> QED
          BY <5>1, <5>2, WrTurnTyped
      <4> QED
        BY <4>1, <4>2
    <3>3. CASE WrTotal
      <4>1. wr.pc = "total" /\ (wr' = [wr EXCEPT !.i = wr.i + 1] \/ wr' = [wr EXCEPT !.pc = "done"])
        BY <3>3 DEF WrTotal
      <4> QED
        BY <1>1, <4>1 DEF WrState
    <3> QED
      BY <3>1, <3>2, <3>3 DEF Writer
  <2>4. InBurst(b)' = InBurst(b)
    BY <1>3, <2>2, <2>3 DEF InBurst
  <2> QED
    BY <1>2, <2>1, <2>4, WrSameBalance DEF WrInv
<1>4. WrBalance(i)'
  <2>0. WrBalance(i)
    BY <1>1 DEF WrInv
  <2>1. PICK words \in Nat : /\ Announces(burstQ[i], words)
                             /\ Len(packQ[i]) = words + InBurst(i) + up[i].sizeWrite
    BY <1>1 DEF WrInv, WrBalance
  <2>2. CASE WrPoll
    <3>0. InBurst(i) = 0 /\ packQ'[i] = packQ[i]
      BY <2>2 DEF WrPoll, InBurst
    <3>1. CASE burstQ[i] = << >>
      <4>1. wr' = WrNextTurn(wr) /\ burstQ' = burstQ
        BY <2>2, <3>1 DEF WrPoll
      <4>2. wr'.pc # "burst"
        BY <1>1, <4>1, WrTurnTyped
      <4>3. InBurst(i)' = InBurst(i)
        BY <3>0, <4>2 DEF InBurst
      <4> QED
        BY <1>1, <1>2, <2>0, <3>0, <4>1, <4>3, WrSameBalance
    <3>2. CASE burstQ[i] # << >>
      <4> DEFINE s == Head(burstQ[i])
                 w == [wr EXCEPT !.pending[i] = s > 0, !.j = 0, !.burst = Words(s)]
      <4>1. /\ wr' = IF s > 0 THEN [w EXCEPT !.pc = "burst"] ELSE WrNextTurn(w)
            /\ burstQ' = [burstQ EXCEPT ![i] = Tail(burstQ[i])]
        BY <2>2, <3>2 DEF WrPoll
      <4>2. s \in Nat /\ Words(s) \in Nat /\ Words(s) = WordsOf[s] /\ (s = 0 => Words(s) = 0)
        <5>1. s \in Nat
          BY <1>1, <3>2, TailFacts
        <5> HIDE DEF s
        <5>2. WordsOf[s] = Words(s) /\ WordsOf[s] \in Nat /\ WordsOf[0] = 0
          BY <5>1, WordsFacts
        <5> QED
          BY <5>1, <5>2
      <4>3. PICK fewer \in Nat : Announces(Tail(burstQ[i]), fewer) /\ words = WordsOf[s] + fewer
        BY <1>1, <2>1, <3>2, AnnounceLess
      <4>4. w \in WrState /\ w.i = i /\ w.j = 0 /\ w.burst = Words(s)
        <5>1. [wr.pending EXCEPT ![i] = s > 0] \in [Blocks -> BOOLEAN]
          BY <1>1 DEF WrState
        <5> HIDE DEF s
        <5> QED
          BY <1>1, <4>2, <5>1 DEF WrState
      <4>5. burstQ'[i] = Tail(burstQ[i])
        BY <1>0, <1>1, <4>1 DEF WrTyped
      <4> HIDE DEF s, w
      <4>6. InBurst(i)' = Words(s)
        <5>1. CASE s > 0
          <6>1. wr'.pc = "burst" /\ wr'.i = i /\ wr'.j = 0 /\ wr'.burst = Words(s)
            BY <4>1, <4>4, <5>1 DEF WrState
          <6> QED
            BY <4>2, <6>1 DEF InBurst
        <5>2. CASE ~(s > 0)
          <6>1. wr'.pc # "burst"
            BY <4>1, <4>4, <5>2, WrTurnTyped
          <6>2. s = 0
            BY <4>2, <5>2
          <6> QED
            BY <4>2, <6>1, <6>2 DEF InBurst
        <5> QED
          BY <5>1, <5>2
      <4>7. Len(packQ'[i]) = fewer + Words(s) + up[i].sizeWrite
        BY <1>1, <2>1, <3>0, <4>2, <4>3
      <4> QED
        BY <1>2, <4>3, <4>5, <4>6, <4>7 DEF WrBalance
    <3> QED
      BY <3>1, <3>2
  <2>3. CASE WrWord
    <3>1. /\ wr.pc = "burst" /\ packQ[i] # << >> /\ UNCHANGED burstQ
          /\ packQ' = [packQ EXCEPT ![i] = Tail(packQ[i])]
      BY <2>3 DEF WrWord
    <3>2. Len(packQ'[i]) = Len(packQ[i]) - 1 /\ Len(packQ[i]) \in Nat
      BY <1>0, <1>1, <3>1, TailFacts DEF WrTyped
    <3>3. InBurst(i) = wr.burst - wr.j /\ wr.j < wr.burst
      BY <3>1 DEF InBurst, WrInv
    <3>4. InBurst(i)' = InBurst(i) - 1
      <4>1. CASE wr.j + 1 < wr.burst
        <5>1. wr'.pc = "burst" /\ wr'.i = i /\ wr'.j = wr.j + 1 /\ wr'.burst = wr.burst
          BY <1>1, <2>3, <3>1, <4>1 DEF WrWord, WrState
        <5>2. InBurst(i)' = wr.burst - (wr.j + 1)
          BY <5>1 DEF InBurst
        <5> QED
          BY <1>1, <3>3, <5>2
      <4>2. CASE ~(wr.j + 1 < wr.burst)
        <5> DEFINE w == [wr EXCEPT !.size[i] = SizeAfterBurst(wr)]
        <5>1. wr' = WrNextTurn(w)
          BY <2>3, <4>2 DEF WrWord
        <5>2. w \in WrState
          <6>1. SizeAfterBurst(wr) \in Nat
            BY <1>1 DEF SizeAfterBurst, WrState
          <6> QED
            BY <1>1, <6>1 DEF WrState
        <5> HIDE DEF w
        <5>3. InBurst(i)' = 0
          BY <5>1, <5>2, WrTurnTyped DEF InBurst
        <5> QED
          BY <1>1, <3>3, <4>2, <5>3
      <4> QED
        BY <4>1, <4>2
    <3>5. Len(packQ'[i]) = words + (InBurst(i) - 1) + up[i].sizeWrite
      <4>1. InBurst(i) \in Int
        BY <1>1, <3>3
      <4> QED
        BY <1>1, <2>1, <3>2, <4>1
    <3> QED
      BY <1>2, <2>1, <3>1, <3>4, <3>5 DEF WrBalance
  <2>4. CASE WrTotal
    <3>1. /\ wr.pc = "total" /\ UNCHANGED <<packQ, burstQ>>
          /\ wr' = [wr EXCEPT !.i = wr.i + 1] \/ wr' = [wr EXCEPT !.pc = "done"]
      BY <2>4 DEF WrTotal
    <3>2. wr'.pc # "burst"
      BY <1>1, <3>1 DEF WrState
    <3>3. InBurst(i) = 0 /\ InBurst(i)' = 0
      BY <3>1, <3>2 DEF InBurst
    <3> QED
      BY <1>1, <1>2, <2>0, <3>1, <3>3, WrSameBalance
  <2> QED
    BY <2>2, <2>3, <2>4 DEF Writer
<1>5. \A b \in Blocks : WrBalance(b)'
  BY <1>3, <1>4
<1> QED
  BY <1>0, <1>5 DEF WrInv

LEMMA WrInvStep == WrInv /\ [WrNext]_wrVars => WrInv'
<1> SUFFICES ASSUME WrInv, [WrNext]_wrVars PROVE WrInv'
  OBVIOUS
<1>1. CASE UNCHANGED wrVars
  BY <1>1 DEF wrVars, queues, WrInv, WrTyped, WrBalance, InBurst
<1>2. CASE WrRest
  BY <1>1, <1>2 DEF WrRest
<1> QED
  BY <1>1, <1>2, EngineStep, UpStep, WriterStep DEF WrNext

-----------------------------------------------------------------------------
(* The words in the FIFO between an upsizer and the writer are at every    *)
(* moment those of the announced bursts, of the burst the writer is in and *)
(* of the burst being packed, for any number of engines (s2mm.hpp).        *)
THEOREM WriterWordsAndSizesAgree == WrSpec => []WordsMatchBursts
<1>1. WrInv => WordsMatchBursts
  <2> SUFFICES ASSUME WrInv, NEW b \in Blocks
               PROVE  Len(packQ[b]) = AnnouncedWords(burstQ[b]) + InBurst(b) + up[b].sizeWrite
    BY DEF WordsMatchBursts, InBurst
  <2>1. burstQ[b] \in Seq(Nat)
    BY DEF WrInv, WrTyped
  <2> QED
    BY <2>1, AnnouncedIsSum DEF WrInv, WrBalance
<1> QED
  BY <1>1, WrInvInit, WrInvStep, PTL DEF WrSpec

(* multStream2mmSize never waits for a word: inside a burst the next word  *)
(* is always in its FIFO, so one engine never keeps the others waiting.    *)
THEOREM WriterNeverWaits == WrSpec => []ReadingNeverBlocks
<1>1. WrInv => ReadingNeverBlocks
  <2> SUFFICES ASSUME WrInv, wr.pc = "burst" PROVE packQ[wr.i] # << >>
    BY DEF ReadingNeverBlocks
  <2>1. wr.i \in Blocks /\ wr.j \in Nat /\ wr.burst \in Nat /\ wr.j < wr.burst
    BY DEF WrInv, WrTyped, WrState
  <2>2. up[wr.i].sizeWrite \in Nat
    BY <2>1 DEF WrInv, WrTyped, UpState
  <2>3. InBurst(wr.i) = wr.burst - wr.j
    BY DEF InBurst
  <2>4. PICK words \in Nat : Len(packQ[wr.i]) = words + InBurst(wr.i) + up[wr.i].sizeWrite
    BY <2>1 DEF WrInv, WrBalance
  <2>5. Len(packQ[wr.i]) > 0
    BY <2>1, <2>2, <2>3, <2>4
  <2> QED
    BY <2>5
<1> QED
  BY <1>1, WrInvInit, WrInvStep, PTL DEF WrSpec


-----------------------------------------------------------------------------
(* Where the words go.  What the engine of block b has given out, its pad  *)
(* included, the flags it has given, and those the upsizer has read.       *)

Given(b) == eng[b].sent + (IF eng[b].pc \in {"flag", "last", "done"} THEN 1 ELSE 0)
Flagged(b) == eng[b].sent + (IF eng[b].pc = "done" THEN 1 ELSE 0)
FlagsRead(b) == Flagged(b) - Len(eosQ[b])

Closing == {"tail", "tailsize", "end", "done"}

(* The bytes in the words of block b, and the words written to memory and  *)
(* packed.                                                                 *)
Placed(b) == IF up[b].pc \in {"first", "flag"} THEN FlagsRead(b) ELSE FlagsRead(b) - 1
WordsWritten(b) == wr.size[b] + (IF wr.pc = "burst" /\ wr.i = b THEN wr.j ELSE 0)
WordsPacked(b) == WordsWritten(b) + Len(packQ[b])

EngineSide(b) ==
    /\ eng[b].sent <= output[b].csize
    /\ eng[b].pc = "flag" => eng[b].sent < output[b].csize
    /\ eng[b].pc \in {"pad", "last", "done"} => eng[b].sent = output[b].csize
    /\ \A k \in 1..Len(eosQ[b]) : eosQ[b][k] <=> eng[b].pc = "done" /\ k = Len(eosQ[b])

(* The upsizer reads bytes and flags in turn, so the pad, whose flag ends  *)
(* it, is never placed.                                                    *)
UpSide(b) ==
    /\ Given(b) = Len(outQ[b]) + FlagsRead(b) + (IF up[b].pc = "flag" THEN 1 ELSE 0)
    /\ IF up[b].pc \in Closing THEN FlagsRead(b) = output[b].csize + 1
       ELSE FlagsRead(b) <= output[b].csize

Packing(b) ==
    /\ up[b].byteIdx <= WordSize
    /\ up[b].pc = "next" => up[b].byteIdx < WordSize
    /\ up[b].pc = "word" => up[b].byteIdx = WordSize
    /\ up[b].pc = "size" => up[b].byteIdx = 0
    /\ up[b].pc = "tail" => up[b].byteIdx > 0
    /\ up[b].pc \notin {"tailsize", "end", "done"} =>
         WordsPacked(b) * WordSize + up[b].byteIdx = Placed(b)
    /\ WordsPacked(b) <= WordsOf[output[b].csize]

Stored == {Untouched} \cup (Blocks \X Word)

PlaceInv ==
    /\ output \in Outputs
    /\ eosQ \in [Blocks -> Seq(BOOLEAN)]
    /\ mem \in [Addresses -> Stored]
    /\ \A b \in Blocks : EngineSide(b) /\ UpSide(b) /\ Packing(b)
    /\ \A a \in Addresses :
         mem[a] # Untouched => \E b \in Blocks : /\ a >= BaseAddr(b)
                                                 /\ a < BaseAddr(b) + WordsWritten(b)

LEMMA PlaceTyped ==
    ASSUME WrTyped, PlaceInv, NEW b \in Blocks
    PROVE  /\ eng[b] \in [pc : {"byte", "flag", "pad", "last", "done"}, sent : Nat]
           /\ eng[b].sent \in Nat /\ output[b].csize \in Nat /\ output[b].size \in Nat
           /\ output[b].csize <= output[b].size
           /\ up[b] \in UpState /\ up[b].byteIdx \in Nat
           /\ outQ[b] \in Seq(Int) /\ eosQ[b] \in Seq(BOOLEAN) /\ packQ[b] \in Seq(Word)
           /\ Len(outQ[b]) \in Nat /\ Len(eosQ[b]) \in Nat /\ Len(packQ[b]) \in Nat
           /\ WordsWritten(b) \in Nat /\ WordsPacked(b) \in Nat
           /\ Given(b) \in Nat /\ Flagged(b) \in Nat /\ FlagsRead(b) \in Int
<1>1. eng[b] \in [pc : {"byte", "flag", "pad", "last", "done"}, sent : Nat] /\ eng[b].sent \in Nat
  BY DEF WrTyped
<1>2. /\ output[b].csize \in Nat /\ output[b].size \in Nat
      /\ output[b].csize <= output[b].size
  BY WriterAssumption DEF PlaceInv, WriterAssumption, OutputRegion
<1>3. up[b] \in UpState /\ up[b].byteIdx \in Nat
  BY DEF WrTyped, UpState
<1>4. /\ outQ[b] \in Seq(Int) /\ eosQ[b] \in Seq(BOOLEAN) /\ packQ[b] \in Seq(Word)
      /\ Len(outQ[b]) \in Nat /\ Len(eosQ[b]) \in Nat /\ Len(packQ[b]) \in Nat
  BY DEF WrTyped, PlaceInv
<1>5. WordsWritten(b) \in Nat
  BY DEF WrTyped, WrState, WordsWritten
<1>6. WordsPacked(b) \in Nat
  BY <1>4, <1>5 DEF WordsPacked
<1>7. Given(b) \in Nat /\ Flagged(b) \in Nat
  BY <1>1 DEF Given, Flagged
<1>8. FlagsRead(b) \in Int
  BY <1>4, <1>7 DEF FlagsRead
<1> QED
  BY <1>1, <1>2, <1>3, <1>4, <1>5, <1>6, <1>7, <1>8

(* So many words have room, if their bytes were there or one of the last.  *)
LEMMA WordsEnough ==
    /\ \A n, c \in Nat : n * WordSize <= c => n <= WordsOf[c]
    /\ \A n, c \in Nat : n * WordSize < c => n + 1 <= WordsOf[c]
    /\ \A m, n \in Nat : m <= n => WordsOf[m] <= WordsOf[n]
<1>1. WordSize \in Nat /\ WordSize > 0
  BY WrConstants
<1>2. \A n, c, w \in Nat : w > 0 /\ n * w <= c => n <= (c + w - 1) \div w
  OBVIOUS
<1>3. \A n, c, w \in Nat : w > 0 /\ n * w < c => n + 1 <= (c + w - 1) \div w
  OBVIOUS
<1>4. \A m, n, w \in Nat : w > 0 /\ m <= n => (m + w - 1) \div w <= (n + w - 1) \div w
  OBVIOUS
<1>5. \A n \in Nat : WordsOf[n] = (n + WordSize - 1) \div WordSize
  BY WordsFacts DEF Words
<1> QED
  BY <1>1, <1>2, <1>3, <1>4, <1>5

(* What is not touched stays.                                              *)
LEMMA SidesStay ==
    ASSUME NEW b \in Blocks, EngineSide(b), UpSide(b), Packing(b), UNCHANGED output,
           eng'[b] = eng[b], up'[b] = up[b], outQ'[b] = outQ[b], eosQ'[b] = eosQ[b],
           WordsPacked(b)' = WordsPacked(b)
    PROVE  EngineSide(b)' /\ UpSide(b)' /\ Packing(b)'
BY DEF EngineSide, UpSide, Packing, Placed, FlagsRead, Flagged, Given

LEMMA PlaceInit == WrInit => PlaceInv
<1> SUFFICES ASSUME WrInit PROVE PlaceInv
  OBVIOUS
<1>1. WrTyped
  BY TypedInit
<1>2. output \in Outputs /\ eosQ \in [Blocks -> Seq(BOOLEAN)] /\ mem \in [Addresses -> Stored]
  BY DEF WrInit, Stored
<1>3. \A a \in Addresses : mem[a] = Untouched
  BY DEF WrInit
<1>4. ASSUME NEW b \in Blocks PROVE EngineSide(b) /\ UpSide(b) /\ Packing(b)
  <2>1. /\ eng[b].pc = "byte" /\ eng[b].sent = 0 /\ up[b].pc = "first" /\ up[b].byteIdx = 0
        /\ outQ[b] = << >> /\ eosQ[b] = << >> /\ packQ[b] = << >>
        /\ wr.pc = "poll" /\ wr.size[b] = 0
    BY DEF WrInit, UpStart
  <2>2. Len(<< >>) = 0
    OBVIOUS
  <2>3. output[b].csize \in Nat
    BY <1>2, WriterAssumption DEF WriterAssumption, OutputRegion
  <2>4. Given(b) = 0 /\ FlagsRead(b) = 0 /\ WordsPacked(b) = 0 /\ Placed(b) = 0
    <3>1. Given(b) = 0 /\ Flagged(b) = 0 /\ WordsWritten(b) = 0
      BY <2>1 DEF Given, Flagged, WordsWritten
    <3>2. Len(eosQ[b]) = 0 /\ Len(packQ[b]) = 0
      BY <2>1, <2>2
    <3>3. FlagsRead(b) = 0 /\ WordsPacked(b) = 0
      BY <3>1, <3>2 DEF FlagsRead, WordsPacked
    <3> QED
      BY <2>1, <3>1, <3>3 DEF Placed
  <2>5. 0 * WordSize + 0 = 0 /\ 0 <= WordSize /\ 0 <= WordsOf[output[b].csize]
    <3>1. WordsOf[output[b].csize] \in Nat
      BY <2>3, WordsFacts
    <3>2. \A w \in Nat : 0 * w + 0 = 0 /\ 0 <= w
      OBVIOUS
    <3> QED
      BY <3>1, <3>2, WrConstants
  <2> QED
    BY <2>1, <2>2, <2>3, <2>4, <2>5 DEF EngineSide, UpSide, Packing, Closing
<1> QED
  BY <1>2, <1>3, <1>4 DEF PlaceInv

(* The engine gives a flag for every byte, the pad included.               *)
LEMMA EngineKeepsPlace ==
    ASSUME WrTyped, PlaceInv, NEW b \in Blocks, Engine(b)
    PROVE  PlaceInv'
<1>1. UNCHANGED <<output, up, wr, packQ, mem>>
  BY DEF Engine, EngByte, EngTotal, EngPad, EngFlag
<1>2. /\ eng[b] \in [pc : {"byte", "flag", "pad", "last", "done"}, sent : Nat]
      /\ eng[b].sent \in Nat /\ output[b].csize \in Nat
      /\ outQ[b] \in Seq(Int) /\ eosQ[b] \in Seq(BOOLEAN)
      /\ Len(outQ[b]) \in Nat /\ Len(eosQ[b]) \in Nat /\ FlagsRead(b) \in Int
      /\ Given(b) \in Nat /\ Flagged(b) \in Nat
  BY PlaceTyped
<1>3. EngineSide(b) /\ UpSide(b) /\ Packing(b)
  BY DEF PlaceInv
<1>4. \A c \in Blocks : WordsWritten(c)' = WordsWritten(c) /\ WordsPacked(c)' = WordsPacked(c)
  BY <1>1 DEF WordsWritten, WordsPacked
<1>5. ASSUME NEW c \in Blocks, c # b PROVE EngineSide(c)' /\ UpSide(c)' /\ Packing(c)'
  <2>1. eng'[c] = eng[c] /\ outQ'[c] = outQ[c] /\ eosQ'[c] = eosQ[c] /\ up'[c] = up[c]
    BY <1>1, <1>5 DEF Engine, EngByte, EngTotal, EngPad, EngFlag, WrTyped, PlaceInv
  <2> QED
    BY <1>1, <1>4, <2>1, SidesStay DEF PlaceInv
<1>6. eosQ' \in [Blocks -> Seq(BOOLEAN)] /\ EngineSide(b)' /\ UpSide(b)' /\ FlagsRead(b)' = FlagsRead(b)
  <2>1. CASE EngByte(b)
    <3>1. /\ eng[b].pc = "byte" /\ eng[b].sent < output[b].csize /\ eosQ' = eosQ
          /\ eng'[b].pc = "flag" /\ eng'[b].sent = eng[b].sent
          /\ outQ'[b] = Append(outQ[b], eng[b].sent)
      BY <1>2, <2>1 DEF EngByte, WrTyped
    <3>2. Len(outQ'[b]) = Len(outQ[b]) + 1
      BY <1>2, <3>1, AppendFacts
    <3>3. Given(b)' = Given(b) + 1 /\ Flagged(b)' = Flagged(b)
      BY <1>2, <3>1 DEF Given, Flagged
    <3>4. FlagsRead(b)' = FlagsRead(b)
      BY <3>1, <3>3 DEF FlagsRead
    <3>5. EngineSide(b)'
      BY <1>1, <1>3, <3>1 DEF EngineSide
    <3>6. UpSide(b)'
      BY <1>1, <1>2, <1>3, <3>2, <3>3, <3>4 DEF UpSide
    <3> QED
      BY <3>1, <3>4, <3>5, <3>6 DEF PlaceInv
  <2>2. CASE EngTotal(b)
    <3>1. /\ eng[b].pc = "byte" /\ eng[b].sent = output[b].csize /\ UNCHANGED <<outQ, eosQ>>
          /\ eng'[b].pc = "pad" /\ eng'[b].sent = eng[b].sent
      BY <1>2, <2>2 DEF EngTotal, WrTyped
    <3>2. Given(b)' = Given(b) /\ Flagged(b)' = Flagged(b)
      BY <3>1 DEF Given, Flagged
    <3>3. FlagsRead(b)' = FlagsRead(b)
      BY <3>1, <3>2 DEF FlagsRead
    <3>4. EngineSide(b)'
      BY <1>1, <1>3, <3>1 DEF EngineSide
    <3>5. UpSide(b)'
      BY <1>1, <1>3, <3>1, <3>2, <3>3 DEF UpSide
    <3> QED
      BY <3>1, <3>3, <3>4, <3>5 DEF PlaceInv
  <2>3. CASE EngPad(b)
    <3>1. /\ eng[b].pc = "pad" /\ eosQ' = eosQ
          /\ eng'[b].pc = "last" /\ eng'[b].sent = eng[b].sent
          /\ outQ'[b] = Append(outQ[b], Zero) /\ Zero \in Int
      BY <1>2, <2>3 DEF EngPad, WrTyped, Zero
    <3>2. Len(outQ'[b]) = Len(outQ[b]) + 1
      BY <1>2, <3>1, AppendFacts
    <3>3. Given(b)' = Given(b) + 1 /\ Flagged(b)' = Flagged(b)
      BY <1>2, <3>1 DEF Given, Flagged
    <3>4. FlagsRead(b)' = FlagsRead(b)
      BY <3>1, <3>3 DEF FlagsRead
    <3>5. EngineSide(b)'
      BY <1>1, <1>3, <3>1 DEF EngineSide
    <3>6. UpSide(b)'
      BY <1>1, <1>2, <1>3, <3>2, <3>3, <3>4 DEF UpSide
    <3> QED
      BY <3>1, <3>4, <3>5, <3>6 DEF PlaceInv
  <2>4. CASE EngFlag(b)
    <3> DEFINE f == eng[b].pc = "last"
    <3>1. /\ eng[b].pc \in {"flag", "last"} /\ outQ' = outQ
          /\ eosQ' = [eosQ EXCEPT ![b] = Append(eosQ[b], f)]
          /\ IF f THEN eng'[b].pc = "done" /\ eng'[b].sent = eng[b].sent
             ELSE eng'[b].pc = "byte" /\ eng'[b].sent = eng[b].sent + 1
      BY <1>2, <2>4 DEF EngFlag, WrTyped
    <3>2. /\ Append(eosQ[b], f) \in Seq(BOOLEAN)
          /\ Len(Append(eosQ[b], f)) = Len(eosQ[b]) + 1
          /\ Append(eosQ[b], f)[Len(eosQ[b]) + 1] = f
          /\ \A k \in 1..Len(eosQ[b]) : Append(eosQ[b], f)[k] = eosQ[b][k]
      <4>1. f \in BOOLEAN
        OBVIOUS
      <4> HIDE DEF f
      <4> QED
        BY <1>2, <4>1, AppendFacts
    <3>3. eosQ' \in [Blocks -> Seq(BOOLEAN)] /\ eosQ'[b] = Append(eosQ[b], f)
      BY <3>1, <3>2 DEF PlaceInv
    <3>4. Given(b)' = Given(b) /\ Flagged(b)' = Flagged(b) + 1
      BY <1>2, <3>1 DEF Given, Flagged
    <3>5. FlagsRead(b)' = FlagsRead(b)
      <4>1. Len(eosQ'[b]) = Len(eosQ[b]) + 1
        BY <3>2, <3>3
      <4>2. (Flagged(b) + 1) - (Len(eosQ[b]) + 1) = Flagged(b) - Len(eosQ[b])
        BY <1>2
      <4> QED
        BY <3>4, <4>1, <4>2 DEF FlagsRead
    <3>6. EngineSide(b)'
      <4>1. ASSUME NEW k \in 1..Len(eosQ'[b])
            PROVE  eosQ'[b][k] <=> eng'[b].pc = "done" /\ k = Len(eosQ'[b])
        <5>1. CASE k \in 1..Len(eosQ[b])
          <6>1. ~eosQ[b][k]
            BY <1>3, <3>1, <5>1 DEF EngineSide
          <6>2. k # Len(eosQ'[b]) /\ eosQ'[b][k] = eosQ[b][k]
            BY <1>2, <3>2, <3>3, <5>1
          <6> QED
            BY <6>1, <6>2
        <5>2. CASE k = Len(eosQ[b]) + 1
          BY <3>1, <3>2, <3>3, <5>2
        <5> QED
          BY <1>2, <3>2, <3>3, <5>1, <5>2
      <4>2. /\ eng'[b].sent <= output[b].csize /\ eng'[b].pc \in {"byte", "done"}
            /\ eng'[b].pc = "done" => eng'[b].sent = output[b].csize
        BY <1>2, <1>3, <3>1 DEF EngineSide
      <4> QED
        BY <1>1, <4>1, <4>2 DEF EngineSide
    <3>7. UpSide(b)'
      BY <1>1, <1>3, <3>1, <3>4, <3>5 DEF UpSide
    <3> QED
      BY <3>3, <3>5, <3>6, <3>7
  <2> QED
    BY <2>1, <2>2, <2>3, <2>4 DEF Engine
<1>7. Packing(b)'
  BY <1>1, <1>3, <1>4, <1>6 DEF Packing, Placed
<1>8. \A a \in Addresses :
        mem'[a] # Untouched => \E c \in Blocks : /\ a >= BaseAddr(c)'
                                                 /\ a < BaseAddr(c)' + WordsWritten(c)'
  BY <1>1, <1>4 DEF PlaceInv, BaseAddr
<1> QED
  BY <1>1, <1>5, <1>6, <1>7, <1>8 DEF PlaceInv

LEMMA UpKeepsPlace ==
    ASSUME WrTyped, PlaceInv, NEW b \in Blocks, UpSizer(b)
    PROVE  PlaceInv'
<1>1. UNCHANGED <<output, eng, wr, mem>>
  BY DEF UpSizer, UpFirst, UpFlag, UpWord, UpSize, UpNext, UpEnd, UpOnly
<1>2. /\ up[b] \in UpState /\ up[b].byteIdx \in Nat /\ output[b].csize \in Nat
      /\ outQ[b] \in Seq(Int) /\ eosQ[b] \in Seq(BOOLEAN) /\ packQ[b] \in Seq(Word)
      /\ Len(outQ[b]) \in Nat /\ Len(eosQ[b]) \in Nat /\ Len(packQ[b]) \in Nat
      /\ FlagsRead(b) \in Int /\ Given(b) \in Nat /\ Flagged(b) \in Nat
      /\ WordsWritten(b) \in Nat /\ WordsPacked(b) \in Nat
  BY PlaceTyped
<1>3. EngineSide(b) /\ UpSide(b) /\ Packing(b)
  BY DEF PlaceInv
<1>4. /\ \A c \in Blocks : WordsWritten(c)' = WordsWritten(c)
      /\ Given(b)' = Given(b) /\ Flagged(b)' = Flagged(b)
  BY <1>1 DEF WordsWritten, Given, Flagged
<1>5. ASSUME NEW c \in Blocks, c # b PROVE EngineSide(c)' /\ UpSide(c)' /\ Packing(c)'
  <2>1. outQ'[c] = outQ[c] /\ eosQ'[c] = eosQ[c] /\ packQ'[c] = packQ[c] /\ up'[c] = up[c]
    BY <1>5 DEF UpSizer, UpFirst, UpFlag, UpWord, UpSize, UpNext, UpEnd, WrTyped, PlaceInv
  <2>2. WordsPacked(c)' = WordsPacked(c)
    BY <1>4, <2>1 DEF WordsPacked
  <2> QED
    BY <1>1, <2>1, <2>2, SidesStay DEF PlaceInv
<1>6. /\ WordSize \in Nat /\ WordSize > 0
      /\ up[b].byteIdx \in Nat /\ output[b].csize \in Nat
      /\ Len(outQ[b]) \in Nat /\ Len(eosQ[b]) \in Nat /\ Len(packQ[b]) \in Nat
      /\ FlagsRead(b) \in Int /\ Given(b) \in Nat /\ Flagged(b) \in Nat
      /\ WordsWritten(b) \in Nat /\ WordsPacked(b) \in Nat
  BY <1>2, WrConstants
<1>7. /\ eosQ' \in [Blocks -> Seq(BOOLEAN)]
      /\ EngineSide(b)' /\ UpSide(b)' /\ Packing(b)'
  <2>1. CASE UpFirst(b)
    <3>1. /\ up[b].pc = "first" /\ up'[b].pc = "flag" /\ up'[b].byteIdx = up[b].byteIdx
          /\ outQ[b] # << >> /\ outQ'[b] = Tail(outQ[b]) /\ UNCHANGED <<eosQ, packQ>>
      BY <1>2, <2>1 DEF UpFirst, WrTyped, UpState
    <3>2. Len(outQ'[b]) = Len(outQ[b]) - 1
      BY <1>2, <3>1, TailFacts
    <3>3. FlagsRead(b)' = FlagsRead(b) /\ WordsPacked(b)' = WordsPacked(b)
      BY <1>4, <3>1 DEF FlagsRead, WordsPacked
    <3>4. EngineSide(b)'
      BY <1>1, <1>3, <3>1 DEF EngineSide
    <3>5. UpSide(b)'
      BY <1>1, <1>2, <1>3, <1>4, <3>1, <3>2, <3>3 DEF UpSide, Closing
    <3>6. Packing(b)'
      BY <1>1, <1>3, <3>1, <3>3 DEF Packing, Placed
    <3> QED
      BY <3>1, <3>4, <3>5, <3>6 DEF PlaceInv
  <2>2. CASE UpFlag(b)
    <3> DEFINE p == IF Head(eosQ[b]) THEN IF Unflushed(up[b]) THEN "tail" ELSE "end"
                    ELSE IF WordIsFull(up[b]) THEN "word" ELSE "next"
    <3>1. /\ up[b].pc = "flag" /\ eosQ[b] # << >> /\ UNCHANGED <<outQ, packQ>>
          /\ up' = [up EXCEPT ![b].pc = p]
          /\ eosQ' = [eosQ EXCEPT ![b] = Tail(eosQ[b])]
      BY <2>2 DEF UpFlag
    <3>2. up'[b].pc = p /\ up'[b].byteIdx = up[b].byteIdx
      BY <3>1, <1>2 DEF WrTyped, UpState
    <3>3. /\ Tail(eosQ[b]) \in Seq(BOOLEAN) /\ Head(eosQ[b]) = eosQ[b][1] /\ Len(eosQ[b]) > 0
          /\ Len(Tail(eosQ[b])) = Len(eosQ[b]) - 1
          /\ \A k \in 1..Len(Tail(eosQ[b])) : Tail(eosQ[b])[k] = eosQ[b][k + 1]
      BY <1>2, <3>1, TailFacts
    <3>4. eosQ' \in [Blocks -> Seq(BOOLEAN)] /\ eosQ'[b] = Tail(eosQ[b])
      BY <3>1, <3>3 DEF PlaceInv
    <3>5. FlagsRead(b)' = FlagsRead(b) + 1 /\ WordsPacked(b)' = WordsPacked(b)
      <4>1. Flagged(b) - (Len(eosQ[b]) - 1) = (Flagged(b) - Len(eosQ[b])) + 1
        BY <1>6
      <4> QED
        BY <1>4, <3>1, <3>3, <3>4, <4>1 DEF FlagsRead, WordsPacked
    <3>6. EngineSide(b)'
      <4>1. ASSUME NEW k \in 1..Len(eosQ'[b])
            PROVE  eosQ'[b][k] <=> eng'[b].pc = "done" /\ k = Len(eosQ'[b])
        <5>1. k + 1 \in 1..Len(eosQ[b]) /\ (k + 1 = Len(eosQ[b]) <=> k = Len(eosQ'[b]))
          BY <1>2, <3>3, <3>4
        <5>2. eosQ'[b][k] = eosQ[b][k + 1]
          BY <3>3, <3>4
        <5> QED
          BY <1>1, <1>3, <5>1, <5>2 DEF EngineSide
      <4> QED
        BY <1>1, <1>3, <4>1 DEF EngineSide
    <3>7. IF Head(eosQ[b]) THEN FlagsRead(b)' = output[b].csize + 1
          ELSE FlagsRead(b)' <= output[b].csize
      <4>1. Head(eosQ[b]) <=> eng[b].pc = "done" /\ Len(eosQ[b]) = 1
        <5>1. 1 \in 1..Len(eosQ[b]) /\ (1 = Len(eosQ[b]) <=> Len(eosQ[b]) = 1)
          BY <1>6, <3>3
        <5>2. eosQ[b][1] <=> eng[b].pc = "done" /\ 1 = Len(eosQ[b])
          BY <1>3, <5>1, Zenon DEF EngineSide
        <5> QED
          BY <3>3, <5>1, <5>2, Zenon
      <4>2. /\ eng[b].sent \in Nat /\ eng[b].sent <= output[b].csize
            /\ Flagged(b) = IF eng[b].pc = "done" THEN output[b].csize + 1 ELSE eng[b].sent
        BY <1>3, PlaceTyped DEF EngineSide, Flagged
      <4>3. FlagsRead(b)' = Flagged(b) - (Len(eosQ[b]) - 1)
        BY <1>4, <3>3, <3>4 DEF FlagsRead
      <4>0. Len(eosQ[b]) > 0
        BY <3>3
      <4>4. CASE Head(eosQ[b])
        <5>1. Flagged(b) = output[b].csize + 1
          BY <4>1, <4>2, <4>4, Zenon
        <5>2. FlagsRead(b)' = output[b].csize + 1
          <6>1. \A c \in Nat : (c + 1) - (1 - 1) = c + 1
            OBVIOUS
          <6>2. FlagsRead(b)' = (output[b].csize + 1) - (1 - 1)
            BY <4>1, <4>3, <4>4, <5>1, Zenon
          <6> QED
            BY <1>6, <6>1, <6>2, Zenon
        <5> QED
          BY <4>4, <5>2
      <4>5. CASE ~Head(eosQ[b])
        <5>1. CASE eng[b].pc = "done"
          <6>1. Len(eosQ[b]) # 1 /\ Flagged(b) = output[b].csize + 1
            BY <4>1, <4>2, <4>5, <5>1, Zenon
          <6>2. (output[b].csize + 1) - (Len(eosQ[b]) - 1) <= output[b].csize
            <7>1. \A c, l \in Nat : l > 0 /\ l # 1 => (c + 1) - (l - 1) <= c
              OBVIOUS
            <7> QED
              BY <1>6, <4>0, <6>1, <7>1, Zenon
          <6> QED
            BY <4>3, <4>5, <6>1, <6>2, Zenon
        <5>2. CASE eng[b].pc # "done"
          <6>1. Flagged(b) <= output[b].csize /\ Len(eosQ[b]) - 1 >= 0
            BY <1>6, <4>0, <4>2, <5>2
          <6>2. FlagsRead(b)' <= output[b].csize
            BY <1>6, <4>3, <6>1
          <6> QED
            BY <4>5, <6>2
        <5> QED
          BY <5>1, <5>2
      <4> QED
        BY <4>4, <4>5
    <3>8. UpSide(b)'
      <4>1. Given(b) = Len(outQ[b]) + FlagsRead(b) + 1
        BY <1>3, <3>1 DEF UpSide
      <4>2. Given(b)' = Len(outQ'[b]) + FlagsRead(b)' + 0
        <5>1. Given(b) = Len(outQ[b]) + (FlagsRead(b) + 1) + 0
          <6> DEFINE g == Given(b)
                     q == Len(outQ[b])
                     r == FlagsRead(b)
          <6>1. g \in Nat /\ q \in Nat /\ r \in Int /\ g = q + r + 1
            BY <1>6, <4>1
          <6> HIDE DEF g, q, r
          <6>2. g = q + (r + 1) + 0
            BY <6>1
          <6> QED
            BY <6>2 DEF g, q, r
        <5> QED
          BY <1>4, <3>1, <3>5, <5>1
      <4>3. (p \in Closing <=> Head(eosQ[b])) /\ p # "flag"
        BY DEF Closing
      <4> QED
        BY <1>1, <3>2, <3>7, <4>2, <4>3 DEF UpSide
    <3>9. Packing(b)'
      <4>1. up[b].pc = "flag" /\ WordsPacked(b) * WordSize + up[b].byteIdx = FlagsRead(b)
        BY <1>3, <3>1 DEF Packing, Placed
      <4>2. Placed(b)' = FlagsRead(b)
        <5>1. Placed(b)' = (FlagsRead(b) + 1) - 1
          BY <3>2, <3>5 DEF Placed
        <5> QED
          BY <1>2, <5>1
      <4>3. /\ p = "next" => up[b].byteIdx < WordSize
            /\ p = "word" => up[b].byteIdx = WordSize
            /\ p = "tail" => up[b].byteIdx > 0
            /\ p \in {"tail", "end", "word", "next"}
        <5>1. up[b].byteIdx <= WordSize
          BY <1>3 DEF Packing
        <5>2. /\ p = "next" => up[b].byteIdx # WordSize
              /\ p = "word" => up[b].byteIdx = WordSize
              /\ p = "tail" => up[b].byteIdx > 0
              /\ p \in {"tail", "end", "word", "next"}
          BY DEF Unflushed, WordIsFull
        <5> HIDE DEF p
        <5> QED
          BY <1>6, <5>1, <5>2
      <4> HIDE DEF p
      <4> QED
        BY <1>1, <1>3, <3>2, <3>5, <4>1, <4>2, <4>3 DEF Packing
    <3> QED
      BY <3>4, <3>6, <3>8, <3>9
  <2>3. CASE UpWord(b)
    <3>1. /\ up[b].pc \in {"word", "tail"} /\ UNCHANGED <<outQ, eosQ>>
          /\ packQ'[b] = Append(packQ[b], up[b].buf) /\ up[b].buf \in Word
          /\ up'[b].byteIdx = 0
          /\ IF up[b].pc = "tail" THEN up'[b].pc = "tailsize" ELSE up'[b].pc \in {"size", "next"}
      BY <1>2, <2>3 DEF UpWord, WrTyped, UpState
    <3>2. Len(packQ'[b]) = Len(packQ[b]) + 1
      BY <1>2, <3>1, AppendFacts
    <3>3. FlagsRead(b)' = FlagsRead(b) /\ WordsPacked(b)' = WordsPacked(b) + 1
      <4>1. WordsWritten(b) + (Len(packQ[b]) + 1) = (WordsWritten(b) + Len(packQ[b])) + 1
        BY <1>6
      <4> QED
        BY <1>4, <3>1, <3>2, <4>1 DEF FlagsRead, WordsPacked
    <3>4. EngineSide(b)'
      BY <1>1, <1>3, <3>1 DEF EngineSide
    <3>5. UpSide(b)'
      BY <1>1, <1>3, <1>4, <3>1, <3>3 DEF UpSide, Closing
    <3>6. /\ WordsPacked(b) * WordSize + up[b].byteIdx = FlagsRead(b) - 1
          /\ up[b].pc = "word" => up[b].byteIdx = WordSize
          /\ up[b].pc = "tail" => up[b].byteIdx > 0
      BY <1>3, <3>1 DEF Packing, Placed
    <3>7. FlagsRead(b) - 1 <= output[b].csize
      <4>1. FlagsRead(b) <= output[b].csize \/ FlagsRead(b) = output[b].csize + 1
        BY <1>3 DEF UpSide
      <4> QED
        BY <1>6, <4>1
    <3>8. WordsPacked(b) + 1 <= WordsOf[output[b].csize]
      <4>1. up[b].byteIdx > 0
        BY <1>6, <3>1, <3>6
      <4>2. WordsPacked(b) * WordSize < output[b].csize
        <5>1. \A p, w, i, c \in Nat : \A r \in Int :
                p * w + i = r - 1 /\ r - 1 <= c /\ i > 0 => p * w < c
          OBVIOUS
        <5> QED
          BY <1>6, <3>6, <3>7, <4>1, <5>1
      <4> QED
        BY <1>6, <4>2, WordsEnough
    <3>9. up'[b].pc \in {"size", "next"} => (WordsPacked(b) + 1) * WordSize + 0 = FlagsRead(b) - 1
      <4>1. \A k, w \in Nat : (k + 1) * w + 0 = k * w + w
        OBVIOUS
      <4>2. up'[b].pc \in {"size", "next"} => up[b].byteIdx = WordSize
        BY <3>1, <3>6
      <4> QED
        BY <1>6, <3>6, <4>1, <4>2
    <3>10. Packing(b)'
      BY <1>1, <1>6, <3>1, <3>3, <3>8, <3>9, SMTT(30) DEF Packing, Placed
    <3> QED
      BY <3>1, <3>4, <3>5, <3>10 DEF PlaceInv
  <2>4. CASE UpSize(b)
    <3>1. /\ up[b].pc \in {"size", "tailsize"} /\ UNCHANGED <<outQ, eosQ, packQ>>
          /\ up'[b].byteIdx = up[b].byteIdx
          /\ up'[b].pc = IF up[b].pc = "tailsize" THEN "end" ELSE "next"
      BY <1>2, <2>4 DEF UpSize, WrTyped, UpState
    <3>2. FlagsRead(b)' = FlagsRead(b) /\ WordsPacked(b)' = WordsPacked(b)
      BY <1>4, <3>1 DEF FlagsRead, WordsPacked
    <3>3. EngineSide(b)'
      BY <1>1, <1>3, <3>1 DEF EngineSide
    <3>4. UpSide(b)'
      BY <1>1, <1>3, <1>4, <3>1, <3>2 DEF UpSide, Closing
    <3>5. Packing(b)'
      BY <1>1, <1>3, <1>6, <3>1, <3>2 DEF Packing, Placed
    <3> QED
      BY <3>1, <3>3, <3>4, <3>5 DEF PlaceInv
  <2>5. CASE UpNext(b)
    <3>1. /\ up[b].pc = "next" /\ up'[b].pc = "flag" /\ up'[b].byteIdx = up[b].byteIdx + 1
          /\ outQ[b] # << >> /\ outQ'[b] = Tail(outQ[b]) /\ UNCHANGED <<eosQ, packQ>>
      BY <1>2, <2>5 DEF UpNext, WrTyped, UpState
    <3>2. Len(outQ'[b]) = Len(outQ[b]) - 1
      BY <1>2, <3>1, TailFacts
    <3>3. FlagsRead(b)' = FlagsRead(b) /\ WordsPacked(b)' = WordsPacked(b)
      BY <1>4, <3>1 DEF FlagsRead, WordsPacked
    <3>4. EngineSide(b)'
      BY <1>1, <1>3, <3>1 DEF EngineSide
    <3>5. UpSide(b)'
      <4>1. Given(b) = Len(outQ[b]) + FlagsRead(b) + 0
        BY <1>3, <3>1 DEF UpSide
      <4>2. Given(b) = (Len(outQ[b]) - 1) + FlagsRead(b) + 1
        BY <1>6, <4>1
      <4>3. FlagsRead(b) <= output[b].csize
        BY <1>3, <3>1 DEF UpSide, Closing
      <4> QED
        BY <1>1, <1>4, <3>1, <3>2, <3>3, <4>2, <4>3 DEF UpSide, Closing
    <3>6. Packing(b)'
      <4>1. /\ WordsPacked(b) * WordSize + up[b].byteIdx = FlagsRead(b) - 1
            /\ up[b].byteIdx < WordSize
        BY <1>3, <3>1 DEF Packing, Placed
      <4>2. /\ WordsPacked(b) * WordSize + (up[b].byteIdx + 1) = FlagsRead(b)
            /\ up[b].byteIdx + 1 <= WordSize
        <5>1. \A p, w, i \in Nat : \A r \in Int :
                p * w + i = r - 1 /\ i < w => p * w + (i + 1) = r /\ i + 1 <= w
          OBVIOUS
        <5> QED
          BY <1>6, <4>1, <5>1
      <4> QED
        BY <1>1, <1>3, <3>1, <3>3, <4>2 DEF Packing, Placed
    <3> QED
      BY <3>1, <3>4, <3>5, <3>6 DEF PlaceInv
  <2>6. CASE UpEnd(b)
    <3>1. /\ up[b].pc = "end" /\ up'[b].pc = "done" /\ up'[b].byteIdx = up[b].byteIdx
          /\ UNCHANGED <<outQ, eosQ, packQ>>
      BY <1>2, <2>6 DEF UpEnd, WrTyped, UpState
    <3>2. FlagsRead(b)' = FlagsRead(b) /\ WordsPacked(b)' = WordsPacked(b)
      BY <1>4, <3>1 DEF FlagsRead, WordsPacked
    <3>3. EngineSide(b)'
      BY <1>1, <1>3, <3>1 DEF EngineSide
    <3>4. UpSide(b)'
      BY <1>1, <1>3, <1>4, <3>1, <3>2 DEF UpSide, Closing
    <3>5. Packing(b)'
      BY <1>1, <1>3, <3>1, <3>2 DEF Packing
    <3> QED
      BY <3>1, <3>3, <3>4, <3>5 DEF PlaceInv
  <2> QED
    BY <2>1, <2>2, <2>3, <2>4, <2>5, <2>6 DEF UpSizer
<1>8. \A a \in Addresses :
        mem'[a] # Untouched => \E c \in Blocks : /\ a >= BaseAddr(c)'
                                                 /\ a < BaseAddr(c)' + WordsWritten(c)'
  BY <1>1, <1>4 DEF PlaceInv, BaseAddr
<1> QED
  BY <1>1, <1>5, <1>7, <1>8 DEF PlaceInv


(* What the writer has written grows by the word it writes.                *)
LEMMA WriterWords ==
    ASSUME WrInv, Writer
    PROVE  \A c \in Blocks :
             WordsWritten(c)' = WordsWritten(c) + (IF wr.pc = "burst" /\ c = wr.i THEN 1 ELSE 0)
<1> SUFFICES ASSUME NEW c \in Blocks
             PROVE  WordsWritten(c)' = WordsWritten(c) + (IF wr.pc = "burst" /\ c = wr.i THEN 1 ELSE 0)
  OBVIOUS
<1>0. \A w \in WrState : WrNextTurn(w).size = w.size /\ WrNextTurn(w).pc # "burst"
  BY DEF WrNextTurn, WrState
<1>1. /\ wr \in WrState /\ wr.i \in Blocks /\ wr.j \in Nat /\ wr.burst \in Nat
      /\ wr.size \in [Blocks -> Nat] /\ wr.size[c] \in Nat /\ wr.size[wr.i] \in Nat
      /\ burstQ[wr.i] \in Seq(Nat)
  BY DEF WrInv, WrTyped, WrState
<1>2. CASE WrPoll
  <2>1. wr.pc = "poll" /\ WordsWritten(c) = wr.size[c] + 0
    BY <1>2 DEF WrPoll, WordsWritten
  <2>2. wr'.size = wr.size /\ (wr'.pc = "burst" => wr'.j = 0)
    <3>1. CASE burstQ[wr.i] = << >>
      BY <1>0, <1>1, <1>2, <3>1 DEF WrPoll
    <3>2. CASE burstQ[wr.i] # << >>
      <4> DEFINE s == Head(burstQ[wr.i])
                 w == [wr EXCEPT !.pending[wr.i] = s > 0, !.j = 0, !.burst = Words(s)]
      <4>1. wr' = IF s > 0 THEN [w EXCEPT !.pc = "burst"] ELSE WrNextTurn(w)
        BY <1>2, <3>2 DEF WrPoll
      <4>2. s \in Nat
        BY <1>1, <3>2, TailFacts
      <4> HIDE DEF s
      <4>3. Words(s) \in Nat
        BY <4>2, WordsFacts
      <4>4. w \in WrState /\ w.size = wr.size /\ w.j = 0
        <5>1. [wr.pending EXCEPT ![wr.i] = s > 0] \in [Blocks -> BOOLEAN]
          BY <1>1 DEF WrState
        <5> QED
          BY <1>1, <4>3, <5>1 DEF WrState
      <4> HIDE DEF w
      <4>5. [w EXCEPT !.pc = "burst"].size = w.size /\ [w EXCEPT !.pc = "burst"].j = w.j
        BY <4>4 DEF WrState
      <4> QED
        BY <1>0, <4>1, <4>4, <4>5
    <3> QED
      BY <3>1, <3>2
  <2>3. WordsWritten(c)' = wr.size[c] + 0
    BY <2>2 DEF WordsWritten
  <2> QED
    BY <1>1, <2>1, <2>3
<1>3. CASE WrWord
  <2>1. wr.pc = "burst" /\ wr.j < wr.burst
    BY <1>3 DEF WrWord, WrInv
  <2>2. CASE wr.j + 1 < wr.burst
    <3>1. wr' = [wr EXCEPT !.j = wr.j + 1]
      BY <1>3, <2>2 DEF WrWord
    <3>2. wr'.pc = "burst" /\ wr'.i = wr.i /\ wr'.j = wr.j + 1 /\ wr'.size = wr.size
      BY <1>1, <2>1, <3>1 DEF WrState
    <3> QED
      <4>1. CASE c = wr.i
        <5>1. WordsWritten(c) = wr.size[c] + wr.j /\ WordsWritten(c)' = wr.size[c] + (wr.j + 1)
          BY <2>1, <3>2, <4>1 DEF WordsWritten
        <5>2. wr.size[c] + (wr.j + 1) = (wr.size[c] + wr.j) + 1
          BY <1>1
        <5> QED
          BY <2>1, <4>1, <5>1, <5>2
      <4>2. CASE c # wr.i
        BY <1>1, <2>1, <3>2, <4>2 DEF WordsWritten
      <4> QED
        BY <4>1, <4>2
  <2>3. CASE ~(wr.j + 1 < wr.burst)
    <3> DEFINE w == [wr EXCEPT !.size[wr.i] = SizeAfterBurst(wr)]
    <3>1. wr' = WrNextTurn(w)
      BY <1>3, <2>3 DEF WrWord
    <3>2. SizeAfterBurst(wr) = wr.size[wr.i] + (wr.j + 1)
      BY <1>1, <2>1, <2>3 DEF SizeAfterBurst
    <3>3. w \in WrState /\ w.size = [wr.size EXCEPT ![wr.i] = wr.size[wr.i] + (wr.j + 1)]
      <4>1. wr.size[wr.i] + (wr.j + 1) \in Nat
        BY <1>1
      <4> QED
        BY <1>1, <3>2, <4>1 DEF WrState
    <3> HIDE DEF w
    <3>4. wr'.pc # "burst" /\ wr'.size = [wr.size EXCEPT ![wr.i] = wr.size[wr.i] + (wr.j + 1)]
      BY <1>0, <3>1, <3>3
    <3> QED
      BY <1>1, <2>1, <3>4 DEF WordsWritten
  <2> QED
    BY <2>2, <2>3
<1>4. CASE WrTotal
  <2>1. wr.pc = "total" /\ (wr' = [wr EXCEPT !.i = wr.i + 1] \/ wr' = [wr EXCEPT !.pc = "done"])
    BY <1>4 DEF WrTotal
  <2>2. wr'.pc # "burst" /\ wr'.size = wr.size
    BY <1>1, <2>1 DEF WrState
  <2> QED
    BY <1>1, <2>1, <2>2 DEF WordsWritten
<1> QED
  BY <1>2, <1>3, <1>4 DEF Writer

LEMMA BasesTyped ==
    ASSUME PlaceInv, NEW b \in Blocks
    PROVE  BaseAddr(b) \in Nat
<1>1. output[b].base \in Nat
  BY WriterAssumption DEF PlaceInv, WriterAssumption, OutputRegion
<1>2. \A x, w \in Nat : w > 0 => x \div w \in Nat
  OBVIOUS
<1> QED
  BY <1>1, <1>2, WrConstants DEF BaseAddr

(* The next word of a block has room in its span, which is its own.        *)
LEMMA NextWordsRoom ==
    ASSUME WrInv, PlaceInv, WrWord
    PROVE  /\ BaseAddr(wr.i) \in Nat /\ WordsWritten(wr.i) \in Nat
           /\ BaseAddr(wr.i) + WordsWritten(wr.i) \in Span(output[wr.i])
           /\ BaseAddr(wr.i) + WordsWritten(wr.i) \in Addresses
           /\ mem[BaseAddr(wr.i) + WordsWritten(wr.i)] = Untouched
<1> PICK i \in Blocks : i = wr.i
  BY DEF WrInv, WrTyped, WrState
<1> DEFINE at == BaseAddr(i) + WordsWritten(i)
<1>1. /\ WordsWritten(i) \in Nat /\ Len(packQ[i]) \in Nat /\ packQ[i] \in Seq(Word)
      /\ output[i].csize \in Nat /\ output[i].size \in Nat
      /\ output[i].csize <= output[i].size
      /\ \A c \in Blocks : WordsWritten(c) \in Nat /\ WordsPacked(c) \in Nat
  BY PlaceTyped DEF WrInv
<1>2. \A c \in Blocks : /\ WordsPacked(c) <= WordsOf[output[c].size] /\ WordsWritten(c) <= WordsPacked(c)
                        /\ output[c].size \in Nat /\ WordsOf[output[c].size] \in Nat
                        /\ WordsOf[output[c].size] = Words(output[c].size)
  <2> SUFFICES ASSUME NEW c \in Blocks
               PROVE  /\ WordsPacked(c) <= WordsOf[output[c].size] /\ WordsWritten(c) <= WordsPacked(c)
                      /\ output[c].size \in Nat /\ WordsOf[output[c].size] \in Nat
                      /\ WordsOf[output[c].size] = Words(output[c].size)
    OBVIOUS
  <2>1. /\ WordsWritten(c) \in Nat /\ WordsPacked(c) \in Nat /\ Len(packQ[c]) \in Nat
        /\ output[c].csize \in Nat /\ output[c].size \in Nat
        /\ output[c].csize <= output[c].size
    BY PlaceTyped DEF WrInv
  <2>2. /\ WordsOf[output[c].size] \in Nat /\ WordsOf[output[c].csize] \in Nat
        /\ WordsOf[output[c].size] = Words(output[c].size)
    BY <2>1, WordsFacts
  <2>3. WordsOf[output[c].csize] <= WordsOf[output[c].size]
    BY <2>1, WordsEnough
  <2>4. WordsPacked(c) <= WordsOf[output[c].csize]
    BY DEF PlaceInv, Packing
  <2>5. WordsWritten(c) <= WordsPacked(c)
    BY <2>1 DEF WordsPacked
  <2> QED
    BY <2>1, <2>2, <2>3, <2>4, <2>5
<1>3. WordsWritten(i) < WordsOf[output[i].size]
  <2>1. Len(packQ[i]) > 0
    BY <1>1, TailFacts DEF WrWord
  <2>2. WordsWritten(i) < WordsPacked(i)
    BY <1>1, <2>1 DEF WordsPacked
  <2> QED
    BY <1>1, <1>2, <2>2
<1>4. \A c \in Blocks : BaseAddr(c) \in Nat
  BY BasesTyped
<1>5. \A c \in Blocks :
        /\ Span(output[c]) \subseteq Addresses
        /\ \A d \in Blocks \ {c} : Span(output[c]) \cap Span(output[d]) = {}
  BY WriterAssumption DEF PlaceInv, WriterAssumption
<1>6. \A c \in Blocks : \A a \in Int :
        a \in Span(output[c]) <=> a >= BaseAddr(c) /\ a < BaseAddr(c) + WordsOf[output[c].size]
  BY <1>2, <1>4 DEF Span, BaseAddr
<1>7. at \in Int /\ at >= BaseAddr(i) /\ at < BaseAddr(i) + WordsOf[output[i].size]
  BY <1>1, <1>2, <1>3, <1>4
<1>8. at \in Span(output[i])
  BY <1>6, <1>7
<1>9. at \in Addresses
  BY <1>5, <1>8
<1>10. mem[at] = Untouched
  <2> SUFFICES ASSUME mem[at] # Untouched PROVE FALSE
    OBVIOUS
  <2>1. PICK c \in Blocks : at >= BaseAddr(c) /\ at < BaseAddr(c) + WordsWritten(c)
    BY <1>9 DEF PlaceInv
  <2>2. at < BaseAddr(c) + WordsOf[output[c].size]
    BY <1>1, <1>2, <1>4, <1>7, <2>1, SMTT(30)
  <2>3. at \in Span(output[c])
    BY <1>6, <1>7, <2>1, <2>2
  <2>4. c = i
    BY <1>5, <1>8, <2>3
  <2> QED
    BY <1>1, <1>4, <2>1, <2>4
<1> QED
  BY <1>1, <1>4, <1>8, <1>9, <1>10

(* The address the writer computes is that of the next word.               *)
LEMMA WordWritten ==
    ASSUME WrInv, PlaceInv, WrWord
    PROVE  \E a \in Addresses, v \in Stored :
             /\ mem' = [mem EXCEPT ![a] = v] /\ v # Untouched /\ v[1] = wr.i
             /\ a = BaseAddr(wr.i) + WordsWritten(wr.i)
<1>1. /\ wr.i \in Blocks /\ wr.j \in Nat /\ wr.size[wr.i] \in Nat /\ packQ[wr.i] \in Seq(Word)
  BY DEF WrInv, WrTyped, WrState
<1>2. /\ wr.pc = "burst" /\ packQ[wr.i] # << >>
      /\ mem' = [mem EXCEPT ![BaseAddr(wr.i) + wr.size[wr.i] + wr.j] = <<wr.i, Head(packQ[wr.i])>>]
  BY DEF WrWord
<1>3. Head(packQ[wr.i]) \in Word
  BY <1>1, <1>2, TailFacts
<1>4. <<wr.i, Head(packQ[wr.i])>> \in Stored
  BY <1>1, <1>3 DEF Stored
<1>5. BaseAddr(wr.i) + wr.size[wr.i] + wr.j = BaseAddr(wr.i) + WordsWritten(wr.i)
  <2>1. BaseAddr(wr.i) \in Nat
    BY NextWordsRoom
  <2>2. WordsWritten(wr.i) = wr.size[wr.i] + wr.j
    BY <1>2 DEF WordsWritten
  <2> QED
    BY <1>1, <2>1, <2>2
<1>6. BaseAddr(wr.i) + WordsWritten(wr.i) \in Addresses
  BY NextWordsRoom
<1>7. <<wr.i, Head(packQ[wr.i])>> # Untouched /\ <<wr.i, Head(packQ[wr.i])>>[1] = wr.i
  BY DEF Untouched
<1> QED
  BY <1>2, <1>4, <1>5, <1>6, <1>7

LEMMA WriterKeepsPlace ==
    ASSUME WrInv, PlaceInv, Writer
    PROVE  PlaceInv'
<1> PICK i \in Blocks : i = wr.i
  BY DEF WrInv, WrTyped, WrState
<1>1. UNCHANGED <<output, eng, up, outQ, eosQ>>
  BY DEF Writer, WrPoll, WrWord, WrTotal
<1>2. \A c \in Blocks :
        WordsWritten(c)' = WordsWritten(c) + (IF wr.pc = "burst" /\ c = i THEN 1 ELSE 0)
  BY WriterWords
<1>3. \A c \in Blocks : /\ WordsWritten(c) \in Nat /\ packQ[c] \in Seq(Word)
                        /\ Len(packQ[c]) \in Nat /\ WordsPacked(c) \in Nat
  BY PlaceTyped DEF WrInv
<1>4. CASE wr.pc = "burst"
  <2>1. WrWord
    BY <1>4 DEF Writer, WrPoll, WrTotal
  <2>2. packQ[i] # << >> /\ packQ' = [packQ EXCEPT ![i] = Tail(packQ[i])]
    BY <2>1 DEF WrWord
  <2>3. \A c \in Blocks : WordsPacked(c)' = WordsPacked(c)
    <3> SUFFICES ASSUME NEW c \in Blocks PROVE WordsPacked(c)' = WordsPacked(c)
      OBVIOUS
    <3>1. CASE c = i
      <4>1. Len(packQ'[c]) = Len(packQ[c]) - 1
        BY <1>3, <2>2, <3>1, TailFacts DEF WrInv, WrTyped
      <4>2. WordsWritten(c)' = WordsWritten(c) + 1
        BY <1>2, <1>4, <3>1
      <4>3. (WordsWritten(c) + 1) + (Len(packQ[c]) - 1) = WordsWritten(c) + Len(packQ[c])
        BY <1>3
      <4> QED
        BY <4>1, <4>2, <4>3 DEF WordsPacked
    <3>2. CASE c # i
      <4>1. packQ'[c] = packQ[c]
        BY <2>2, <3>2 DEF WrInv, WrTyped
      <4>2. WordsWritten(c)' = WordsWritten(c)
        <5>1. WordsWritten(c)' = WordsWritten(c) + 0
          BY <1>2, <3>2
        <5> QED
          BY <1>3, <5>1
      <4> QED
        BY <4>1, <4>2 DEF WordsPacked
    <3> QED
      BY <3>1, <3>2
  <2>4. \A c \in Blocks : EngineSide(c)' /\ UpSide(c)' /\ Packing(c)'
    BY <1>1, <2>3, SidesStay DEF PlaceInv
  <2>5. PICK a \in Addresses, v \in Stored :
          /\ mem' = [mem EXCEPT ![a] = v] /\ v # Untouched
          /\ a = BaseAddr(i) + WordsWritten(i)
    BY <2>1, WordWritten
  <2>6. mem' \in [Addresses -> Stored]
    BY <2>5 DEF PlaceInv
  <2>7. BaseAddr(i) \in Nat /\ WordsWritten(i) \in Nat
    BY <2>1, NextWordsRoom
  <2>8. \A c \in Blocks : BaseAddr(c)' = BaseAddr(c)
    BY <1>1 DEF BaseAddr
  <2>9. ASSUME NEW d \in Addresses, mem'[d] # Untouched
        PROVE  \E c \in Blocks : d >= BaseAddr(c)' /\ d < BaseAddr(c)' + WordsWritten(c)'
    <3>1. CASE d = a
      <4>1. WordsWritten(i)' = WordsWritten(i) + 1
        BY <1>2, <1>4
      <4>2. d >= BaseAddr(i) /\ d < BaseAddr(i) + (WordsWritten(i) + 1)
        BY <2>5, <2>7, <3>1
      <4> QED
        BY <2>8, <4>1, <4>2
    <3>2. CASE d # a
      <4>1. mem[d] # Untouched
        BY <2>5, <2>9, <3>2 DEF PlaceInv
      <4>2. PICK c \in Blocks : d >= BaseAddr(c) /\ d < BaseAddr(c) + WordsWritten(c)
        BY <4>1 DEF PlaceInv
      <4>3. WordsWritten(c)' = WordsWritten(c) \/ WordsWritten(c)' = WordsWritten(c) + 1
        <5>1. WordsWritten(c) + 0 = WordsWritten(c)
          BY <1>3
        <5> QED
          BY <1>2, <5>1
      <4>4. BaseAddr(c) \in Nat /\ d \in Int
        BY BasesTyped DEF Addresses
      <4>5. d < BaseAddr(c) + WordsWritten(c)'
        BY <1>3, <4>2, <4>3, <4>4
      <4> QED
        BY <2>8, <4>2, <4>5
    <3> QED
      BY <3>1, <3>2
  <2> QED
    BY <1>1, <2>4, <2>6, <2>9 DEF PlaceInv
<1>5. CASE wr.pc # "burst"
  <2>1. UNCHANGED <<packQ, mem>>
    BY <1>5 DEF Writer, WrPoll, WrWord, WrTotal
  <2>2. \A c \in Blocks : WordsWritten(c)' = WordsWritten(c)
    <3>1. \A c \in Blocks : WordsWritten(c)' = WordsWritten(c) + 0
      BY <1>2, <1>5
    <3> QED
      BY <1>3, <3>1
  <2>3. \A c \in Blocks : WordsPacked(c)' = WordsPacked(c) /\ BaseAddr(c)' = BaseAddr(c)
    BY <1>1, <2>1, <2>2 DEF WordsPacked, BaseAddr
  <2>4. \A c \in Blocks : EngineSide(c)' /\ UpSide(c)' /\ Packing(c)'
    BY <1>1, <2>3, SidesStay DEF PlaceInv
  <2>5. ASSUME NEW d \in Addresses, mem'[d] # Untouched
        PROVE  \E c \in Blocks : d >= BaseAddr(c)' /\ d < BaseAddr(c)' + WordsWritten(c)'
    BY <2>1, <2>2, <2>3, <2>5 DEF PlaceInv
  <2> QED
    BY <1>1, <2>1, <2>4, <2>5 DEF PlaceInv
<1> QED
  BY <1>4, <1>5

LEMMA PlaceStep == WrInv /\ PlaceInv /\ [WrNext]_wrVars => PlaceInv'
<1> SUFFICES ASSUME WrInv, PlaceInv, [WrNext]_wrVars PROVE PlaceInv'
  OBVIOUS
<1>1. CASE UNCHANGED wrVars
  <2>1. UNCHANGED <<output, eng, up, wr, mem, outQ, eosQ, packQ>>
    BY <1>1 DEF wrVars, queues
  <2>2. \A c \in Blocks : /\ WordsWritten(c)' = WordsWritten(c) /\ WordsPacked(c)' = WordsPacked(c)
                          /\ BaseAddr(c)' = BaseAddr(c)
    BY <2>1 DEF WordsWritten, WordsPacked, BaseAddr
  <2>3. \A c \in Blocks : EngineSide(c)' /\ UpSide(c)' /\ Packing(c)'
    BY <2>1, <2>2, SidesStay DEF PlaceInv
  <2> QED
    BY <2>1, <2>2, <2>3 DEF PlaceInv
<1>2. CASE WrRest
  BY <1>1, <1>2 DEF WrRest
<1> QED
  BY <1>1, <1>2, EngineKeepsPlace, UpKeepsPlace, WriterKeepsPlace DEF WrNext, WrInv

LEMMA OnlyWordWrites ==
    ASSUME WrInv, PlaceInv, [WrNext]_wrVars, NEW a \in Addresses, mem'[a] # mem[a]
    PROVE  mem[a] = Untouched /\ \E b \in Blocks : mem'[a][1] = b /\ a \in Span(output[b])
<1>1. WrWord
  <2>1. ~UNCHANGED mem
    OBVIOUS
  <2> QED
    BY <2>1
    DEF WrNext, Engine, EngByte, EngTotal, EngPad, EngFlag, UpSizer, UpFirst, UpFlag, UpWord,
        UpSize, UpNext, UpEnd, UpOnly, Writer, WrPoll, WrTotal, WrRest, wrVars
<1>2. PICK at \in Addresses, v \in Stored :
        /\ mem' = [mem EXCEPT ![at] = v] /\ v[1] = wr.i
        /\ at = BaseAddr(wr.i) + WordsWritten(wr.i)
  BY <1>1, WordWritten
<1>3. a = at /\ mem'[a] = v
  BY <1>2 DEF PlaceInv
<1>4. wr.i \in Blocks
  BY DEF WrInv, WrTyped, WrState
<1> QED
  BY <1>1, <1>2, <1>3, <1>4, NextWordsRoom

(* No word of the output memory is written twice, and each is written for  *)
(* the block whose span it lies in: for any number of engines, however     *)
(* their bursts alternate, the writer never overwrites (multStream2MM).    *)
THEOREM WriterNeverOverwrites == WrSpec => WritesOnceInRegion
<1>1. WrInv /\ PlaceInv /\ [WrNext]_wrVars =>
        [\A a \in Addresses :
           mem'[a] # mem[a] => /\ mem[a] = Untouched
                               /\ \E b \in Blocks : mem'[a][1] = b /\ a \in Span(output[b])]_wrVars
  BY OnlyWordWrites
<1>2. WrInit => WrInv /\ PlaceInv
  BY WrInvInit, PlaceInit
<1>3. WrInv /\ PlaceInv /\ [WrNext]_wrVars => WrInv' /\ PlaceInv'
  BY WrInvStep, PlaceStep
<1> QED
  BY <1>1, <1>2, <1>3, PTL DEF WrSpec, WritesOnceInRegion
=============================================================================
