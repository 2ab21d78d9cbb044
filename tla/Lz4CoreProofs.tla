---------------------------- MODULE Lz4CoreProofs ----------------------------
(***************************************************************************)
(* Theorems about the engine and the match finder inside it, for all       *)
(* values of the constants.                                                *)
(*                                                                         *)
(* First about LzMatchFinder alone, for every block, every hash, every     *)
(* depth of the FIFOs and every delay of the dictionary: the records are   *)
(* true, the byte the booster compares with is the right one, and what     *)
(* comes out is a parse of the block.  The block is a parameter of the     *)
(* definitions there, so that a step, which leaves it alone, leaves alone  *)
(* what they say.                                                          *)
(*                                                                         *)
(* The byte a prefetch brings may have come too early, by at most BoostLag *)
(* stores. Remembers says what the memory holds, Sourced where the match   *)
(* being extended comes from, both whatever has happened; Parsed says what *)
(* has been sent, and only while no such byte has been compared with.      *)
(*                                                                         *)
(* Then about Lz4Core: the encoder works on records that the match finder  *)
(* is still producing, and the two never lose step.  The invariant of the  *)
(* encoder is that of Lz4CompressProofs, with other records ahead of       *)
(* Part1: not those of a block that was handed over in one piece, but      *)
(* those the booster has sent so far.  They lead to the position           *)
(* SizeOf(bst.sent), and each is true at its own position.  There no byte  *)
(* comes too early, by the assumption BoosterInOrder of that module.       *)
(***************************************************************************)
EXTENDS Lz4Core, Lz4CompressProofs

-----------------------------------------------------------------------------
(* The inductive invariant of the match finder *)

TextOK == text \in Seq(Byte) /\ (Len(text) = 0 \/ Len(text) >= LeftBytes + MatchLen)

(* An entry of the dictionary is a window of the block. *)
Entry == [win : Window, idx : Nat]
TrueEntry(t) ==
    {e \in Entry : /\ e.idx + MatchLen <= Len(t)
                   /\ \A m \in 1..MatchLen : e.win[m] = t[e.idx + m]}
Bucket(t) == Seq(TrueEntry(t))
Write(t) == [at : 0..DictSize - 1, bucket : Bucket(t)]

DictInv == dict \in [0..DictSize - 1 -> Bucket(text)] /\ late \in Seq(Write(text))

(* The k-th byte from position p on is the one that many bytes before.     *)
Agrees(t, p, off, k) == t[p + k + 1] = t[p + k - off]

(* A record at position p: what it says is true, and can be encoded.       *)
IsTrue(t, r, p) ==
    /\ r.ch = t[p + 1]
    /\ r.len > 0 => r.off < p /\ p + r.len <= Len(t) - LeftBytes
    /\ \A k \in 0..r.len - 1 : Agrees(t, p, r.off, k)
OffsetOK(r) == r.off >= MinOffset /\ r.off + 1 < OffsetLimit
Encodable(r) == r.len > 0 => r.len >= MinMatch /\ OffsetOK(r)
Fits(t, r, p) == r \in FinderRecord /\ IsTrue(t, r, p) /\ Encodable(r)
FitFrom(t, q, p) == q \in Seq(FinderRecord) /\ \A k \in 1..Len(q) : Fits(t, q[k], p + k - 1)

(* The bytes of q are those from p on, to the end; those of w end at p.    *)
RestOf(t, q, p) ==
    q \in Seq(Byte) /\ p + Len(q) = Len(t) /\ \A k \in 1..Len(q) : q[k] = t[p + k]
EndsAt(t, w, p) ==
    w \in Seq(Byte) /\ Len(w) <= p /\ \A k \in 1..Len(w) : w[k] = t[p - Len(w) + k]

(* lzCompress: the bytes it has read are in win or given on as records.    *)
BytesRead(z) == IF z.pc = "fill" THEN Len(z.win) ELSE z.i
LzPlace(z, total) ==
    /\ z.pc = "fill" => total > 0 /\ Len(z.win) < MatchLen - 1
    /\ z.pc = "scan" => /\ Len(z.win) = MatchLen - 1
                        /\ z.i >= MatchLen - 1 /\ z.i < total - LeftBytes
    /\ z.pc = "rest" => /\ Len(z.win) \in 1..MatchLen - 1
                        /\ total > 0 /\ z.i = total - LeftBytes
    /\ z.pc = "left" => Len(z.win) = 0 /\ z.i >= total - LeftBytes /\ z.i < total
    /\ z.pc = "done" => Len(z.win) = 0 /\ z.i = total
LzType == [pc : {"fill", "scan", "rest", "left", "done"}, i : Nat, win : Seq(Byte)]
LzInv ==
    /\ lz \in LzType
    /\ RestOf(text, inQ, BytesRead(lz)) /\ EndsAt(text, lz.win, BytesRead(lz))
    /\ LzPlace(lz, Len(text))

(* lzBestMatchFilter: the records it has read are in win or given on.      *)
FltPlace(f, total) ==
    /\ Len(f.win) <= f.i /\ f.i <= total
    /\ f.pc = "fill" => total > 0 /\ Len(f.win) = f.i /\ f.i < MatchLen
    /\ f.pc = "scan" => /\ total > 0 /\ Len(f.win) \in 1..MatchLen
                        /\ f.i < total => Len(f.win) = MatchLen
    /\ f.pc = "done" => Len(f.win) = 0 /\ f.i = total
FltType == [pc : {"fill", "scan", "done"}, i : Nat, win : Seq(FinderRecord)]
FltInv ==
    /\ flt \in FltType
    /\ FitFrom(text, flt.win, flt.i - Len(flt.win))
    /\ FltPlace(flt, Len(text))

CmpInv == FitFrom(text, cmpQ, flt.i) /\ flt.i + Len(cmpQ) = BytesRead(lz) - Len(lz.win)
BestInv == FitFrom(text, bestQ, bst.i) /\ bst.i + Len(bestQ) = flt.i - Len(flt.win)

(* lzBooster: sent covers the block up to the record in out. While a match *)
(* is being extended, out.len is what the filter said until the first byte *)
(* is added and counts the bytes from then on; the first MinMatch bytes of *)
(* it agree with their source in any case.                                 *)
Extending(t, b, p) ==
    /\ b.skip = 0 /\ b.out.len > 0
    /\ b.len \in 1..MaxMatchLen /\ b.i = p + b.len /\ (b.len >= 2 => b.out.len = b.len)
    /\ p + MinMatch <= Len(t) - LeftBytes
    /\ \A k \in 0..MinMatch - 1 : Agrees(t, p, b.out.off, k)
    /\ b.out.off < BoostWindow
    /\ b.loc = b.i - b.out.off - 1 /\ b.nextCh = t[b.loc + 1]
Passing(b, p) == b.i + b.skip = p + RecLen(b.out) /\ Encodable(b.out)
Open(t, b, p) ==
    /\ p < b.i /\ IsTrue(t, b.out, p)
    /\ b.out.len > 0 => OffsetOK(b.out)
    /\ IF b.flag THEN Extending(t, b, p) ELSE Passing(b, p)
NoneOpen(b) == b.sent = << >> /\ b.skip = 0 /\ ~b.flag

(* The source of an open match lies in the window. What is fetched from it *)
(* is right where no later store can have overtaken the prefetch.          *)
Sourced(t, b) ==
    /\ b.skip = 0 /\ b.out.len > 0 /\ OffsetOK(b.out) /\ b.out.off < BoostWindow
    /\ b.loc = b.i - b.out.off - 1 /\ b.loc >= 0
    /\ b.out.off + BoostLag < BoostWindow => b.nextCh = t[b.loc + 1]

(* What the booster has sent and what it holds, in the part of a call      *)
(* before a match is compared with a byte that came too early.             *)
Parsed(t, b) ==
    IF b.pc \in {"scan", "flush"}
    THEN IF b.i = 0 THEN NoneOpen(b) ELSE Open(t, b, SizeOf(b.sent))
    ELSE SizeOf(b.sent) = b.i

Remembers(t, b) ==
    \A j \in 0..b.i - 1 : j >= b.i - BoostWindow => b.mem[Slot(j)] = t[j + 1]

BstType ==
    [pc : {"scan", "flush", "left", "done"}, i : Nat, mem : [0..BoostWindow - 1 -> Byte],
     loc : Int, len : Nat, flag : BOOLEAN, skip : Nat, nextCh : Byte,
     out : FinderRecord, sent : Seq(FinderRecord), overtaken : BOOLEAN]
BstPlace(b, total) ==
    /\ b.pc = "scan" => b.i < total - LeftBytes
    /\ b.pc = "flush" => total > 0 /\ b.i = total - LeftBytes
    /\ b.pc = "left" => b.i >= total - LeftBytes /\ b.i < total
    /\ b.pc = "done" => b.i = total
BstInv ==
    /\ bst \in BstType
    /\ BstPlace(bst, Len(text))
    /\ bst.pc = "scan" => Remembers(text, bst) /\ (bst.flag => Sourced(text, bst))
    /\ ~bst.overtaken => Parsed(text, bst)

FinderInv == TextOK /\ DictInv /\ LzInv /\ CmpInv /\ FltInv /\ BestInv /\ BstInv

-----------------------------------------------------------------------------
(* Facts about numbers and sequences *)

LEMMA Constants ==
    /\ MatchLen \in Nat /\ MatchLen >= 2 /\ MatchLevel \in Nat /\ MatchLevel > 0
    /\ LeftBytes \in Nat /\ LeftBytes > 0 /\ MinMatch \in Nat /\ MinMatch > 0
    /\ MinMatch <= MatchLen /\ MaxMatchLen \in Nat /\ MaxMatchLen >= MatchLen
    /\ MinOffset \in Nat /\ MinOffset > 0 /\ OffsetLimit \in Nat
    /\ BoostWindow \in Nat /\ BoostWindow > 0 /\ BoostLag \in Nat /\ DictSize \in Nat
    /\ \A w \in Window : Hash(w) \in 0..DictSize - 1
BY FinderAssumption, FormatAssumption DEF FinderAssumption, FormatAssumption

LEMMA LeastOf ==
    ASSUME NEW T \in SUBSET Nat, T # {}
    PROVE  \E x \in T : \A y \in T : x <= y
<1> DEFINE R == OpToRel(<, Nat)
<1>1. IsWellFoundedOn(R, Nat)
  BY NatLessThanWellFounded
<1>2. PICK x \in T : \A y \in T : ~(<<y, x>> \in R)
  <2> HIDE DEF R
  <2> QED
    BY <1>1, WFMin
<1>3. \A y \in T : ~(y < x)
  BY <1>2 DEF OpToRel
<1> QED
  BY <1>3

LEMMA Greatest ==
    ASSUME NEW b \in Nat, NEW T \in SUBSET (0..b), T # {}
    PROVE  \E x \in T : \A y \in T : y <= x
<1> DEFINE U == {m \in Nat : b - m \in T}
<1>1. PICK y \in T : TRUE
  OBVIOUS
<1>2. b - y \in U
  OBVIOUS
<1>3. PICK m \in U : \A k \in U : m <= k
  <2> U \in SUBSET Nat /\ U # {}
    BY <1>2
  <2> HIDE DEF U
  <2> QED
    BY LeastOf
<1>4. b - m \in T
  OBVIOUS
<1>5. ASSUME NEW z \in T PROVE z <= b - m
  <2>1. b - z \in U
    OBVIOUS
  <2>2. m <= b - z
    BY <1>3, <2>1
  <2> QED
    BY <2>2
<1> QED
  BY <1>4, <1>5

LEMMA AppendFacts ==
    ASSUME NEW S, NEW s \in Seq(S), NEW e \in S
    PROVE  /\ Append(s, e) \in Seq(S)
           /\ Len(s) \in Nat
           /\ Len(Append(s, e)) = Len(s) + 1
           /\ Append(s, e)[Len(s) + 1] = e
           /\ \A k \in 1..Len(s) : Append(s, e)[k] = s[k]
OBVIOUS

LEMMA TailFacts ==
    ASSUME NEW S, NEW s \in Seq(S), s # << >>
    PROVE  /\ Tail(s) \in Seq(S) /\ Head(s) \in S /\ Head(s) = s[1]
           /\ Len(s) \in Nat /\ Len(s) > 0 /\ Len(Tail(s)) = Len(s) - 1
           /\ \A k \in 1..Len(Tail(s)) : Tail(s)[k] = s[k + 1]
OBVIOUS

(* Places of a cyclic memory less than its size apart are different.       *)
LEMMA ApartInMemory ==
    ASSUME NEW w \in Nat, w > 0, NEW i \in Nat, NEW j \in Nat, i < j, j - i < w
    PROVE  i % w # j % w
<1>1. i = w * (i \div w) + (i % w) /\ j = w * (j \div w) + (j % w)
  OBVIOUS
<1>2. i \div w \in Int /\ j \div w \in Int /\ i % w \in Int
  OBVIOUS
<1> DEFINE q == i \div w
           r == j \div w
<1>3. ASSUME i % w = j % w PROVE j - i = w * (r - q)
  <2>1. w * (r - q) = w * r - w * q
    BY <1>2
  <2> QED
    BY <1>1, <1>2, <1>3, <2>1
<1>4. r - q \in Int
  BY <1>2
<1> HIDE DEF q, r
<1>5. \A d \in Int : d <= 0 => w * d <= 0
  OBVIOUS
<1>6. \A d \in Int : d >= 1 => w * d >= w
  OBVIOUS
<1> QED
  BY <1>3, <1>4, <1>5, <1>6

(* A number and what is one turn below it leave the same remainder. *)
LEMMA OneTurnOn ==
    ASSUME NEW d \in Nat, d > 0, NEW k \in Nat, k >= d
    PROVE  (k - d) % d = k % d
<1> DEFINE j == k - d
           q == k \div d
           r == j \div d
<1>0. j \in Nat
  OBVIOUS
<1>1. j = d * r + (j % d) /\ k = d * q + (k % d)
  BY <1>0
<1>2. q \in Int /\ r \in Int /\ j % d \in 0..d - 1 /\ k % d \in 0..d - 1
  BY <1>0
<1>3. d * (r + 1) = d * r + d
  BY <1>2
<1> HIDE DEF q, r
<1>4. d * ((r + 1) - q) = d * (r + 1) - d * q
  BY <1>2
<1>5. d * ((r + 1) - q) = (k % d) - (j % d)
  BY <1>0, <1>1, <1>2, <1>3, <1>4
<1>6. \A m \in Int : m <= -1 => d * m <= -d
  OBVIOUS
<1>7. \A m \in Int : m >= 1 => d * m >= d
  OBVIOUS
<1>8. (r + 1) - q \in Int
  BY <1>2
<1>9. (r + 1) - q = 0
  <2> DEFINE m == (r + 1) - q
  <2>1. m \in Int /\ d * m < d /\ d * m > -d
    BY <1>2, <1>5, <1>8
  <2> HIDE DEF m
  <2>2. m = 0
    BY <2>1, <1>6, <1>7
  <2> QED
    BY <2>2 DEF m
<1>10. d * ((r + 1) - q) = 0
  BY <1>9
<1> QED
  BY <1>2, <1>5, <1>10

(* A copy that overlaps itself repeats its source: where the k-th byte of  *)
(* a match at p comes from in the end.                                     *)
Source(p, off, k) == p - off + (k % (off + 1))

LEMMA Periodic ==
    ASSUME NEW t, NEW p \in Nat, NEW off \in Nat, NEW len \in Nat,
           \A k \in 0..len - 1 : Agrees(t, p, off, k)
    PROVE  \A k \in 0..len - 1 : t[p + k + 1] = t[Source(p, off, k)]
<1> DEFINE d == off + 1
           bad == {k \in Nat : k < len /\ t[p + k + 1] # t[p - off + (k % d)]}
<1>1. d \in Nat /\ d > 0
  OBVIOUS
<1>2. ASSUME bad # {} PROVE FALSE
  <2>1. PICK k \in bad : \A m \in bad : k <= m
    <3>1. bad \in SUBSET Nat /\ bad # {}
      BY <1>2
    <3> HIDE DEF bad
    <3> QED
      BY <3>1, LeastOf
  <2>2. k \in Nat /\ k < len /\ t[p + k + 1] # t[p - off + (k % d)]
    OBVIOUS
  <2>3. t[p + k + 1] = t[p + k - off]
    BY <2>2 DEF Agrees
  <2>4. CASE k < d
    <3>1. k % d = k
      BY <2>2, <2>4, <1>1
    <3> QED
      BY <2>2, <2>3, <3>1
  <2>5. CASE k >= d
    <3>1. k - d \in Nat /\ k - d < len /\ (k - d) % d = k % d
      <4>1. k - d \in Nat /\ k - d < len
        BY <2>2, <2>5, <1>1
      <4>2. (k - d) % d = k % d
        BY <2>2, <2>5, <1>1, OneTurnOn
      <4> QED
        BY <4>1, <4>2
    <3>2. k - d \notin bad
      <4>1. ~(k <= k - d)
        BY <1>1, <2>2
      <4> QED
        BY <2>1, <4>1
    <3>3. t[p + (k - d) + 1] = t[p - off + ((k - d) % d)]
      BY <3>1, <3>2
    <3>4. p + (k - d) + 1 = p + k - off
      BY <2>2
    <3> QED
      BY <2>2, <2>3, <3>1, <3>3, <3>4
  <2> QED
    BY <1>1, <2>2, <2>4, <2>5
<1>3. ASSUME NEW k \in 0..len - 1 PROVE t[p + k + 1] = t[p - off + (k % d)]
  <2>1. k \in Nat /\ k < len
    OBVIOUS
  <2>2. k \notin bad
    <3> HIDE DEF bad
    <3> QED
      BY <1>2
  <2> QED
    BY <2>1, <2>2
<1> QED
  BY <1>3 DEF Source

-----------------------------------------------------------------------------
(* How many bytes a sequence of records stands for *)

LEMMA RecLenFacts ==
    ASSUME NEW r \in FinderRecord
    PROVE  RecLen(r) \in Nat /\ RecLen(r) > 0 /\ (r.len = 0 => RecLen(r) = 1)
                             /\ (r.len > 0 => RecLen(r) = r.len)
<1>1. r.len \in Nat
  BY Constants DEF FinderRecord
<1> QED
  BY <1>1 DEF RecLen

(* f[k] counts the bytes of the first k records of s, of which there are m *)
(* at least.                                                               *)
PartialSizes(s, m, f) ==
    /\ f \in [0..m -> Nat] /\ f[0] = 0
    /\ \A k \in 1..m : f[k] = f[k - 1] + RecLen(s[k])

LEMMA SizesExist ==
    ASSUME NEW s \in Seq(FinderRecord)
    PROVE  \E f : PartialSizes(s, Len(s), f)
<1> DEFINE bad == {m \in Nat : m <= Len(s) /\ ~\E f : PartialSizes(s, m, f)}
<1>1. Len(s) \in Nat
  OBVIOUS
<1>2. ASSUME bad # {} PROVE FALSE
  <2>1. PICK m \in bad : \A y \in bad : m <= y
    <3>1. bad \in SUBSET Nat
      OBVIOUS
    <3> HIDE DEF bad
    <3> QED
      BY <1>2, <3>1, LeastOf
  <2>2. m \in Nat /\ m <= Len(s) /\ ~\E f : PartialSizes(s, m, f)
    OBVIOUS
  <2>3. m # 0
    <3> DEFINE f == [k \in 0..0 |-> 0]
    <3>1. f \in [0..0 -> Nat] /\ f[0] = 0 /\ \A k \in 1..0 : FALSE
      OBVIOUS
    <3> HIDE DEF f
    <3>2. PartialSizes(s, 0, f)
      BY <3>1 DEF PartialSizes
    <3> QED
      BY <2>2, <3>2
  <2>4. m - 1 \in Nat /\ m - 1 \notin bad
    BY <2>1, <2>2, <2>3
  <2>5. PICK f : PartialSizes(s, m - 1, f)
    BY <2>2, <2>4
  <2> DEFINE g == [k \in 0..m |-> IF k = m THEN f[m - 1] + RecLen(s[m]) ELSE f[k]]
  <2>6. s[m] \in FinderRecord
    BY <2>2, <2>3, <1>1
  <2>7. RecLen(s[m]) \in Nat
    BY <2>6, RecLenFacts
  <2>8. /\ f \in [0..m - 1 -> Nat] /\ f[0] = 0
        /\ \A k \in 1..m - 1 : f[k] = f[k - 1] + RecLen(s[k])
    BY <2>5 DEF PartialSizes
  <2> HIDE DEF bad
  <2>9. g \in [0..m -> Nat]
    BY <2>2, <2>3, <2>7, <2>8
  <2>10. g[0] = 0
    BY <2>2, <2>3, <2>8
  <2>11. ASSUME NEW k \in 1..m PROVE g[k] = g[k - 1] + RecLen(s[k])
    <3>1. g[k - 1] = f[k - 1]
      BY <2>2
    <3>2. CASE k = m
      BY <2>2, <3>1, <3>2
    <3>3. CASE k # m
      <4>1. k \in 1..m - 1 /\ g[k] = f[k]
        BY <2>2, <3>3
      <4>2. f[k] = f[k - 1] + RecLen(s[k])
        BY <2>8, <4>1
      <4> HIDE DEF g
      <4> QED
        BY <3>1, <4>1, <4>2
    <3> QED
      BY <3>2, <3>3
  <2> HIDE DEF g
  <2>12. PartialSizes(s, m, g)
    BY <2>9, <2>10, <2>11 DEF PartialSizes
  <2> QED
    BY <2>2, <2>12
<1>3. Len(s) \notin bad
  <2> HIDE DEF bad
  <2> QED
    BY <1>2
<1> QED
  BY <1>1, <1>3

(* The recursion SizeOf is defined with. *)
Sums(s, f) == f = [k \in 0..Len(s) |-> IF k = 0 THEN 0 ELSE f[k - 1] + RecLen(s[k])]

LEMMA SumsUnique ==
    ASSUME NEW s \in Seq(FinderRecord), NEW f, NEW g, Sums(s, f), Sums(s, g)
    PROVE  f[Len(s)] = g[Len(s)]
<1> DEFINE differ == {m \in Nat : m <= Len(s) /\ f[m] # g[m]}
<1>1. Len(s) \in Nat
  OBVIOUS
<1>2. f[0] = 0 /\ g[0] = 0
  BY <1>1 DEF Sums
<1>3. ASSUME NEW k \in 1..Len(s)
      PROVE  f[k] = f[k - 1] + RecLen(s[k]) /\ g[k] = g[k - 1] + RecLen(s[k])
  <2>1. k \in 0..Len(s) /\ k # 0
    BY <1>1
  <2>2. ASSUME NEW h, Sums(s, h) PROVE h[k] = h[k - 1] + RecLen(s[k])
    <3>1. h[k] = IF k = 0 THEN 0 ELSE h[k - 1] + RecLen(s[k])
      BY <2>1, <2>2, Zenon DEF Sums
    <3> QED
      BY <2>1, <3>1, Zenon
  <2> QED
    BY <2>2
<1>4. ASSUME differ # {} PROVE FALSE
  <2>1. PICK x \in differ : \A y \in differ : x <= y
    <3>1. differ \in SUBSET Nat
      OBVIOUS
    <3> HIDE DEF differ
    <3> QED
      BY <1>4, <3>1, LeastOf
  <2>2. x \in Nat /\ x <= Len(s) /\ f[x] # g[x]
    OBVIOUS
  <2>3. x # 0
    BY <1>2, <2>2
  <2>4. x - 1 \in Nat /\ x - 1 <= Len(s) /\ x - 1 \notin differ
    BY <1>1, <2>1, <2>2, <2>3
  <2>5. f[x - 1] = g[x - 1]
    BY <2>4
  <2>6. f[x] = g[x]
    BY <1>1, <1>3, <2>2, <2>3, <2>5
  <2> QED
    BY <2>2, <2>6
<1>5. Len(s) \notin differ
  <2> HIDE DEF differ
  <2> QED
    BY <1>4
<1> QED
  BY <1>1, <1>5

LEMMA SizeOfIs ==
    ASSUME NEW s \in Seq(FinderRecord), NEW f, PartialSizes(s, Len(s), f)
    PROVE  SizeOf(s) = f[Len(s)]
<1>1. Sums(s, f)
  <2>1. ASSUME NEW k \in 0..Len(s)
        PROVE  f[k] = IF k = 0 THEN 0 ELSE f[k - 1] + RecLen(s[k])
    BY DEF PartialSizes
  <2>2. f \in [0..Len(s) -> Nat]
    BY DEF PartialSizes
  <2> QED
    BY <2>1, <2>2 DEF Sums
<1> DEFINE upto == CHOOSE g : Sums(s, g)
<1>2. Sums(s, upto)
  BY <1>1
<1>3. SizeOf(s) = upto[Len(s)]
  BY DEF SizeOf, Sums
<1> HIDE DEF upto
<1> QED
  BY <1>1, <1>2, <1>3, SumsUnique

LEMMA SizeOfNone == SizeOf(<< >>) = 0
<1>1. << >> \in Seq(FinderRecord) /\ Len(<< >>) = 0
  OBVIOUS
<1>2. PICK f : PartialSizes(<< >>, 0, f)
  BY <1>1, SizesExist
<1> QED
  BY <1>1, <1>2, SizeOfIs DEF PartialSizes

LEMMA SizeOfMore ==
    ASSUME NEW s \in Seq(FinderRecord), NEW r \in FinderRecord
    PROVE  SizeOf(s) \in Nat /\ SizeOf(Append(s, r)) = SizeOf(s) + RecLen(r)
<1> DEFINE m == Len(s)
           more == Append(s, r)
<1>1. /\ more \in Seq(FinderRecord) /\ m \in Nat /\ Len(more) = m + 1
      /\ more[m + 1] = r /\ \A k \in 1..m : more[k] = s[k]
  BY AppendFacts
<1>2. PICK f : PartialSizes(more, m + 1, f)
  BY <1>1, SizesExist
<1> HIDE DEF more
<1>3. /\ f \in [0..m + 1 -> Nat] /\ f[0] = 0
      /\ \A k \in 1..m + 1 : f[k] = f[k - 1] + RecLen(more[k])
  BY <1>2 DEF PartialSizes
<1> DEFINE g == [k \in 0..m |-> f[k]]
<1>4. g \in [0..m -> Nat] /\ g[0] = 0 /\ g[m] = f[m]
  BY <1>1, <1>3
<1>5. ASSUME NEW k \in 1..m PROVE g[k] = g[k - 1] + RecLen(s[k])
  <2>1. g[k] = f[k] /\ g[k - 1] = f[k - 1]
    BY <1>1
  <2>2. f[k] = f[k - 1] + RecLen(more[k]) /\ more[k] = s[k]
    BY <1>1, <1>3
  <2> HIDE DEF g
  <2> QED
    BY <2>1, <2>2
<1> HIDE DEF g
<1>6. PartialSizes(s, Len(s), g)
  BY <1>4, <1>5 DEF PartialSizes
<1>7. SizeOf(s) = f[m]
  BY <1>4, <1>6, SizeOfIs
<1>8. SizeOf(more) = f[m + 1]
  BY <1>1, <1>2, SizeOfIs
<1>9. f[m + 1] = f[m] + RecLen(r) /\ f[m] \in Nat
  <2>1. m + 1 \in 1..m + 1 /\ (m + 1) - 1 = m /\ m \in 0..m + 1
    BY <1>1
  <2>2. f[m + 1] = f[(m + 1) - 1] + RecLen(more[m + 1])
    BY <1>3, <2>1
  <2> QED
    BY <1>1, <1>3, <2>1, <2>2
<1> QED
  BY <1>7, <1>8, <1>9 DEF more

-----------------------------------------------------------------------------
(* What a FIFO says, and a window, when something enters or leaves it *)

LEMMA FitNone == ASSUME NEW t, NEW p PROVE FitFrom(t, << >>, p)
BY DEF FitFrom

LEMMA FitMore ==
    ASSUME NEW t, NEW p \in Nat, NEW q, FitFrom(t, q, p), NEW r, Fits(t, r, p + Len(q))
    PROVE  FitFrom(t, Append(q, r), p)
<1>1. r \in FinderRecord /\ q \in Seq(FinderRecord)
  BY DEF Fits, FitFrom
<1> DEFINE more == Append(q, r)
<1>2. /\ more \in Seq(FinderRecord) /\ Len(q) \in Nat /\ Len(more) = Len(q) + 1
      /\ more[Len(q) + 1] = r /\ \A k \in 1..Len(q) : more[k] = q[k]
  BY <1>1, AppendFacts
<1> HIDE DEF more
<1>3. ASSUME NEW k \in 1..Len(more) PROVE Fits(t, more[k], p + k - 1)
  <2>1. CASE k = Len(q) + 1
    <3>1. p + k - 1 = p + Len(q) /\ more[k] = r
      BY <2>1, <1>2
    <3> QED
      BY <3>1
  <2>2. CASE k \in 1..Len(q)
    BY <2>2, <1>2 DEF FitFrom
  <2> QED
    BY <1>2, <2>1, <2>2
<1>4. FitFrom(t, more, p)
  BY <1>2, <1>3 DEF FitFrom
<1> QED
  BY <1>4 DEF more

LEMMA FitLess ==
    ASSUME NEW t, NEW p \in Nat, NEW q, FitFrom(t, q, p), q # << >>
    PROVE  /\ FitFrom(t, Tail(q), p + 1) /\ Fits(t, Head(q), p) /\ Head(q) \in FinderRecord
           /\ Len(q) \in Nat /\ Len(q) > 0 /\ Len(Tail(q)) = Len(q) - 1
<1> DEFINE less == Tail(q)
<1>1. q \in Seq(FinderRecord) /\ \A k \in 1..Len(q) : Fits(t, q[k], p + k - 1)
  BY DEF FitFrom
<1>2. /\ less \in Seq(FinderRecord) /\ Head(q) \in FinderRecord /\ Head(q) = q[1]
      /\ Len(q) \in Nat /\ Len(q) > 0 /\ Len(less) = Len(q) - 1
      /\ \A k \in 1..Len(less) : less[k] = q[k + 1]
  BY <1>1, TailFacts
<1> HIDE DEF less
<1>3. Fits(t, Head(q), p)
  <2>1. Fits(t, q[1], p + 1 - 1) /\ p + 1 - 1 = p
    BY <1>1, <1>2
  <2> QED
    BY <1>2, <2>1
<1>4. ASSUME NEW k \in 1..Len(less) PROVE Fits(t, less[k], (p + 1) + k - 1)
  <2>1. k + 1 \in 1..Len(q) /\ p + (k + 1) - 1 = (p + 1) + k - 1
    BY <1>2
  <2>2. Fits(t, q[k + 1], p + (k + 1) - 1)
    BY <1>1, <2>1
  <2> QED
    BY <1>2, <2>1, <2>2
<1>5. FitFrom(t, less, p + 1)
  BY <1>2, <1>4 DEF FitFrom
<1> QED
  BY <1>2, <1>3, <1>5 DEF less

LEMMA RestLess ==
    ASSUME NEW t \in Seq(Byte), NEW p \in Nat, NEW q, RestOf(t, q, p), q # << >>
    PROVE  /\ RestOf(t, Tail(q), p + 1) /\ Head(q) = t[p + 1] /\ Head(q) \in Byte
           /\ p < Len(t) /\ Len(t) \in Nat
<1> DEFINE less == Tail(q)
<1>1. q \in Seq(Byte) /\ p + Len(q) = Len(t) /\ \A k \in 1..Len(q) : q[k] = t[p + k]
  BY DEF RestOf
<1>2. /\ less \in Seq(Byte) /\ Head(q) \in Byte /\ Head(q) = q[1]
      /\ Len(q) \in Nat /\ Len(q) > 0 /\ Len(less) = Len(q) - 1
      /\ \A k \in 1..Len(less) : less[k] = q[k + 1]
  BY <1>1, TailFacts
<1> HIDE DEF less
<1>3. ASSUME NEW k \in 1..Len(less) PROVE less[k] = t[(p + 1) + k]
  <2>1. k + 1 \in 1..Len(q) /\ p + (k + 1) = (p + 1) + k
    BY <1>2
  <2>2. q[k + 1] = t[p + (k + 1)]
    BY <1>1, <2>1
  <2> QED
    BY <1>2, <2>1, <2>2
<1>4. RestOf(t, less, p + 1)
  <2>1. (p + 1) + Len(less) = Len(t)
    <3>1. Len(t) \in Nat /\ p + Len(q) = Len(t)
      BY <1>1
    <3> QED
      BY <1>2, <3>1
  <2> QED
    BY <1>2, <1>3, <2>1 DEF RestOf
<1>5. Len(t) \in Nat
  OBVIOUS
<1> QED
  BY <1>1, <1>2, <1>4, <1>5 DEF less

LEMMA EndsMore ==
    ASSUME NEW t, NEW p \in Nat, NEW w, EndsAt(t, w, p), NEW e \in Byte, e = t[p + 1]
    PROVE  EndsAt(t, Append(w, e), p + 1) /\ Len(Append(w, e)) = Len(w) + 1
<1> DEFINE more == Append(w, e)
<1>1. w \in Seq(Byte) /\ Len(w) <= p /\ \A k \in 1..Len(w) : w[k] = t[p - Len(w) + k]
  BY DEF EndsAt
<1>2. /\ more \in Seq(Byte) /\ Len(w) \in Nat /\ Len(more) = Len(w) + 1
      /\ more[Len(w) + 1] = e /\ \A k \in 1..Len(w) : more[k] = w[k]
  BY <1>1, AppendFacts
<1> HIDE DEF more
<1>3. ASSUME NEW k \in 1..Len(more) PROVE more[k] = t[(p + 1) - Len(more) + k]
  <2>1. (p + 1) - Len(more) + k = p - Len(w) + k
    BY <1>2
  <2>2. CASE k = Len(w) + 1
    <3>1. p - Len(w) + k = p + 1 /\ more[k] = e
      BY <2>2, <1>2
    <3> QED
      BY <2>1, <3>1
  <2>3. CASE k \in 1..Len(w)
    BY <1>1, <1>2, <2>1, <2>3
  <2> QED
    BY <1>2, <2>2, <2>3
<1>4. EndsAt(t, more, p + 1)
  BY <1>1, <1>2, <1>3 DEF EndsAt
<1> QED
  BY <1>2, <1>4 DEF more

LEMMA EndsLess ==
    ASSUME NEW t, NEW p \in Nat, NEW w, EndsAt(t, w, p), w # << >>
    PROVE  /\ EndsAt(t, Tail(w), p) /\ Head(w) = t[p - Len(w) + 1] /\ Head(w) \in Byte
           /\ Len(w) \in Nat /\ Len(w) > 0 /\ Len(w) <= p /\ Len(Tail(w)) = Len(w) - 1
<1> DEFINE less == Tail(w)
<1>1. w \in Seq(Byte) /\ Len(w) <= p /\ \A k \in 1..Len(w) : w[k] = t[p - Len(w) + k]
  BY DEF EndsAt
<1>2. /\ less \in Seq(Byte) /\ Head(w) \in Byte /\ Head(w) = w[1]
      /\ Len(w) \in Nat /\ Len(w) > 0 /\ Len(less) = Len(w) - 1
      /\ \A k \in 1..Len(less) : less[k] = w[k + 1]
  BY <1>1, TailFacts
<1> HIDE DEF less
<1>3. ASSUME NEW k \in 1..Len(less) PROVE less[k] = t[p - Len(less) + k]
  <2>1. k + 1 \in 1..Len(w) /\ p - Len(less) + k = p - Len(w) + (k + 1)
    BY <1>2
  <2>2. w[k + 1] = t[p - Len(w) + (k + 1)]
    BY <1>1, <2>1
  <2> QED
    BY <1>2, <2>1, <2>2
<1>4. EndsAt(t, less, p)
  BY <1>1, <1>2, <1>3 DEF EndsAt
<1> QED
  BY <1>1, <1>2, <1>4 DEF less

LEMMA LiteralFits ==
    ASSUME NEW t, NEW p \in Nat, NEW c \in Byte, c = t[p + 1]
    PROVE  Fits(t, Literal(c), p) /\ Literal(c) \in FinderRecord /\ Literal(c).len = 0
                                  /\ Literal(c).ch = c
<1> DEFINE r == Literal(c)
<1>1. r \in FinderRecord /\ r.ch = c /\ r.len = 0
  BY Constants DEF Literal, FinderRecord
<1> HIDE DEF r
<1>2. IsTrue(t, r, p)
  BY <1>1 DEF IsTrue
<1>3. Encodable(r)
  BY <1>1 DEF Encodable
<1> QED
  BY <1>1, <1>2, <1>3 DEF Fits, r

-----------------------------------------------------------------------------
(* The dictionary *)

LEMMA CommonLenFacts ==
    ASSUME NEW v \in Window, NEW w \in Window
    PROVE  /\ CommonLen(v, w) \in 0..MatchLen
           /\ \A m \in 1..CommonLen(v, w) : v[m] = w[m]
<1> DEFINE IsCommon(k) == /\ \A m \in 1..k : v[m] = w[m]
                          /\ k < MatchLen => v[k + 1] # w[k + 1]
           differ == {k \in Nat : k >= MatchLen \/ v[k + 1] # w[k + 1]}
<1>1. MatchLen \in Nat
  BY Constants
<1>2. MatchLen \in differ /\ differ \in SUBSET Nat
  BY <1>1
<1>3. PICK k \in differ : \A y \in differ : k <= y
  <2> HIDE DEF differ
  <2> QED
    BY <1>2, LeastOf
<1>4. k \in 0..MatchLen
  BY <1>1, <1>2, <1>3
<1>5. ASSUME NEW m \in 1..k PROVE v[m] = w[m]
  <2>1. m - 1 \in Nat /\ m - 1 \notin differ /\ (m - 1) + 1 = m
    BY <1>3, <1>4
  <2> QED
    BY <2>1
<1>6. IsCommon(k)
  BY <1>1, <1>3, <1>4, <1>5
<1>7. \E c \in 0..MatchLen : IsCommon(c)
  BY <1>4, <1>6
<1>8. CommonLen(v, w) = CHOOSE c \in 0..MatchLen : IsCommon(c)
  BY DEF CommonLen
<1> HIDE DEF IsCommon
<1>9. CommonLen(v, w) \in 0..MatchLen /\ IsCommon(CommonLen(v, w))
  BY <1>7, <1>8
<1> QED
  BY <1>9 DEF IsCommon

(* A match there is one of the block with its past. *)
LEMMA MatchFacts ==
    ASSUME NEW t, NEW e \in TrueEntry(t), NEW w \in Window, NEW cur \in Nat,
           \A k \in 1..MatchLen : w[k] = t[cur + k],
           NEW len, len = MatchWith(e, w, cur)
    PROVE  /\ len \in 0..MatchLen /\ e.idx \in Nat
           /\ len > 0 => /\ len >= MinMatch /\ e.idx < cur
                         /\ Offset(cur, e.idx) \in Nat
                         /\ Offset(cur, e.idx) >= MinOffset
                         /\ Offset(cur, e.idx) + 1 < OffsetLimit
                         /\ Offset(cur, e.idx) < cur
                         /\ \A k \in 0..len - 1 : Agrees(t, cur, Offset(cur, e.idx), k)
<1>1. /\ e.win \in Window /\ e.idx \in Nat
      /\ \A m \in 1..MatchLen : e.win[m] = t[e.idx + m]
  BY DEF TrueEntry, Entry
<1> DEFINE c == CommonLen(w, e.win)
<1>2. c \in 0..MatchLen /\ \A m \in 1..c : w[m] = e.win[m]
  BY <1>1, CommonLenFacts
<1>3. len = IF c >= MinMatch /\ InReach(cur, e.idx) THEN c ELSE 0
  BY DEF MatchWith
<1> HIDE DEF c
<1>4. len \in 0..MatchLen
  BY <1>2, <1>3, Constants
<1>5. ASSUME len > 0
      PROVE  /\ len >= MinMatch /\ e.idx < cur
             /\ Offset(cur, e.idx) \in Nat
             /\ Offset(cur, e.idx) >= MinOffset
             /\ Offset(cur, e.idx) + 1 < OffsetLimit
             /\ Offset(cur, e.idx) < cur
             /\ \A k \in 0..len - 1 : Agrees(t, cur, Offset(cur, e.idx), k)
  <2>1. len = c /\ c >= MinMatch /\ InReach(cur, e.idx)
    BY <1>3, <1>5
  <2>2. /\ e.idx < cur /\ cur - e.idx < OffsetLimit
        /\ cur - e.idx - 1 >= MinOffset /\ Offset(cur, e.idx) = cur - e.idx - 1
    BY <2>1 DEF InReach, Offset
  <2>3. ASSUME NEW k \in 0..len - 1 PROVE Agrees(t, cur, Offset(cur, e.idx), k)
    <3>1. k + 1 \in 1..c /\ k + 1 \in 1..MatchLen /\ k \in Nat
      BY <1>2, <2>1, Constants
    <3>2. w[k + 1] = e.win[k + 1] /\ w[k + 1] = t[cur + (k + 1)]
          /\ e.win[k + 1] = t[e.idx + (k + 1)]
      BY <3>1, <1>1, <1>2
    <3>3. cur + (k + 1) = cur + k + 1 /\ e.idx + (k + 1) = cur + k - (cur - e.idx - 1)
      BY <3>1, <1>1
    <3> QED
      BY <2>2, <3>2, <3>3 DEF Agrees
  <2> QED
    BY <1>1, <2>1, <2>2, <2>3, Constants
<1> QED
  BY <1>1, <1>4, <1>5

LEMMA BestFits ==
    ASSUME NEW t, NEW bucket \in Bucket(t), NEW w \in Window, NEW cur \in Nat,
           \A k \in 1..MatchLen : w[k] = t[cur + k],
           Len(t) \in Nat, cur + MatchLen <= Len(t) - LeftBytes
    PROVE  Fits(t, BestRecord(bucket, w, cur), cur)
<1> DEFINE len(l) == MatchWith(bucket[l], w, cur)
           best == {l \in 1..Len(bucket) :
                     /\ len(l) > 0
                     /\ \A k \in 1..Len(bucket) : len(k) < len(l) \/ (len(k) = len(l) /\ l <= k)}
           found(l) == [ch |-> w[1], len |-> len(l), off |-> Offset(cur, bucket[l].idx)]
           which == CHOOSE l \in best : TRUE
<1>1. BestRecord(bucket, w, cur) = IF best = {} THEN Literal(w[1]) ELSE found(which)
  BY DEF BestRecord
<1>2. w[1] = t[cur + 1] /\ w[1] \in Byte
  BY Constants DEF Window
<1>3. CASE best = {}
  BY <1>1, <1>2, <1>3, LiteralFits
<1>4. CASE best # {}
  <2> HIDE DEF best
  <2>1. which \in best
    BY <1>4
  <2>2. which \in 1..Len(bucket) /\ len(which) > 0
    BY <2>1 DEF best
  <2> HIDE DEF which
  <2>3. bucket[which] \in TrueEntry(t)
    BY <2>2 DEF Bucket
  <2> DEFINE e == bucket[which]
             r == found(which)
  <2>4. /\ len(which) \in 0..MatchLen /\ len(which) >= MinMatch
        /\ Offset(cur, e.idx) \in Nat
        /\ Offset(cur, e.idx) >= MinOffset
        /\ Offset(cur, e.idx) + 1 < OffsetLimit
        /\ Offset(cur, e.idx) < cur
        /\ \A k \in 0..len(which) - 1 : Agrees(t, cur, Offset(cur, e.idx), k)
    <3> HIDE DEF e, len
    <3>1. len(which) = MatchWith(e, w, cur)
      BY DEF len, e
    <3> QED
      BY <2>2, <2>3, <3>1, MatchFacts DEF e
  <2>5. r.ch = w[1] /\ r.len = len(which) /\ r.off = Offset(cur, e.idx)
        /\ r = [ch |-> w[1], len |-> len(which), off |-> Offset(cur, e.idx)]
    OBVIOUS
  <2> HIDE DEF e, len, found
  <2>6. r \in FinderRecord
    BY <1>2, <2>4, <2>5, Constants DEF FinderRecord
  <2> HIDE DEF r
  <2>7. IsTrue(t, r, cur)
    BY <1>2, <2>4, <2>5, Constants DEF IsTrue
  <2>8. Encodable(r)
    BY <2>4, <2>5 DEF Encodable, OffsetOK
  <2>9. Fits(t, r, cur)
    BY <2>6, <2>7, <2>8 DEF Fits
  <2> QED
    BY <1>1, <1>4, <2>9 DEF r, found
<1> QED
  BY <1>3, <1>4

LEMMA ShiftedStays ==
    ASSUME NEW t, NEW bucket \in Bucket(t), NEW w \in Window, NEW cur \in Nat,
           \A k \in 1..MatchLen : w[k] = t[cur + k],
           Len(t) \in Nat, cur + MatchLen <= Len(t)
    PROVE  Shifted(bucket, w, cur) \in Bucket(t)
<1> DEFINE e == [win |-> w, idx |-> cur]
           all == <<e>> \o bucket
           m == IF Len(bucket) < MatchLevel THEN Len(bucket) + 1 ELSE MatchLevel
<1>1. e \in TrueEntry(t)
  BY DEF TrueEntry, Entry
<1> HIDE DEF e
<1>2. all \in Seq(TrueEntry(t)) /\ Len(bucket) \in Nat /\ Len(all) = Len(bucket) + 1
  BY <1>1 DEF Bucket
<1>3. m \in Nat /\ m <= Len(all)
  BY <1>2, Constants
<1> HIDE DEF all, m
<1>4. SubSeq(all, 1, m) \in Seq(TrueEntry(t))
  <2>1. \A k \in 1..m : all[k] \in TrueEntry(t)
    BY <1>2, <1>3
  <2> QED
    BY <1>2, <1>3, <2>1
<1> QED
  BY <1>4 DEF Shifted, Bucket, all, m, e

LEMMA LandedKeeps ==
    ASSUME DictInv, NEW writes \in Seq(Write(text))
    PROVE  Landed(writes) \in [0..DictSize - 1 -> Bucket(text)]
<1>1. dict \in [0..DictSize - 1 -> Bucket(text)]
  BY DEF DictInv
<1> DEFINE own(h) == {k \in DOMAIN writes : writes[k].at = h}
           last(h) == CHOOSE k \in own(h) : \A m \in own(h) : m <= k
<1>2. ASSUME NEW h \in 0..DictSize - 1, own(h) # {}
      PROVE  writes[last(h)].bucket \in Bucket(text)
  <2>1. DOMAIN writes = 1..Len(writes) /\ Len(writes) \in Nat
    OBVIOUS
  <2>2. own(h) \in SUBSET (0..Len(writes))
    BY <2>1
  <2>3. \E k \in own(h) : \A m \in own(h) : m <= k
    <3> HIDE DEF own
    <3> QED
      BY <1>2, <2>1, <2>2, Greatest
  <2>4. last(h) \in own(h)
    <3> HIDE DEF own
    <3> QED
      BY <2>3
  <2>5. last(h) \in 1..Len(writes)
    BY <2>1, <2>4
  <2>6. writes[last(h)] \in Write(text)
    BY <2>5
  <2> QED
    BY <2>6 DEF Write
<1>3. Landed(writes) =
        [h \in DOMAIN dict |-> IF own(h) = {} THEN dict[h] ELSE writes[last(h)].bucket]
  BY DEF Landed
<1>4. DOMAIN dict = 0..DictSize - 1 /\ \A h \in 0..DictSize - 1 : dict[h] \in Bucket(text)
  BY <1>1
<1> HIDE DEF own, last
<1> QED
  BY <1>2, <1>3, <1>4

LEMMA ViewsKeep ==
    ASSUME DictInv, NEW view \in Views
    PROVE  view.dict \in [0..DictSize - 1 -> Bucket(text)] /\ view.late \in Seq(Write(text))
<1>1. late \in Seq(Write(text)) /\ Len(late) \in Nat
  BY DEF DictInv
<1>2. PICK k \in 0..Len(late) :
         /\ view.dict = Landed(SubSeq(late, 1, k))
         /\ view.late = SubSeq(late, k + 1, Len(late))
  BY DEF Views
<1>3. SubSeq(late, 1, k) \in Seq(Write(text)) /\ SubSeq(late, k + 1, Len(late)) \in Seq(Write(text))
  <2>1. \A j \in 1..Len(late) : late[j] \in Write(text)
    BY <1>1
  <2> QED
    BY <1>1, <1>2, <2>1
<1> QED
  BY <1>2, <1>3, LandedKeeps

-----------------------------------------------------------------------------
(* A process leaves alone what the others keep *)

LEMMA TextFacts ==
    ASSUME TextOK
    PROVE  /\ text \in Seq(Byte) /\ n = Len(text) /\ n \in Nat
           /\ n > 0 => n >= LeftBytes + MatchLen
           /\ \A p \in Nat : p < n => text[p + 1] \in Byte
BY Constants DEF TextOK, n

LEMMA TextSame == ASSUME TextOK, UNCHANGED text PROVE TextOK'
BY DEF TextOK

LEMMA DictSame == ASSUME DictInv, UNCHANGED <<text, dict, late>> PROVE DictInv'
BY DEF DictInv

LEMMA LzSame == ASSUME LzInv, UNCHANGED <<text, lz, inQ>> PROVE LzInv'
BY DEF LzInv

LEMMA FltSame == ASSUME FltInv, UNCHANGED <<text, flt>> PROVE FltInv'
BY DEF FltInv

LEMMA CmpSame == ASSUME CmpInv, UNCHANGED <<text, cmpQ, flt, lz>> PROVE CmpInv'
BY DEF CmpInv

LEMMA BestSame == ASSUME BestInv, UNCHANGED <<text, bestQ, bst, flt>> PROVE BestInv'
BY DEF BestInv

LEMMA BstSame == ASSUME BstInv, UNCHANGED <<text, bst>> PROVE BstInv'
BY DEF BstInv

-----------------------------------------------------------------------------
(* lzCompress *)

(* What lzCompress gives on, and how far it is. *)
LEMMA LzFacts ==
    ASSUME TextOK, LzInv
    PROVE  /\ lz \in LzType /\ lz.i \in Nat /\ BytesRead(lz) \in Nat
           /\ BytesRead(lz) + Len(inQ) = n /\ BytesRead(lz) <= n
           /\ Len(lz.win) \in Nat /\ Len(lz.win) <= BytesRead(lz)
           /\ RestOf(text, inQ, BytesRead(lz)) /\ EndsAt(text, lz.win, BytesRead(lz))
           /\ inQ \in Seq(Byte)
           /\ LzPlace(lz, n)
<1>1. /\ lz \in LzType
      /\ RestOf(text, inQ, BytesRead(lz)) /\ EndsAt(text, lz.win, BytesRead(lz))
      /\ LzPlace(lz, n)
  BY DEF LzInv, n
<1>2. lz.i \in Nat /\ lz.win \in Seq(Byte) /\ Len(lz.win) \in Nat
  BY <1>1 DEF LzType
<1>3. BytesRead(lz) \in Nat
  BY <1>2 DEF BytesRead
<1>4. inQ \in Seq(Byte) /\ Len(inQ) \in Nat /\ BytesRead(lz) + Len(inQ) = n
  BY <1>1 DEF RestOf, n
<1>5. Len(lz.win) <= BytesRead(lz)
  BY <1>1 DEF EndsAt
<1>6. n \in Nat
  BY TextFacts
<1> QED
  BY <1>1, <1>2, <1>3, <1>4, <1>5, <1>6

(* A record that fits where lzCompress stands goes out. *)
LEMMA LzGives ==
    ASSUME TextOK, LzInv, FltInv, CmpInv, UNCHANGED <<text, flt>>, NEW r,
           Fits(text, r, BytesRead(lz) - Len(lz.win)), cmpQ' = Append(cmpQ, r),
           BytesRead(lz') - Len(lz'.win) = BytesRead(lz) - Len(lz.win) + 1
    PROVE  CmpInv'
<1>1. flt.i \in Nat
  BY DEF FltInv, FltType
<1>2. /\ FitFrom(text, cmpQ, flt.i) /\ flt.i + Len(cmpQ) = BytesRead(lz) - Len(lz.win)
  BY DEF CmpInv
<1>3. FitFrom(text, Append(cmpQ, r), flt.i)
  BY <1>1, <1>2, FitMore
<1>4. cmpQ \in Seq(FinderRecord) /\ r \in FinderRecord
  BY <1>2 DEF FitFrom, Fits
<1>5. Len(cmpQ) \in Nat /\ Len(cmpQ') = Len(cmpQ) + 1
  BY <1>4, AppendFacts
<1>6. flt.i + Len(cmpQ') = BytesRead(lz') - Len(lz'.win)
  BY <1>1, <1>2, <1>5, SMTT(30)
<1> QED
  BY <1>3, <1>6 DEF CmpInv

LEMMA LzFillStep ==
    ASSUME FinderInv, LzFill
    PROVE  FinderInv'
<1> USE DEF FinderInv
<1> DEFINE w == Append(lz.win, Head(inQ))
           p == BytesRead(lz)
<1>1. /\ lz.pc = "fill" /\ inQ # << >> /\ inQ' = Tail(inQ)
      /\ lz' = IF Len(w) < MatchLen - 1 THEN [lz EXCEPT !.win = w]
               ELSE [pc |-> "scan", i |-> MatchLen - 1, win |-> w]
      /\ UNCHANGED <<text, dict, late, flt, bst, cmpQ, bestQ, recQ>>
  BY DEF LzFill
<1>2. /\ p \in Nat /\ RestOf(text, inQ, p) /\ EndsAt(text, lz.win, p)
      /\ LzPlace(lz, n) /\ Len(lz.win) \in Nat /\ lz \in LzType
  BY LzFacts
<1>3. p = Len(lz.win) /\ n > 0 /\ p < MatchLen - 1
  BY <1>1, <1>2 DEF BytesRead, LzPlace
<1>4. /\ RestOf(text, Tail(inQ), p + 1) /\ Head(inQ) = text[p + 1] /\ Head(inQ) \in Byte
  BY <1>1, <1>2, TextFacts, RestLess
<1>5. EndsAt(text, w, p + 1) /\ Len(w) = p + 1
  BY <1>2, <1>3, <1>4, EndsMore
<1>6. w \in Seq(Byte)
  BY <1>5 DEF EndsAt
<1> HIDE DEF w, p
<1>7. lz' \in LzType /\ lz'.win = w /\ BytesRead(lz') = p + 1 /\ LzPlace(lz', n)
  <2>1. CASE p + 1 < MatchLen - 1
    <3>1. lz' = [lz EXCEPT !.win = w]
      BY <1>1, <1>5, <2>1
    <3>2. lz'.pc = "fill" /\ lz'.win = w /\ lz' \in LzType
      BY <1>1, <1>2, <1>6, <3>1 DEF LzType
    <3> QED
      BY <1>3, <1>5, <2>1, <3>2 DEF BytesRead, LzPlace
  <2>2. CASE ~(p + 1 < MatchLen - 1)
    <3>1. lz' = [pc |-> "scan", i |-> MatchLen - 1, win |-> w]
      BY <1>1, <1>5, <2>2
    <3>2. lz'.pc = "scan" /\ lz'.win = w /\ lz'.i = MatchLen - 1 /\ lz' \in LzType
      BY <1>6, <3>1, Constants DEF LzType
    <3>3. p + 1 = MatchLen - 1
      BY <1>2, <1>3, <2>2, Constants
    <3>4. MatchLen - 1 < n - LeftBytes
      BY <1>3, TextFacts, Constants
    <3> QED
      BY <1>5, <3>2, <3>3, <3>4 DEF BytesRead, LzPlace
  <2> QED
    BY <2>1, <2>2
<1>8. LzInv'
  BY <1>1, <1>4, <1>5, <1>7 DEF LzInv, n
<1>9. CmpInv'
  <2>1. FitFrom(text, cmpQ, flt.i) /\ flt.i + Len(cmpQ) = p - Len(lz.win)
    BY DEF CmpInv, p
  <2>2. (p + 1) - Len(w) = p - Len(lz.win)
    BY <1>2, <1>3, <1>5
  <2> QED
    BY <1>1, <1>7, <2>1, <2>2 DEF CmpInv
<1>10. TextOK' /\ DictInv' /\ FltInv' /\ BestInv' /\ BstInv'
  BY <1>1, TextSame, DictSame, FltSame, BestSame, BstSame
<1> QED
  BY <1>8, <1>9, <1>10

LEMMA LzScanStep ==
    ASSUME FinderInv, LzScan
    PROVE  FinderInv'
<1> USE DEF FinderInv
<1> DEFINE w == Append(lz.win, Head(inQ))
           p == lz.i
           cur == lz.i - MatchLen + 1
           h == Hash(w)
<1>1. PICK view \in Views :
         /\ dict' = view.dict
         /\ late' = Append(view.late, [at |-> h, bucket |-> Shifted(view.dict[h], w, cur)])
         /\ cmpQ' = Append(cmpQ, BestRecord(view.dict[h], w, cur))
  BY DEF LzScan
<1>2. /\ lz.pc = "scan" /\ inQ # << >> /\ inQ' = Tail(inQ)
      /\ lz' = [pc  |-> IF p + 1 < n - LeftBytes THEN "scan" ELSE "rest",
                i   |-> p + 1,
                win |-> Tail(w)]
      /\ UNCHANGED <<text, flt, bst, bestQ, recQ>>
  BY DEF LzScan
<1>3. /\ p \in Nat /\ RestOf(text, inQ, p) /\ EndsAt(text, lz.win, p) /\ BytesRead(lz) = p
      /\ LzPlace(lz, n) /\ Len(lz.win) \in Nat /\ lz \in LzType /\ lz.win \in Seq(Byte)
  BY <1>2, LzFacts DEF BytesRead, LzType
<1>4. Len(lz.win) = MatchLen - 1 /\ p >= MatchLen - 1 /\ p < n - LeftBytes
  BY <1>2, <1>3 DEF LzPlace
<1>5. /\ RestOf(text, Tail(inQ), p + 1) /\ Head(inQ) = text[p + 1] /\ Head(inQ) \in Byte
  BY <1>2, <1>3, TextFacts, RestLess
<1>6. EndsAt(text, w, p + 1) /\ Len(w) = MatchLen
  BY <1>3, <1>4, <1>5, EndsMore, Constants
<1>7. w \in Seq(Byte) /\ \A k \in 1..MatchLen : w[k] = text[cur + k]
  <2>1. \A k \in 1..MatchLen : w[k] = text[(p + 1) - MatchLen + k]
    BY <1>6 DEF EndsAt
  <2>2. \A k \in 1..MatchLen : (p + 1) - MatchLen + k = cur + k
    BY <1>3, Constants
  <2> HIDE DEF w, cur
  <2> QED
    BY <1>6, <2>1, <2>2 DEF EndsAt
<1>8. cur \in Nat /\ cur + MatchLen = p + 1 /\ cur + MatchLen <= n - LeftBytes
      /\ cur + MatchLen <= n
  BY <1>3, <1>4, TextFacts, Constants, SMTT(30)
<1> HIDE DEF w, p, cur, h
<1>9. w \in Window
  BY <1>6, <1>7, Constants DEF Window
<1>10. /\ view.dict \in [0..DictSize - 1 -> Bucket(text)]
       /\ view.late \in Seq(Write(text)) /\ h \in 0..DictSize - 1
  BY <1>1, <1>9, ViewsKeep, Constants DEF h
<1> DEFINE bucket == view.dict[h]
<1>11. bucket \in Bucket(text)
  BY <1>10
<1> HIDE DEF bucket
<1>12. Fits(text, BestRecord(bucket, w, cur), cur)
  BY <1>7, <1>8, <1>9, <1>11, BestFits, TextFacts
<1>13. DictInv'
  <2>1. Shifted(bucket, w, cur) \in Bucket(text)
    BY <1>7, <1>8, <1>9, <1>11, ShiftedStays, TextFacts
  <2>2. [at |-> h, bucket |-> Shifted(bucket, w, cur)] \in Write(text)
    BY <1>10, <2>1 DEF Write
  <2>3. late' \in Seq(Write(text))
    BY <1>1, <1>10, <2>2, AppendFacts DEF bucket
  <2> QED
    BY <1>1, <1>2, <1>10, <2>3 DEF DictInv
<1>14. EndsAt(text, Tail(w), p + 1) /\ Len(Tail(w)) = MatchLen - 1
  <2>1. p + 1 \in Nat /\ w # << >>
    BY <1>3, <1>6, Constants
  <2> QED
    BY <1>6, <2>1, EndsLess
<1>15. lz' \in LzType /\ lz'.win = Tail(w) /\ BytesRead(lz') = p + 1 /\ LzPlace(lz', n)
  <2>1. Tail(w) \in Seq(Byte) /\ p + 1 \in Nat
    BY <1>3, <1>14 DEF EndsAt
  <2>2. lz' \in LzType
    BY <1>2, <2>1 DEF LzType
  <2>3. lz'.win = Tail(w) /\ lz'.i = p + 1
        /\ lz'.pc = IF p + 1 < n - LeftBytes THEN "scan" ELSE "rest"
    BY <1>2
  <2>4. BytesRead(lz') = p + 1
    BY <2>3 DEF BytesRead
  <2>5. LzPlace(lz', n)
    <3>1. n \in Nat
      BY TextFacts
    <3>2. CASE p + 1 < n - LeftBytes
      BY <1>3, <1>4, <1>14, <2>3, <3>1, <3>2, Constants DEF LzPlace
    <3>3. CASE ~(p + 1 < n - LeftBytes)
      BY <1>3, <1>4, <1>14, <2>3, <3>1, <3>3, Constants DEF LzPlace
    <3> QED
      BY <3>2, <3>3
  <2> QED
    BY <2>2, <2>3, <2>4, <2>5
<1>16. LzInv'
  BY <1>2, <1>5, <1>14, <1>15 DEF LzInv, n
<1>17. CmpInv'
  <2>1. BytesRead(lz) - Len(lz.win) = cur
    BY <1>3, <1>4, <1>8, Constants
  <2>2. BytesRead(lz') - Len(lz'.win) = cur + 1
    <3>1. Len(lz'.win) = MatchLen - 1
      BY <1>14, <1>15
    <3>2. BytesRead(lz') = p + 1
      BY <1>15
    <3> QED
      BY <1>3, <1>8, <3>1, <3>2, Constants
  <2>3. cmpQ' = Append(cmpQ, BestRecord(bucket, w, cur))
    BY <1>1 DEF bucket
  <2> QED
    BY <1>2, <1>12, <2>1, <2>2, <2>3, LzGives
<1>18. TextOK' /\ FltInv' /\ BestInv' /\ BstInv'
  BY <1>2, TextSame, FltSame, BestSame, BstSame
<1> QED
  BY <1>13, <1>16, <1>17, <1>18

LEMMA LzLeftOverStep ==
    ASSUME FinderInv, LzLeftOver
    PROVE  FinderInv'
<1> USE DEF FinderInv
<1> DEFINE w == lz.win
           p == lz.i
<1>1. /\ lz.pc = "rest" /\ cmpQ' = Append(cmpQ, Literal(Head(w)))
      /\ lz' = [lz EXCEPT !.win = Tail(@), !.pc = IF Len(lz.win) = 1 THEN "left" ELSE "rest"]
      /\ UNCHANGED <<text, dict, late, flt, bst, inQ, bestQ, recQ>>
  BY DEF LzLeftOver
<1>2. /\ p \in Nat /\ RestOf(text, inQ, p) /\ EndsAt(text, w, p) /\ BytesRead(lz) = p
      /\ LzPlace(lz, n) /\ Len(w) \in Nat /\ lz \in LzType
  BY <1>1, LzFacts DEF BytesRead, LzType
<1>3. Len(w) \in 1..MatchLen - 1 /\ n > 0 /\ p = n - LeftBytes /\ n \in Nat
  BY <1>1, <1>2, TextFacts DEF LzPlace
<1>4. /\ EndsAt(text, Tail(w), p) /\ Head(w) = text[p - Len(w) + 1] /\ Head(w) \in Byte
      /\ Len(w) <= p /\ Len(Tail(w)) = Len(w) - 1
  BY <1>2, <1>3, EndsLess
<1>5. Fits(text, Literal(Head(w)), p - Len(w))
  <2>1. p - Len(w) \in Nat
    BY <1>2, <1>4
  <2> QED
    BY <1>4, <2>1, LiteralFits
<1>6. lz'.win = Tail(w) /\ lz'.i = p /\ lz'.pc = (IF Len(w) = 1 THEN "left" ELSE "rest")
      /\ lz' \in LzType
  <2>1. Tail(w) \in Seq(Byte)
    BY <1>4 DEF EndsAt
  <2>2. lz' = [lz EXCEPT !.win = Tail(w), !.pc = IF Len(w) = 1 THEN "left" ELSE "rest"]
    BY <1>1
  <2> HIDE DEF w, p
  <2> QED
    BY <1>2, <2>1, <2>2 DEF LzType, p
<1> HIDE DEF w, p
<1>7. BytesRead(lz') = p
  BY <1>6 DEF BytesRead
<1>8. LzPlace(lz', n)
  <2>1. CASE Len(w) = 1
    BY <1>3, <1>4, <1>6, <2>1, Constants DEF LzPlace
  <2>2. CASE Len(w) # 1
    <3>1. lz'.pc = "rest" /\ lz'.i = p
      BY <1>6, <2>2
    <3>2. Len(lz'.win) = Len(w) - 1
      BY <1>4, <1>6
    <3>3. Len(lz'.win) \in 1..MatchLen - 1
      <4>1. Len(w) - 1 \in 1..MatchLen - 1
        <5>1. \A m \in 1..MatchLen - 1 : m # 1 => m - 1 \in 1..MatchLen - 1
          BY Constants
        <5> QED
          BY <1>3, <2>2, <5>1
      <4> QED
        BY <3>2, <4>1
    <3> QED
      BY <1>3, <3>1, <3>3 DEF LzPlace
  <2> QED
    BY <2>1, <2>2
<1>9. LzInv'
  BY <1>1, <1>2, <1>4, <1>6, <1>7, <1>8 DEF LzInv, n
<1>10. CmpInv'
  <2>1. Fits(text, Literal(Head(w)), BytesRead(lz) - Len(lz.win))
    BY <1>2, <1>5 DEF w
  <2>2. BytesRead(lz') - Len(lz'.win) = BytesRead(lz) - Len(lz.win) + 1
    <3>1. Len(lz'.win) = Len(w) - 1
      BY <1>4, <1>6
    <3> QED
      BY <1>2, <1>3, <1>7, <3>1 DEF w
  <2> QED
    BY <1>1, <2>1, <2>2, LzGives
<1>11. TextOK' /\ DictInv' /\ FltInv' /\ BestInv' /\ BstInv'
  BY <1>1, TextSame, DictSame, FltSame, BestSame, BstSame
<1> QED
  BY <1>9, <1>10, <1>11

LEMMA LzLeftBytesStep ==
    ASSUME FinderInv, LzLeftBytes
    PROVE  FinderInv'
<1> USE DEF FinderInv
<1> DEFINE p == lz.i
           r == Literal(Head(inQ))
<1>1. /\ lz.pc = "left" /\ inQ # << >> /\ inQ' = Tail(inQ) /\ cmpQ' = Append(cmpQ, r)
      /\ lz' = [lz EXCEPT !.i = @ + 1, !.pc = IF lz.i + 1 = n THEN "done" ELSE "left"]
      /\ UNCHANGED <<text, dict, late, flt, bst, bestQ, recQ>>
  BY DEF LzLeftBytes
<1>2. /\ p \in Nat /\ RestOf(text, inQ, p) /\ EndsAt(text, lz.win, p) /\ BytesRead(lz) = p
      /\ LzPlace(lz, n) /\ lz \in LzType /\ n \in Nat
  BY <1>1, LzFacts, TextFacts DEF BytesRead
<1>3. Len(lz.win) = 0 /\ p >= n - LeftBytes /\ p < n
  BY <1>1, <1>2 DEF LzPlace
<1>4. RestOf(text, Tail(inQ), p + 1) /\ Head(inQ) = text[p + 1] /\ Head(inQ) \in Byte
  BY <1>1, <1>2, TextFacts, RestLess
<1>5. Fits(text, r, p)
  BY <1>2, <1>4, LiteralFits
<1>6. lz'.win = lz.win /\ lz'.i = p + 1 /\ lz'.pc = (IF p + 1 = n THEN "done" ELSE "left")
      /\ lz' \in LzType
  <2>1. lz' = [lz EXCEPT !.i = p + 1, !.pc = IF p + 1 = n THEN "done" ELSE "left"]
    BY <1>1
  <2>2. lz \in LzType /\ p + 1 \in Nat
    BY <1>2
  <2> HIDE DEF p
  <2> QED
    BY <2>1, <2>2 DEF LzType
<1> HIDE DEF p, r
<1>7. BytesRead(lz') = p + 1
  BY <1>6 DEF BytesRead
<1>8. LzPlace(lz', n)
  <2>1. CASE p + 1 = n
    BY <1>2, <1>3, <1>6, <2>1, Constants DEF LzPlace
  <2>2. CASE p + 1 # n
    BY <1>2, <1>3, <1>6, <2>2, Constants DEF LzPlace
  <2> QED
    BY <2>1, <2>2
<1>9. EndsAt(text, lz.win, p + 1)
  <2>1. lz.win \in Seq(Byte) /\ \A k \in 1..Len(lz.win) : FALSE
    BY <1>2, <1>3 DEF EndsAt
  <2> QED
    BY <1>2, <1>3, <2>1 DEF EndsAt
<1>10. LzInv'
  BY <1>1, <1>4, <1>6, <1>7, <1>8, <1>9 DEF LzInv, n
<1>11. CmpInv'
  <2>1. BytesRead(lz) - Len(lz.win) = p
    BY <1>2, <1>3
  <2>2. BytesRead(lz') - Len(lz'.win) = p + 1
    <3>1. Len(lz'.win) = 0
      BY <1>3, <1>6
    <3> QED
      BY <1>2, <1>7, <3>1
  <2> QED
    BY <1>1, <1>5, <2>1, <2>2, LzGives
<1>12. TextOK' /\ DictInv' /\ FltInv' /\ BestInv' /\ BstInv'
  BY <1>1, TextSame, DictSame, FltSame, BestSame, BstSame
<1> QED
  BY <1>10, <1>11, <1>12

-----------------------------------------------------------------------------
(* lzBestMatchFilter *)

LEMMA FltFacts ==
    ASSUME TextOK, LzInv, CmpInv, FltInv
    PROVE  /\ flt \in FltType /\ flt.i \in Nat /\ flt.win \in Seq(FinderRecord)
           /\ Len(flt.win) \in Nat /\ Len(flt.win) <= flt.i
           /\ FitFrom(text, flt.win, flt.i - Len(flt.win))
           /\ FitFrom(text, cmpQ, flt.i) /\ Len(cmpQ) \in Nat
           /\ flt.i + Len(cmpQ) <= n
           /\ FltPlace(flt, n)
<1>1. /\ flt \in FltType /\ FitFrom(text, flt.win, flt.i - Len(flt.win)) /\ FltPlace(flt, n)
  BY DEF FltInv, n
<1>2. flt.i \in Nat /\ flt.win \in Seq(FinderRecord) /\ Len(flt.win) \in Nat
  BY <1>1 DEF FltType
<1>3. FitFrom(text, cmpQ, flt.i) /\ flt.i + Len(cmpQ) = BytesRead(lz) - Len(lz.win)
  BY DEF CmpInv
<1>4. Len(cmpQ) \in Nat
  BY <1>3 DEF FitFrom
<1>5. flt.i + Len(cmpQ) <= n
  BY <1>2, <1>3, <1>4, LzFacts, TextFacts
<1>6. Len(flt.win) <= flt.i
  BY <1>1 DEF FltPlace
<1> QED
  BY <1>1, <1>2, <1>3, <1>4, <1>5, <1>6

(* The filter takes the next record of lzCompress. *)
LEMMA FltTakes ==
    ASSUME TextOK, LzInv, CmpInv, FltInv, cmpQ # << >>, cmpQ' = Tail(cmpQ),
           UNCHANGED <<text, lz>>, flt'.i = flt.i + 1
    PROVE  CmpInv' /\ Fits(text, Head(cmpQ), flt.i) /\ flt.i + 1 <= n
<1>1. /\ flt.i \in Nat /\ FitFrom(text, cmpQ, flt.i) /\ flt.i + Len(cmpQ) <= n
  BY FltFacts
<1>2. /\ FitFrom(text, Tail(cmpQ), flt.i + 1) /\ Fits(text, Head(cmpQ), flt.i)
      /\ Len(cmpQ) \in Nat /\ Len(cmpQ) > 0 /\ Len(Tail(cmpQ)) = Len(cmpQ) - 1
  BY <1>1, FitLess
<1>3. flt.i + 1 <= n
  BY <1>1, <1>2, TextFacts
<1>4. flt.i + Len(cmpQ) = BytesRead(lz) - Len(lz.win)
  BY DEF CmpInv
<1>5. flt'.i + Len(cmpQ') = BytesRead(lz) - Len(lz.win)
  <2>1. flt'.i + Len(cmpQ') = (flt.i + 1) + (Len(cmpQ) - 1)
    BY <1>2
  <2> QED
    BY <1>1, <1>2, <1>4, <2>1
<1>6. CmpInv'
  BY <1>2, <1>5 DEF CmpInv
<1> QED
  BY <1>2, <1>3, <1>6

(* A record that fits where the window of the filter begins goes out. *)
LEMMA FltGives ==
    ASSUME BstInv, FltInv, BestInv, UNCHANGED <<text, bst>>, NEW r,
           Fits(text, r, flt.i - Len(flt.win)), bestQ' = Append(bestQ, r),
           flt'.i - Len(flt'.win) = flt.i - Len(flt.win) + 1
    PROVE  BestInv'
<1>1. bst.i \in Nat
  BY DEF BstInv, BstType
<1>2. FitFrom(text, bestQ, bst.i) /\ bst.i + Len(bestQ) = flt.i - Len(flt.win)
  BY DEF BestInv
<1>3. FitFrom(text, Append(bestQ, r), bst.i)
  BY <1>1, <1>2, FitMore
<1>4. bestQ \in Seq(FinderRecord) /\ r \in FinderRecord
  BY <1>2 DEF FitFrom, Fits
<1>5. Len(bestQ) \in Nat /\ Len(bestQ') = Len(bestQ) + 1
  BY <1>4, AppendFacts
<1>6. bst.i + Len(bestQ') = flt'.i - Len(flt'.win)
  <2>1. bst.i + Len(bestQ') = (bst.i + Len(bestQ)) + 1
    BY <1>1, <1>5, SMTT(30)
  <2> QED
    BY <1>2, <2>1
<1> QED
  BY <1>3, <1>6 DEF BestInv

LEMMA FilteredFits ==
    ASSUME NEW t, NEW p \in Nat, NEW r, Fits(t, r, p), NEW next
    PROVE  Fits(t, Filtered(r, next), p)
<1>1. r.ch \in Byte /\ r.ch = t[p + 1]
  BY DEF Fits, IsTrue, FinderRecord
<1>2. Fits(t, Literal(r.ch), p)
  BY <1>1, LiteralFits
<1> QED
  BY <1>2 DEF Filtered

LEMMA FltFillStep ==
    ASSUME FinderInv, FltFill
    PROVE  FinderInv'
<1> USE DEF FinderInv
<1> DEFINE w == Append(flt.win, Head(cmpQ))
<1>1. /\ flt.pc = "fill" /\ cmpQ # << >> /\ cmpQ' = Tail(cmpQ)
      /\ flt' = [pc |-> IF Len(w) = MatchLen THEN "scan" ELSE "fill", i |-> Len(w), win |-> w]
      /\ UNCHANGED <<text, lz, dict, late, bst, inQ, bestQ, recQ>>
  BY DEF FltFill
<1>2. /\ flt \in FltType /\ flt.i \in Nat /\ flt.win \in Seq(FinderRecord)
      /\ FitFrom(text, flt.win, flt.i - Len(flt.win))
      /\ FitFrom(text, cmpQ, flt.i)
      /\ FltPlace(flt, n)
  BY FltFacts
<1>3. n > 0 /\ Len(flt.win) = flt.i /\ flt.i < MatchLen /\ flt.i - Len(flt.win) = 0
  BY <1>1, <1>2 DEF FltPlace
<1>4. Fits(text, Head(cmpQ), flt.i) /\ Head(cmpQ) \in FinderRecord
  BY <1>1, <1>2, FitLess
<1>5. w \in Seq(FinderRecord) /\ Len(w) = flt.i + 1 /\ FitFrom(text, w, 0)
  <2>1. FitFrom(text, flt.win, 0) /\ 0 + Len(flt.win) = flt.i
    BY <1>2, <1>3
  <2>2. FitFrom(text, w, 0)
    BY <1>4, <2>1, FitMore
  <2> QED
    BY <1>2, <1>3, <1>4, <2>2, AppendFacts
<1> HIDE DEF w
<1>6. /\ flt'.win = w /\ flt'.i = flt.i + 1
      /\ flt'.pc = IF flt.i + 1 = MatchLen THEN "scan" ELSE "fill"
  BY <1>1, <1>5
<1>7. CmpInv' /\ flt.i + 1 <= n
  BY <1>1, <1>6, FltTakes
<1>8. flt' \in FltType
  BY <1>1, <1>2, <1>5 DEF FltType
<1>9. FltPlace(flt', n)
  <2>1. Len(flt'.win) = flt.i + 1
    BY <1>5, <1>6
  <2>2. CASE flt.i + 1 = MatchLen
    BY <1>2, <1>3, <1>6, <1>7, <2>1, <2>2, Constants DEF FltPlace
  <2>3. CASE flt.i + 1 # MatchLen
    BY <1>2, <1>3, <1>6, <1>7, <2>1, <2>3, Constants DEF FltPlace
  <2> QED
    BY <2>2, <2>3
<1>10. flt'.i - Len(flt'.win) = 0
  <2>1. Len(flt'.win) = flt.i + 1
    BY <1>5, <1>6
  <2> QED
    BY <1>2, <1>6, <2>1
<1>11. FltInv'
  BY <1>1, <1>5, <1>6, <1>8, <1>9, <1>10 DEF FltInv, n
<1>12. BestInv'
  <2>1. FitFrom(text, bestQ, bst.i) /\ bst.i + Len(bestQ) = 0
    BY <1>3 DEF BestInv
  <2> QED
    BY <1>1, <1>10, <2>1 DEF BestInv
<1>13. TextOK' /\ DictInv' /\ LzInv' /\ BstInv'
  BY <1>1, TextSame, DictSame, LzSame, BstSame
<1> QED
  BY <1>7, <1>11, <1>12, <1>13

LEMMA FltScanStep ==
    ASSUME FinderInv, FltScan
    PROVE  FinderInv'
<1> USE DEF FinderInv
<1> DEFINE rest == Tail(flt.win)
           next == Append(rest, Head(cmpQ))
           r == Filtered(Head(flt.win), next)
<1>1. /\ flt.pc = "scan" /\ flt.i < n /\ cmpQ # << >> /\ cmpQ' = Tail(cmpQ)
      /\ bestQ' = Append(bestQ, r)
      /\ flt' = [flt EXCEPT !.i = @ + 1, !.win = next]
      /\ UNCHANGED <<text, lz, dict, late, bst, inQ, recQ>>
  BY DEF FltScan
<1>2. /\ flt \in FltType /\ flt.i \in Nat /\ flt.win \in Seq(FinderRecord)
      /\ Len(flt.win) \in Nat /\ Len(flt.win) <= flt.i
      /\ FitFrom(text, flt.win, flt.i - Len(flt.win))
      /\ FitFrom(text, cmpQ, flt.i)
      /\ FltPlace(flt, n)
  BY FltFacts
<1>3. n > 0 /\ Len(flt.win) = MatchLen /\ flt.win # << >>
  BY <1>1, <1>2, Constants DEF FltPlace
<1> DEFINE p == flt.i - MatchLen
<1>4. p \in Nat /\ FitFrom(text, flt.win, p) /\ p + MatchLen = flt.i
  BY <1>2, <1>3, Constants
<1>5. /\ FitFrom(text, rest, p + 1) /\ Fits(text, Head(flt.win), p)
      /\ Len(rest) = MatchLen - 1
  BY <1>3, <1>4, FitLess
<1>6. Fits(text, r, p)
  BY <1>4, <1>5, FilteredFits
<1>7. Fits(text, Head(cmpQ), flt.i) /\ Head(cmpQ) \in FinderRecord
  BY <1>1, <1>2, FitLess
<1>8. (p + 1) + Len(rest) = flt.i
  BY <1>4, <1>5, Constants, SMTT(30)
<1>9. FitFrom(text, next, p + 1)
  <2> HIDE DEF p, rest
  <2> QED
    BY <1>4, <1>5, <1>7, <1>8, FitMore
<1>10. next \in Seq(FinderRecord) /\ Len(next) = MatchLen
  <2>1. rest \in Seq(FinderRecord)
    BY <1>5 DEF FitFrom
  <2> HIDE DEF rest
  <2>2. next \in Seq(FinderRecord) /\ Len(next) = Len(rest) + 1
    BY <1>7, <2>1, AppendFacts
  <2> QED
    BY <1>5, <2>2, Constants
<1> HIDE DEF rest, next, r, p
<1>11. /\ flt'.win = next /\ flt'.i = flt.i + 1 /\ flt'.pc = "scan" /\ flt' \in FltType
  <2>1. flt' = [flt EXCEPT !.i = flt.i + 1, !.win = next]
    BY <1>1 DEF next, rest
  <2>2. flt.i + 1 \in Nat
    BY <1>2
  <2> QED
    BY <1>1, <1>2, <1>10, <2>1, <2>2 DEF FltType
<1>12. CmpInv' /\ flt.i + 1 <= n
  BY <1>1, <1>11, FltTakes
<1>13. Len(flt'.win) = MatchLen
  BY <1>10, <1>11
<1>14. flt'.i - Len(flt'.win) = p + 1
  BY <1>2, <1>4, <1>11, <1>13, Constants
<1>15. FltPlace(flt', n)
  BY <1>2, <1>3, <1>11, <1>12, <1>13, Constants DEF FltPlace
<1>16. FltInv'
  BY <1>1, <1>9, <1>11, <1>14, <1>15 DEF FltInv, n
<1>17. BestInv'
  <2>1. flt.i - Len(flt.win) = p
    BY <1>2, <1>3, <1>4, Constants
  <2>2. flt'.i - Len(flt'.win) = flt.i - Len(flt.win) + 1
    BY <1>14, <2>1
  <2> QED
    BY <1>1, <1>6, <2>1, <2>2, FltGives
<1>18. TextOK' /\ DictInv' /\ LzInv' /\ BstInv'
  BY <1>1, TextSame, DictSame, LzSame, BstSame
<1> QED
  BY <1>12, <1>16, <1>17, <1>18

LEMMA FltLeftOverStep ==
    ASSUME FinderInv, FltLeftOver
    PROVE  FinderInv'
<1> USE DEF FinderInv
<1> DEFINE w == flt.win
           rest == Tail(w)
           p == flt.i - Len(w)
<1>1. /\ flt.pc = "scan" /\ flt.i >= n /\ bestQ' = Append(bestQ, Head(w))
      /\ flt' = [flt EXCEPT !.win = Tail(@), !.pc = IF Len(flt.win) = 1 THEN "done" ELSE "scan"]
      /\ UNCHANGED <<text, lz, dict, late, bst, inQ, cmpQ, recQ>>
  BY DEF FltLeftOver
<1>2. /\ flt \in FltType /\ flt.i \in Nat /\ w \in Seq(FinderRecord)
      /\ Len(w) \in Nat /\ Len(w) <= flt.i
      /\ FitFrom(text, w, p)
      /\ FltPlace(flt, n) /\ flt.i <= n /\ n \in Nat
  BY FltFacts, TextFacts DEF FltPlace
<1>3. n > 0 /\ Len(w) \in 1..MatchLen /\ w # << >> /\ flt.i = n
  BY <1>1, <1>2, Constants DEF FltPlace
<1>4. p \in Nat
  BY <1>2
<1>5. /\ FitFrom(text, rest, p + 1) /\ Fits(text, Head(w), p)
      /\ Len(rest) = Len(w) - 1
  BY <1>2, <1>3, <1>4, FitLess
<1>6. rest \in Seq(FinderRecord)
  BY <1>5 DEF FitFrom
<1>7. flt' = [flt EXCEPT !.win = rest, !.pc = IF Len(w) = 1 THEN "done" ELSE "scan"]
  BY <1>1
<1> HIDE DEF rest, w
<1>8. /\ flt'.win = rest /\ flt'.i = flt.i /\ flt' \in FltType
      /\ flt'.pc = IF Len(w) = 1 THEN "done" ELSE "scan"
  BY <1>2, <1>6, <1>7 DEF FltType
<1>9. Len(flt'.win) = Len(w) - 1
  BY <1>5, <1>8
<1>10. flt'.i - Len(flt'.win) = p + 1
  BY <1>2, <1>8, <1>9
<1>11. FltPlace(flt', n)
  <2>1. Len(flt'.win) <= flt'.i /\ flt'.i <= n /\ flt'.i = n
    BY <1>2, <1>3, <1>8, <1>9
  <2>2. CASE Len(w) = 1
    BY <1>3, <1>8, <1>9, <2>1, <2>2 DEF FltPlace
  <2>3. CASE Len(w) # 1
    <3>1. \A m \in 1..MatchLen : m # 1 => m - 1 \in 1..MatchLen
      BY Constants
    <3>2. Len(flt'.win) \in 1..MatchLen
      <4>1. Len(w) - 1 \in 1..MatchLen
        BY <1>3, <2>3, <3>1
      <4> QED
        BY <1>9, <4>1
    <3>3. flt'.pc = "scan"
      BY <1>8, <2>3
    <3> QED
      BY <1>2, <1>3, <2>1, <3>2, <3>3 DEF FltPlace
  <2> QED
    BY <2>2, <2>3
<1> HIDE DEF p
<1>12. FltInv'
  BY <1>1, <1>5, <1>8, <1>10, <1>11 DEF FltInv, n
<1>13. BestInv'
  <2>1. flt.i - Len(flt.win) = p
    BY DEF p, w
  <2>2. flt'.i - Len(flt'.win) = flt.i - Len(flt.win) + 1
    BY <1>10, <2>1
  <2> QED
    BY <1>1, <1>5, <2>1, <2>2, FltGives
<1>14. CmpInv'
  <2>1. FitFrom(text, cmpQ, flt.i) /\ flt.i + Len(cmpQ) = BytesRead(lz) - Len(lz.win)
    BY DEF CmpInv
  <2> QED
    BY <1>1, <1>8, <2>1 DEF CmpInv
<1>15. TextOK' /\ DictInv' /\ LzInv' /\ BstInv'
  BY <1>1, TextSame, DictSame, LzSame, BstSame
<1> QED
  BY <1>12, <1>13, <1>14, <1>15

-----------------------------------------------------------------------------
(* lzBooster *)

LEMMA BstFacts ==
    ASSUME TextOK, BstInv
    PROVE  /\ bst \in BstType /\ bst.i \in Nat /\ bst.out \in FinderRecord /\ bst.sent \in Seq(FinderRecord)
           /\ SizeOf(bst.sent) \in Nat /\ bst.skip \in Nat /\ bst.len \in Nat
           /\ bst.loc \in Int /\ BstPlace(bst, n)
           /\ bst.overtaken \in BOOLEAN
           /\ bst.pc = "scan" => Remembers(text, bst)
           /\ bst.pc = "scan" /\ bst.flag => Sourced(text, bst)
           /\ ~bst.overtaken =>
                 /\ bst.pc \in {"scan", "flush"} /\ bst.i > 0 =>
                       Open(text, bst, SizeOf(bst.sent))
                 /\ bst.pc = "scan" /\ bst.i = 0 => NoneOpen(bst)
                 /\ bst.pc \in {"left", "done"} => SizeOf(bst.sent) = bst.i
<1>1. /\ bst \in BstType /\ BstPlace(bst, n)
      /\ bst.pc = "scan" => Remembers(text, bst)
      /\ bst.pc = "scan" /\ bst.flag => Sourced(text, bst)
      /\ ~bst.overtaken => Parsed(text, bst)
  BY DEF BstInv, n
<1>2. /\ bst.i \in Nat /\ bst.out \in FinderRecord /\ bst.sent \in Seq(FinderRecord)
      /\ bst.skip \in Nat /\ bst.len \in Nat /\ bst.loc \in Int
  BY <1>1 DEF BstType
<1>3. SizeOf(bst.sent) \in Nat
  BY <1>2, SizeOfMore
<1>4. bst.overtaken \in BOOLEAN
  BY <1>1, Zenon DEF BstType
<1>5. ASSUME ~bst.overtaken
      PROVE  /\ bst.pc \in {"scan", "flush"} /\ bst.i > 0 =>
                   Open(text, bst, SizeOf(bst.sent))
             /\ bst.pc = "scan" /\ bst.i = 0 => NoneOpen(bst)
             /\ bst.pc \in {"left", "done"} => SizeOf(bst.sent) = bst.i
  BY <1>1, <1>5 DEF Parsed
<1> QED
  BY <1>1, <1>2, <1>3, <1>4, <1>5

(* The booster takes the next record of the filter. *)
LEMMA BstTakes ==
    ASSUME TextOK, LzInv, CmpInv, FltInv, BestInv, BstInv,
           bestQ # << >>, bestQ' = Tail(bestQ), UNCHANGED <<text, flt>>, bst'.i = bst.i + 1
    PROVE  BestInv' /\ bst.i + 1 <= n
<1>1. /\ bst.i \in Nat /\ FitFrom(text, bestQ, bst.i)
      /\ bst.i + Len(bestQ) = flt.i - Len(flt.win)
  BY BstFacts DEF BestInv
<1>2. /\ FitFrom(text, Tail(bestQ), bst.i + 1) /\ Fits(text, Head(bestQ), bst.i)
      /\ Head(bestQ) \in FinderRecord
      /\ Len(bestQ) \in Nat /\ Len(bestQ) > 0 /\ Len(Tail(bestQ)) = Len(bestQ) - 1
  BY <1>1, FitLess
<1>3. bst'.i + Len(bestQ') = flt.i - Len(flt.win)
  <2>1. bst'.i + Len(bestQ') = (bst.i + 1) + (Len(bestQ) - 1)
    BY <1>2
  <2> QED
    BY <1>1, <1>2, <2>1
<1>4. BestInv'
  BY <1>2, <1>3 DEF BestInv
<1>5. /\ flt.i \in Nat /\ Len(flt.win) \in Nat /\ n \in Nat /\ flt.i <= n
  BY FltFacts, TextFacts DEF FltPlace
<1>6. bst.i + 1 <= n
  BY <1>1, <1>2, <1>5
<1> QED
  BY <1>4, <1>6

LEMMA BstSees ==
    ASSUME TextOK, BstInv, BestInv, bestQ # << >>
    PROVE  /\ Fits(text, Head(bestQ), bst.i) /\ Head(bestQ) \in FinderRecord
           /\ Head(bestQ).ch \in Byte /\ Head(bestQ).ch = text[bst.i + 1]
<1>1. bst.i \in Nat /\ FitFrom(text, bestQ, bst.i)
  BY BstFacts DEF BestInv
<1>2. Fits(text, Head(bestQ), bst.i) /\ Head(bestQ) \in FinderRecord
  BY <1>1, FitLess
<1>3. Head(bestQ).ch \in Byte /\ Head(bestQ).ch = text[bst.i + 1]
  BY <1>2 DEF FinderRecord, Fits, IsTrue
<1> QED
  BY <1>2, <1>3

(* A place of the window is not the one a later store reaches, if the      *)
(* store is less than a window away.                                       *)
LEMMA NoneOvertakes ==
    ASSUME NEW b \in BstType, b.loc >= 0, b.loc <= b.i, b.i - b.loc + BoostLag < BoostWindow
    PROVE  Overtaking(b) = {}
<1>1. b.i \in Nat /\ b.loc \in Nat /\ BoostLag \in Nat /\ BoostWindow \in Nat /\ BoostWindow > 0
  BY Constants DEF BstType
<1>2. ASSUME NEW j \in b.i + 1..b.i + BoostLag PROVE Slot(j) # Slot(b.loc)
  <2>1. j \in Nat /\ b.loc < j /\ j - b.loc < BoostWindow
    BY <1>1, SMTT(30)
  <2> QED
    BY <1>1, <2>1, ApartInMemory DEF Slot
<1> QED
  BY <1>2 DEF Overtaking

(* Storing a byte keeps the latest ones; the byte fetched is the one at    *)
(* the source, if that is one of them and no later store came before it.   *)
LEMMA PrefetchFacts ==
    ASSUME TextOK, NEW b \in BstType, NEW ch \in Byte, ch = text[b.i + 1],
           b.i < n, Remembers(text, b), NEW c \in Prefetched(b, ch)
    PROVE  /\ c \in BstType /\ c.i = b.i + 1
           /\ c.loc = b.loc /\ c.len = b.len /\ c.flag = b.flag /\ c.skip = b.skip
           /\ c.out = b.out /\ c.sent = b.sent
           /\ c.pc = IF b.i + 1 < n - LeftBytes THEN "scan" ELSE "flush"
           /\ Remembers(text, c)
           /\ b.overtaken => c.overtaken
           /\ ~b.flag => (c.overtaken <=> b.overtaken)
           /\ b.loc >= 0 /\ b.loc <= b.i /\ b.loc >= b.i + 1 - BoostWindow =>
                 /\ b.flag /\ ~c.overtaken => c.nextCh = text[b.loc + 1]
                 /\ b.i - b.loc + BoostLag < BoostWindow =>
                       c.nextCh = text[b.loc + 1] /\ (c.overtaken <=> b.overtaken)
<1> DEFINE w == BoostWindow
           i == b.i
           mem == [b.mem EXCEPT ![Slot(i)] = ch]
           pc == IF i + 1 < n - LeftBytes THEN "scan" ELSE "flush"
           own == mem[Slot(b.loc)]
<1>0. PICK seen \in {own} \cup Overtaking(b) :
          c = [b EXCEPT !.mem = mem, !.i = @ + 1, !.nextCh = seen,
                        !.overtaken = @ \/ (b.flag /\ seen # own), !.pc = pc]
  BY DEF Prefetched
<1> DEFINE over == b.overtaken \/ (b.flag /\ seen # own)
<1>1. /\ w \in Nat /\ w > 0 /\ i \in Nat /\ b.mem \in [0..w - 1 -> Byte] /\ b.loc \in Int
  BY Constants DEF BstType
<1>2. \A j \in Int : Slot(j) \in 0..w - 1
  <2> HIDE DEF w
  <2> QED
    BY <1>1 DEF Slot, w
<1>3. mem \in [0..w - 1 -> Byte] /\ own \in Byte
  BY <1>1, <1>2
<1>4. c = [b EXCEPT !.mem = mem, !.i = i + 1, !.nextCh = seen, !.overtaken = over, !.pc = pc]
  BY <1>0 DEF BstType
<1>5. pc \in {"scan", "flush"}
  OBVIOUS
<1>6. mem[Slot(i)] = ch /\ \A j \in 0..w - 1 : j # Slot(i) => mem[j] = b.mem[j]
  <2> DEFINE s == Slot(i)
             old == b.mem
  <2>1. s \in 0..w - 1
    <3>1. i \in Int
      BY <1>1
    <3> HIDE DEF i, w
    <3> QED
      BY <1>2, <3>1
  <2>3. old \in [0..w - 1 -> Byte] /\ mem = [old EXCEPT ![s] = ch]
    BY <1>1
  <2> HIDE DEF s, old, mem, w
  <2>2. mem[s] = ch /\ \A j \in 0..w - 1 : j # s => mem[j] = old[j]
    BY <2>1, <2>3
  <2> QED
    BY <2>2 DEF s, old
<1>11. seen \in Byte
  <2>1. CASE seen \in Overtaking(b)
    <3>1. PICK j \in i + 1..i + BoostLag : j < n - LeftBytes /\ seen = At(j)
      BY <2>1 DEF Overtaking
    <3>2. text \in Seq(Byte) /\ n = Len(text) /\ n \in Nat /\ LeftBytes \in Nat /\ BoostLag \in Nat
      BY TextFacts, Constants
    <3>3. j + 1 \in 1..Len(text)
      BY <1>1, <3>1, <3>2
    <3> QED
      BY <3>1, <3>2, <3>3 DEF At
  <2>2. CASE seen = own
    BY <1>3, <2>2
  <2> QED
    BY <2>1, <2>2
<1>12. over \in BOOLEAN /\ b.flag \in BOOLEAN /\ b.overtaken \in BOOLEAN
  BY Zenon DEF BstType
<1> HIDE DEF mem, own, pc
<1>13. /\ b.overtaken => over
       /\ ~b.flag => (over <=> b.overtaken)
       /\ seen = own => (over <=> b.overtaken)
       /\ b.flag /\ ~over => seen = own
  BY <1>12
<1> HIDE DEF over
<1>7. /\ c \in BstType /\ c.i = i + 1 /\ c.mem = mem /\ c.nextCh = seen /\ c.pc = pc
      /\ c.loc = b.loc /\ c.len = b.len /\ c.flag = b.flag /\ c.skip = b.skip
      /\ c.out = b.out /\ c.sent = b.sent /\ c.overtaken = over
  <2>1. i + 1 \in Nat /\ pc \in {"scan", "flush", "left", "done"}
    BY <1>1, <1>5
  <2> HIDE DEF i
  <2> DEFINE half == [b EXCEPT !.mem = mem, !.i = i + 1, !.nextCh = seen, !.pc = pc]
  <2>2. half \in BstType
    BY <1>3, <1>11, <2>1 DEF BstType
  <2>3. c = [half EXCEPT !.overtaken = over]
    BY <1>4 DEF BstType
  <2>4. /\ c.i = i + 1 /\ c.mem = mem /\ c.nextCh = seen /\ c.pc = pc
        /\ c.loc = b.loc /\ c.len = b.len /\ c.flag = b.flag /\ c.skip = b.skip
        /\ c.out = b.out /\ c.sent = b.sent /\ c.overtaken = over
    BY <1>4 DEF BstType
  <2> HIDE DEF half
  <2>5. c = [half EXCEPT !.overtaken = TRUE] \/ c = [half EXCEPT !.overtaken = FALSE]
    BY <1>12, <2>3
  <2>6. c \in BstType
    BY <2>2, <2>5, ZenonT(30) DEF BstType
  <2> QED
    BY <2>4, <2>6
<1>8. ASSUME NEW j \in 0..i, j >= (i + 1) - w
      PROVE  mem[Slot(j)] = text[j + 1]
  <2>1. CASE j = i
    BY <1>6, <2>1
  <2>2. CASE j # i
    <3>1. j \in Nat /\ j < i /\ i - j < w /\ j >= i - w
      BY <1>1, <1>8, <2>2
    <3>2. Slot(j) # Slot(i)
      <4> HIDE DEF w, i
      <4> QED
        BY <1>1, <3>1, ApartInMemory DEF Slot, w
    <3>3. Slot(j) \in 0..w - 1
      BY <1>2, <3>1
    <3>4. b.mem[Slot(j)] = text[j + 1]
      <4>1. j \in 0..i - 1
        BY <1>1, <3>1
      <4> QED
        BY <3>1, <4>1 DEF Remembers
    <3> QED
      BY <1>6, <3>2, <3>3, <3>4
  <2> QED
    BY <2>1, <2>2
<1>9. Remembers(text, c)
  <2>1. ASSUME NEW j \in 0..c.i - 1, j >= c.i - w
        PROVE  c.mem[Slot(j)] = text[j + 1]
    <3>1. j \in 0..i /\ j >= (i + 1) - w
      BY <1>1, <1>7, <2>1
    <3> QED
      BY <1>7, <1>8, <3>1
  <2> QED
    BY <2>1 DEF Remembers
<1>10. ASSUME b.loc >= 0, b.loc <= i, b.loc >= i + 1 - w
       PROVE  own = text[b.loc + 1]
  <2>1. b.loc \in 0..i /\ b.loc >= (i + 1) - w
    BY <1>1, <1>10
  <2>2. mem[Slot(b.loc)] = text[b.loc + 1]
    BY <1>8, <2>1
  <2> QED
    BY <2>2 DEF own
<1>14. ASSUME b.loc >= 0, b.loc <= i, i - b.loc + BoostLag < w
       PROVE  seen = own
  BY <1>0, <1>14, NoneOvertakes
<1> QED
  BY <1>7, <1>9, <1>10, <1>13, <1>14 DEF pc

(* A record that is open when another begins, or when the scan ends, is    *)
(* complete: it reaches to where the booster is, and can be encoded.       *)
LEMMA Completed ==
    ASSUME NEW t, NEW b \in BstType, NEW p \in Nat, Open(t, b, p), b.skip = 0,
           ~(b.flag /\ b.len < MaxMatchLen /\ t[b.i + 1] = b.nextCh)
    PROVE  p + RecLen(b.out) = b.i /\ Fits(t, b.out, p)
<1>1. /\ b.i \in Nat /\ b.out \in FinderRecord /\ b.len \in Nat /\ b.out.len \in Nat
      /\ b.out.off \in Nat /\ b.loc \in Int /\ b.flag \in BOOLEAN
  BY Constants DEF BstType, FinderRecord
<1>2. /\ p < b.i /\ IsTrue(t, b.out, p) /\ (b.out.len > 0 => OffsetOK(b.out))
      /\ IF b.flag THEN Extending(t, b, p) ELSE Passing(b, p)
  BY DEF Open
<1>3. CASE ~b.flag
  <2>1. b.i + b.skip = p + RecLen(b.out) /\ Encodable(b.out)
    BY <1>2, <1>3 DEF Passing
  <2> QED
    BY <1>1, <1>2, <2>1 DEF Fits
<1>4. CASE b.flag
  <2>1. /\ b.out.len > 0
        /\ b.len \in 1..MaxMatchLen /\ b.i = p + b.len /\ (b.len >= 2 => b.out.len = b.len)
        /\ \A k \in 0..MinMatch - 1 : Agrees(t, p, b.out.off, k)
        /\ b.loc = b.i - b.out.off - 1 /\ b.nextCh = t[b.loc + 1]
    BY <1>2, <1>4 DEF Extending
  <2>2. b.out.len = b.len /\ b.len >= MinMatch
    <3>1. CASE b.len = MaxMatchLen
      BY <2>1, <3>1, Constants
    <3>2. CASE b.len # MaxMatchLen
      <4>1. t[b.i + 1] # b.nextCh
        BY <1>1, <1>4, <2>1, <3>2, Constants
      <4>2. b.i + 1 = p + b.len + 1 /\ b.loc + 1 = p + b.len - b.out.off
        BY <1>1, <2>1
      <4>3. ~Agrees(t, p, b.out.off, b.len)
        BY <2>1, <4>1, <4>2 DEF Agrees
      <4>4. b.len \notin 0..MinMatch - 1 /\ b.len \notin 0..b.out.len - 1
        BY <1>2, <2>1, <4>3 DEF IsTrue
      <4>5. b.len >= MinMatch /\ b.len >= b.out.len
        BY <1>1, <4>4, Constants
      <4> QED
        BY <1>1, <2>1, <4>5
    <3> QED
      BY <3>1, <3>2
  <2>3. RecLen(b.out) = b.len
    BY <1>1, <2>1, <2>2 DEF RecLen
  <2>4. Encodable(b.out)
    BY <1>2, <2>2 DEF Encodable
  <2> QED
    BY <1>1, <1>2, <2>1, <2>3, <2>4 DEF Fits
<1> QED
  BY <1>1, <1>3, <1>4

LEMMA CompletedAtFlush ==
    ASSUME NEW t, NEW b \in BstType, NEW p \in Nat, Open(t, b, p),
           Len(t) \in Nat, b.i = Len(t) - LeftBytes
    PROVE  p + RecLen(b.out) = b.i /\ Fits(t, b.out, p)
<1>1. /\ b.i \in Nat /\ b.out \in FinderRecord /\ b.len \in Nat /\ b.out.len \in Nat
      /\ b.flag \in BOOLEAN /\ b.skip \in Nat
  BY Constants DEF BstType, FinderRecord
<1>2. /\ p < b.i /\ IsTrue(t, b.out, p) /\ (b.out.len > 0 => OffsetOK(b.out))
      /\ IF b.flag THEN Extending(t, b, p) ELSE Passing(b, p)
  BY DEF Open
<1>3. b.out.len > 0 => p + b.out.len <= b.i
  BY <1>2 DEF IsTrue
<1>4. CASE ~b.flag
  <2>1. b.i + b.skip = p + RecLen(b.out) /\ Encodable(b.out)
    BY <1>2, <1>4 DEF Passing
  <2>2. RecLen(b.out) = IF b.out.len > 0 THEN b.out.len ELSE 1
    BY DEF RecLen
  <2>3. p + RecLen(b.out) = b.i
    BY <1>1, <1>2, <1>3, <2>1, <2>2
  <2> QED
    BY <1>1, <1>2, <2>1, <2>3 DEF Fits
<1>5. CASE b.flag
  <2>1. /\ b.out.len > 0
        /\ b.len \in 1..MaxMatchLen /\ b.i = p + b.len /\ (b.len >= 2 => b.out.len = b.len)
        /\ p + MinMatch <= b.i
    BY <1>2, <1>5 DEF Extending
  <2>2. b.out.len = b.len /\ b.len >= MinMatch
    BY <1>1, <1>3, <2>1, Constants
  <2>3. RecLen(b.out) = b.len
    BY <1>1, <2>1, <2>2 DEF RecLen
  <2>4. Encodable(b.out)
    BY <1>2, <2>2 DEF Encodable
  <2> QED
    BY <1>1, <1>2, <2>1, <2>3, <2>4 DEF Fits
<1> QED
  BY <1>1, <1>4, <1>5

(* After an iteration of the scan a record is open. *)
LEMMA BstScans ==
    ASSUME TextOK, BstInv, bst.pc = "scan", UNCHANGED text,
           bst' \in BstType, bst'.i = bst.i + 1,
           bst'.pc = IF bst.i + 1 < n - LeftBytes THEN "scan" ELSE "flush",
           Remembers(text, bst'), bst'.flag => Sourced(text, bst'),
           ~bst'.overtaken => Open(text, bst', SizeOf(bst'.sent))
    PROVE  BstInv'
<1>1. bst.i \in Nat /\ bst.i < n - LeftBytes /\ n \in Nat
  BY BstFacts, TextFacts DEF BstPlace
<1>2. bst'.i # 0 /\ n > 0
  BY <1>1, Constants
<1>3. BstPlace(bst', n)
  <2>1. CASE bst.i + 1 < n - LeftBytes
    BY <2>1 DEF BstPlace
  <2>2. CASE ~(bst.i + 1 < n - LeftBytes)
    <3>1. bst.i + 1 = n - LeftBytes
      BY <1>1, <2>2, Constants
    <3> QED
      BY <1>2, <2>2, <3>1 DEF BstPlace
  <2> QED
    BY <2>1, <2>2
<1>4. ~bst'.overtaken => Parsed(text, bst')
  BY <1>2 DEF Parsed
<1> QED
  BY <1>3, <1>4 DEF BstInv, n

LEMMA BstSkipStep ==
    ASSUME FinderInv, BstSkip
    PROVE  FinderInv'
<1> USE DEF FinderInv
<1> DEFINE b == [bst EXCEPT !.skip = @ - 1]
           p == SizeOf(bst.sent)
<1>1. /\ bst.pc = "scan" /\ bestQ # << >> /\ bestQ' = Tail(bestQ)
      /\ bst.skip > 0 /\ bst' \in Prefetched(b, Head(bestQ).ch)
      /\ UNCHANGED <<text, lz, dict, late, flt, inQ, cmpQ, recQ>>
  BY DEF BstSkip, BstReads
<1>2. /\ bst \in BstType /\ bst.i \in Nat /\ bst.skip \in Nat
      /\ Remembers(text, bst) /\ p \in Nat
      /\ bst.flag => Sourced(text, bst)
      /\ ~bst.overtaken => (bst.i > 0 => Open(text, bst, p)) /\ (bst.i = 0 => NoneOpen(bst))
  BY <1>1, BstFacts
<1>4. ~bst.flag
  BY <1>1, <1>2 DEF Sourced
<1>5. b \in BstType /\ b.skip = bst.skip - 1 /\ b.i = bst.i /\ b.mem = bst.mem
      /\ b.flag = bst.flag /\ b.out = bst.out /\ b.sent = bst.sent
      /\ b.overtaken = bst.overtaken
  <2>1. bst.skip - 1 \in Nat
    BY <1>1, <1>2
  <2> QED
    BY <1>2, <2>1 DEF BstType
<1>6. Remembers(text, b)
  BY <1>2, <1>5 DEF Remembers
<1> HIDE DEF b
<1>8. Head(bestQ).ch \in Byte /\ Head(bestQ).ch = text[bst.i + 1]
  BY <1>1, BstSees
<1>7. bst.i < n
  BY <1>1, <1>2, BstFacts, TextFacts, Constants DEF BstPlace
<1>9. /\ bst' \in BstType /\ bst'.i = bst.i + 1
      /\ bst'.flag = bst.flag /\ bst'.skip = bst.skip - 1
      /\ bst'.out = bst.out /\ bst'.sent = bst.sent
      /\ bst'.pc = IF bst.i + 1 < n - LeftBytes THEN "scan" ELSE "flush"
      /\ Remembers(text, bst') /\ (bst.overtaken => bst'.overtaken)
  BY <1>1, <1>5, <1>6, <1>7, <1>8, PrefetchFacts
<1>10. BestInv'
  BY <1>1, <1>9, BstTakes
<1>11. ASSUME ~bst'.overtaken PROVE Open(text, bst', p)
  <2>1. Open(text, bst, p)
    BY <1>1, <1>2, <1>9, <1>11 DEF NoneOpen
  <2>2. bst'.i + bst'.skip = bst.i + bst.skip
    BY <1>2, <1>9
  <2>3. Passing(bst', p)
    BY <1>4, <1>9, <2>1, <2>2 DEF Open, Passing
  <2>4. p < bst'.i
    BY <1>2, <1>9, <2>1 DEF Open
  <2> QED
    BY <1>4, <1>9, <2>1, <2>3, <2>4 DEF Open
<1>12. BstInv'
  BY <1>1, <1>4, <1>9, <1>11, BstScans
<1>13. TextOK' /\ DictInv' /\ LzInv' /\ CmpInv' /\ FltInv'
  BY <1>1, TextSame, DictSame, LzSame, CmpSame, FltSame
<1> QED
  BY <1>10, <1>12, <1>13

LEMMA BstExtendStep ==
    ASSUME FinderInv, BstExtend
    PROVE  FinderInv'
<1> USE DEF FinderInv
<1> DEFINE b == [bst EXCEPT !.len = @ + 1, !.loc = @ + 1, !.out.len = bst.len + 1]
           p == SizeOf(bst.sent)
           r == Head(bestQ)
<1>1. /\ bst.pc = "scan" /\ bestQ # << >> /\ bestQ' = Tail(bestQ)
      /\ bst.skip = 0 /\ bst.flag /\ bst.len < MaxMatchLen /\ r.ch = bst.nextCh
      /\ bst' \in Prefetched(b, r.ch)
      /\ UNCHANGED <<text, lz, dict, late, flt, inQ, cmpQ, recQ>>
  BY DEF BstExtend, BstReads, CanExtend
<1>2. /\ bst \in BstType /\ bst.i \in Nat /\ bst.len \in Nat /\ bst.loc \in Int
      /\ Remembers(text, bst) /\ p \in Nat /\ BstPlace(bst, n) /\ n \in Nat
      /\ Sourced(text, bst)
      /\ ~bst.overtaken => (bst.i > 0 => Open(text, bst, p)) /\ (bst.i = 0 => NoneOpen(bst))
  BY <1>1, BstFacts, TextFacts
<1>4. /\ bst.out \in FinderRecord /\ bst.out.len \in Nat /\ bst.out.off \in Nat
  BY <1>2, Constants DEF BstType, FinderRecord
<1>5. /\ OffsetOK(bst.out) /\ bst.out.len > 0 /\ bst.out.off < BoostWindow
      /\ bst.loc = bst.i - bst.out.off - 1 /\ bst.loc >= 0
  BY <1>2 DEF Sourced
<1> DEFINE out == [bst.out EXCEPT !.len = bst.len + 1]
<1>6. /\ out \in FinderRecord /\ out.len = bst.len + 1 /\ out.off = bst.out.off
      /\ out.ch = bst.out.ch
  <2>1. bst.len + 1 \in 0..MaxMatchLen
    <3>1. \A l, m \in Nat : l < m => l + 1 \in 0..m
      OBVIOUS
    <3>2. bst.len \in Nat /\ bst.len < MaxMatchLen /\ MaxMatchLen \in Nat
      BY <1>1, <1>2, Constants
    <3> HIDE DEF FinderInv
    <3> QED
      BY <3>1, <3>2, Zenon
  <2> QED
    BY <1>4, <2>1 DEF FinderRecord
<1>7. /\ b \in BstType /\ b.skip = bst.skip /\ b.i = bst.i /\ b.mem = bst.mem
      /\ b.flag = bst.flag /\ b.out = out /\ b.sent = bst.sent
      /\ b.len = bst.len + 1 /\ b.loc = bst.loc + 1 /\ b.overtaken = bst.overtaken
  <2>1. b = [bst EXCEPT !.len = bst.len + 1, !.loc = bst.loc + 1, !.out = out]
    BY <1>2 DEF BstType
  <2>2. bst.len + 1 \in Nat /\ bst.loc + 1 \in Int
    BY <1>2
  <2> HIDE DEF b, out
  <2> QED
    BY <1>2, <1>6, <2>1, <2>2 DEF BstType
<1>8. Remembers(text, b)
  BY <1>2, <1>7 DEF Remembers
<1> HIDE DEF b, out, p
<1>9. bst.i < n
  BY <1>1, <1>2, Constants DEF BstPlace
<1>10. r.ch \in Byte /\ r.ch = text[bst.i + 1]
  BY <1>1, BstSees
<1>11. /\ bst' \in BstType /\ bst'.i = bst.i + 1
       /\ bst'.flag = bst.flag /\ bst'.skip = bst.skip
       /\ bst'.len = bst.len + 1 /\ bst'.loc = bst.loc + 1
       /\ bst'.out = out /\ bst'.sent = bst.sent
       /\ bst'.pc = IF bst.i + 1 < n - LeftBytes THEN "scan" ELSE "flush"
       /\ Remembers(text, bst')
       /\ bst.overtaken => bst'.overtaken
       /\ b.loc >= 0 /\ b.loc <= b.i /\ b.loc >= b.i + 1 - BoostWindow =>
             /\ bst'.flag /\ ~bst'.overtaken => bst'.nextCh = text[b.loc + 1]
             /\ b.i - b.loc + BoostLag < BoostWindow => bst'.nextCh = text[b.loc + 1]
  <2>1. r.ch = text[b.i + 1]
    BY <1>7, <1>10
  <2>2. bst' \in Prefetched(b, r.ch) /\ b.i < n
    BY <1>1, <1>7, <1>9
  <2> HIDE DEF r
  <2> QED
    BY <1>7, <1>8, <1>10, <2>1, <2>2, PrefetchFacts
<1>12. BestInv'
  BY <1>1, <1>11, BstTakes
<1>13. /\ b.loc = bst.i - out.off /\ b.i = bst.i
       /\ b.loc >= 0 /\ b.loc <= b.i /\ b.loc >= b.i + 1 - BoostWindow
       /\ b.i - b.loc = out.off
  <2>1. b.loc = bst.i - out.off /\ b.i = bst.i
    BY <1>2, <1>4, <1>5, <1>6, <1>7
  <2> QED
    BY <1>2, <1>4, <1>5, <1>6, <2>1, Constants
<1>14. /\ bst'.loc = bst'.i - out.off - 1 /\ bst'.loc >= 0 /\ bst'.loc + 1 = b.loc + 1
       /\ ~bst'.overtaken => bst'.nextCh = text[bst'.loc + 1]
       /\ out.off + BoostLag < BoostWindow => bst'.nextCh = text[bst'.loc + 1]
  <2>1. bst'.loc = b.loc /\ bst'.loc = bst'.i - out.off - 1 /\ bst'.loc >= 0
    BY <1>2, <1>4, <1>5, <1>6, <1>7, <1>11
  <2> QED
    BY <1>1, <1>11, <1>13, <2>1
<1>21. Sourced(text, bst')
  <2>1. OffsetOK(out) /\ out.len > 0
    BY <1>2, <1>5, <1>6 DEF OffsetOK
  <2> QED
    BY <1>1, <1>5, <1>6, <1>11, <1>14, <2>1 DEF Sourced
<1>18. ASSUME ~bst'.overtaken PROVE Open(text, bst', SizeOf(bst'.sent))
  <2>3. Open(text, bst, p)
    BY <1>1, <1>2, <1>11, <1>18 DEF NoneOpen
  <2>5. /\ p < bst.i /\ IsTrue(text, bst.out, p) /\ bst.out.off < p
        /\ bst.len \in 1..MaxMatchLen /\ bst.i = p + bst.len
        /\ (bst.len >= 2 => bst.out.len = bst.len)
        /\ p + MinMatch <= Len(text) - LeftBytes
        /\ \A k \in 0..MinMatch - 1 : Agrees(text, p, bst.out.off, k)
        /\ bst.nextCh = text[bst.loc + 1]
    BY <1>1, <1>5, <2>3 DEF Open, Extending, IsTrue
  <2>15. Agrees(text, p, out.off, bst.len)
    <3>1. text[bst.i + 1] = text[bst.loc + 1]
      BY <1>1, <1>10, <2>5
    <3>2. bst.i + 1 = p + bst.len + 1 /\ bst.loc + 1 = p + bst.len - out.off
      BY <1>2, <1>4, <1>5, <1>6, <2>5, SMTT(30)
    <3> QED
      BY <3>1, <3>2 DEF Agrees
  <2>16. IsTrue(text, out, p)
    <3>1. ASSUME NEW k \in 0..out.len - 1 PROVE Agrees(text, p, out.off, k)
      <4>1. k \in 0..bst.len
        BY <1>2, <1>6
      <4>2. CASE k = bst.len
        BY <2>15, <4>2
      <4>3. CASE k # bst.len
        <5>1. k \in 0..bst.out.len - 1
          <6>1. CASE bst.len >= 2
            BY <1>2, <2>5, <4>1, <4>3, <6>1
          <6>2. CASE bst.len = 1
            BY <1>4, <1>5, <4>1, <4>3, <6>2
          <6> QED
            BY <2>5, <6>1, <6>2, Constants
        <5>2. Agrees(text, p, bst.out.off, k)
          BY <2>5, <5>1 DEF IsTrue
        <5> QED
          BY <1>6, <5>2
      <4> QED
        BY <4>2, <4>3
    <3>2. out.ch = text[p + 1]
      BY <1>6, <2>5 DEF IsTrue
    <3>3. p + out.len <= Len(text) - LeftBytes
      <4>1. bst.i < Len(text) - LeftBytes
        BY <1>1, <1>2 DEF BstPlace, n
      <4> QED
        BY <1>2, <1>6, <2>5, <4>1, Constants, SMTT(30) DEF n
    <3> QED
      BY <1>6, <2>5, <3>1, <3>2, <3>3 DEF IsTrue
  <2>17. Extending(text, bst', p)
    <3>1. bst.len + 1 \in 1..MaxMatchLen /\ bst.i + 1 = p + (bst.len + 1)
      BY <1>1, <1>2, <2>5, Constants, SMTT(30)
    <3>2. bst.loc + 1 = (bst.i + 1) - out.off - 1
      BY <1>2, <1>4, <1>5, <1>6, SMTT(30)
    <3>3. out.len > 0
      BY <1>2, <1>6
    <3> QED
      BY <1>1, <1>5, <1>6, <1>11, <1>14, <1>18, <2>5, <3>1, <3>2, <3>3 DEF Extending
  <2> QED
    <3>1. p < bst'.i
      BY <1>2, <1>11, <2>5
    <3>2. OffsetOK(out)
      BY <1>5, <1>6 DEF OffsetOK
    <3>3. bst'.flag /\ SizeOf(bst'.sent) = p
      BY <1>1, <1>11 DEF p
    <3> QED
      BY <1>11, <2>16, <2>17, <3>1, <3>2, <3>3 DEF Open
<1>19. BstInv'
  BY <1>1, <1>11, <1>18, <1>21, BstScans
<1>20. TextOK' /\ DictInv' /\ LzInv' /\ CmpInv' /\ FltInv'
  BY <1>1, TextSame, DictSame, LzSame, CmpSame, FltSame
<1> QED
  BY <1>12, <1>19, <1>20

LEMMA OpenedFacts ==
    ASSUME NEW b \in BstType, NEW r \in FinderRecord, NEW c, c = Opened(b, r)
    PROVE  /\ c \in BstType /\ c.pc = b.pc /\ c.i = b.i /\ c.mem = b.mem /\ c.sent = b.sent
           /\ c.len = 1 /\ c.loc = b.i - r.off /\ c.out = r
           /\ c.flag = (r.len > 0 /\ r.off < BoostWindow) /\ c.overtaken = b.overtaken
           /\ c.skip = IF r.len > 0 /\ ~(r.off < BoostWindow) THEN r.len - 1 ELSE 0
<1>1. b.i \in Nat /\ r.off \in Nat /\ r.len \in Nat
  BY Constants DEF BstType, FinderRecord
<1> DEFINE loc == b.i - r.off
           flag == r.len > 0 /\ r.off < BoostWindow
           skip == IF r.len > 0 /\ ~(r.off < BoostWindow) THEN r.len - 1 ELSE 0
<1>2. loc \in Int /\ flag \in BOOLEAN /\ skip \in Nat
  BY <1>1
<1>3. c = [b EXCEPT !.len = 1, !.loc = loc, !.out = r, !.flag = flag, !.skip = skip]
  BY DEF Opened, Near
<1> HIDE DEF loc, flag, skip
<1> DEFINE half == [b EXCEPT !.len = 1, !.loc = loc, !.out = r]
<1>4. c \in BstType
  <2>1. half \in BstType
    BY <1>2 DEF BstType
  <2>2. c = [half EXCEPT !.flag = flag, !.skip = skip]
    BY <1>3 DEF BstType
  <2> HIDE DEF half
  <2>3. c = [half EXCEPT !.flag = TRUE, !.skip = skip]
        \/ c = [half EXCEPT !.flag = FALSE, !.skip = skip]
    BY <1>2, <2>2
  <2> QED
    BY <1>2, <2>1, <2>3, ZenonT(30) DEF BstType
<1>5. /\ c.pc = b.pc /\ c.i = b.i /\ c.mem = b.mem /\ c.sent = b.sent
      /\ c.len = 1 /\ c.loc = loc /\ c.out = r /\ c.flag = flag /\ c.skip = skip
      /\ c.overtaken = b.overtaken
  BY <1>3 DEF BstType
<1> QED
  BY <1>4, <1>5 DEF loc, flag, skip

(* The record a new one puts an end to. *)
LEMMA NewEmits ==
    ASSUME TextOK, BstInv, BestInv, bst.pc = "scan", bestQ # << >>, bst.skip = 0,
           ~CanExtend(Head(bestQ)), bst.i > 0, ~bst.overtaken
    PROVE  Fits(text, bst.out, SizeOf(bst.sent)) /\ SizeOf(bst.sent) + RecLen(bst.out) = bst.i
<1>1. Open(text, bst, SizeOf(bst.sent)) /\ bst \in BstType /\ SizeOf(bst.sent) \in Nat
  BY BstFacts
<1>2. Head(bestQ).ch = text[bst.i + 1]
  BY BstSees
<1>3. ~(bst.flag /\ bst.len < MaxMatchLen /\ text[bst.i + 1] = bst.nextCh)
  BY <1>2 DEF CanExtend
<1> QED
  BY <1>1, <1>3, Completed

LEMMA EmittingFacts ==
    ASSUME NEW b \in BstType, NEW c, c = Emitting(b)
    PROVE  /\ c \in BstType /\ c.sent = Append(b.sent, b.out)
           /\ c.pc = b.pc /\ c.i = b.i /\ c.mem = b.mem /\ c.loc = b.loc /\ c.len = b.len
           /\ c.flag = b.flag /\ c.skip = b.skip /\ c.nextCh = b.nextCh /\ c.out = b.out
           /\ c.overtaken = b.overtaken
<1>1. b.sent \in Seq(FinderRecord) /\ b.out \in FinderRecord
  BY DEF BstType
<1> DEFINE sent == Append(b.sent, b.out)
<1>2. sent \in Seq(FinderRecord)
  BY <1>1
<1>3. c = [b EXCEPT !.sent = sent]
  BY DEF Emitting
<1> HIDE DEF sent
<1> QED
  BY <1>2, <1>3 DEF BstType, sent

(* What the record just opened is, after the byte it begins with. *)
LEMMA NewOpen ==
    ASSUME TextOK, NEW b \in BstType, NEW r, Fits(text, r, b.i), Remembers(text, b),
           b.i < n, NEW c \in Prefetched(Opened(b, r), r.ch)
    PROVE  /\ c \in BstType /\ c.i = b.i + 1 /\ c.sent = b.sent
           /\ c.pc = IF b.i + 1 < n - LeftBytes THEN "scan" ELSE "flush"
           /\ Remembers(text, c) /\ (b.overtaken => c.overtaken)
           /\ c.flag => Sourced(text, c)
           /\ ~c.overtaken => Open(text, c, b.i)
<1> DEFINE p == b.i
           o == Opened(b, r)
<1>1. /\ r \in FinderRecord /\ r.ch \in Byte /\ r.ch = text[p + 1] /\ r.len \in Nat /\ r.off \in Nat
      /\ IsTrue(text, r, p) /\ Encodable(r) /\ p \in Nat
  BY Constants DEF Fits, IsTrue, FinderRecord, BstType
<1>2. /\ o \in BstType /\ o.i = b.i /\ o.mem = b.mem /\ o.sent = b.sent
      /\ o.len = 1 /\ o.loc = b.i - r.off /\ o.out = r
      /\ o.flag = (r.len > 0 /\ r.off < BoostWindow) /\ o.overtaken = b.overtaken
      /\ o.skip = IF r.len > 0 /\ ~(r.off < BoostWindow) THEN r.len - 1 ELSE 0
  BY <1>1, OpenedFacts
<1> HIDE DEF o
<1>3. Remembers(text, o)
  BY <1>2 DEF Remembers
<1>4. r.ch = text[o.i + 1] /\ c \in Prefetched(o, r.ch) /\ o.i < n
  BY <1>1, <1>2 DEF o
<1>5. /\ c \in BstType /\ c.i = o.i + 1
      /\ c.loc = o.loc /\ c.len = o.len /\ c.flag = o.flag /\ c.skip = o.skip
      /\ c.out = o.out /\ c.sent = o.sent
      /\ c.pc = IF o.i + 1 < n - LeftBytes THEN "scan" ELSE "flush"
      /\ Remembers(text, c) /\ (o.overtaken => c.overtaken)
      /\ o.loc >= 0 /\ o.loc <= o.i /\ o.loc >= o.i + 1 - BoostWindow =>
            /\ o.flag /\ ~c.overtaken => c.nextCh = text[o.loc + 1]
            /\ o.i - o.loc + BoostLag < BoostWindow => c.nextCh = text[o.loc + 1]
  BY <1>1, <1>2, <1>3, <1>4, PrefetchFacts
<1> HIDE DEF p
<1>6. c.i = p + 1 /\ c.out = r /\ c.len = 1 /\ c.loc = p - r.off
      /\ c.flag = (r.len > 0 /\ r.off < BoostWindow)
      /\ c.skip = IF r.len > 0 /\ ~(r.off < BoostWindow) THEN r.len - 1 ELSE 0
  BY <1>2, <1>5 DEF p
<1>7. r.len > 0 => r.off < p /\ p + r.len <= Len(text) - LeftBytes
  BY <1>1 DEF IsTrue
<1>8. r.len > 0 => r.len >= MinMatch /\ OffsetOK(r)
  BY <1>1 DEF Encodable
<1>11. ASSUME r.len > 0, r.off < BoostWindow
       PROVE  /\ ~c.overtaken => c.nextCh = text[c.loc + 1]
              /\ r.off + BoostLag < BoostWindow => c.nextCh = text[c.loc + 1]
              /\ c.loc >= 0
  <2>1. o.loc = p - r.off /\ o.i = p /\ c.loc = o.loc /\ o.flag
    BY <1>2, <1>5, <1>11 DEF p
  <2>2. o.loc >= 0 /\ o.loc <= o.i /\ o.loc >= o.i + 1 - BoostWindow /\ o.i - o.loc = r.off
    BY <1>1, <1>7, <1>11, <2>1, Constants
  <2> QED
    BY <1>5, <2>1, <2>2
<1>12. c.flag => Sourced(text, c)
  <2> SUFFICES ASSUME c.flag PROVE Sourced(text, c)
    OBVIOUS
  <2>1. r.len > 0 /\ r.off < BoostWindow /\ c.skip = 0 /\ OffsetOK(r)
    BY <1>6, <1>8
  <2>2. c.loc = c.i - r.off - 1
    BY <1>1, <1>6
  <2> QED
    BY <1>6, <1>11, <2>1, <2>2 DEF Sourced
<1>9. ASSUME r.len > 0 /\ r.off < BoostWindow, ~c.overtaken PROVE Open(text, c, p)
  <2>1. c.flag /\ c.skip = 0
    BY <1>6, <1>9
  <2>2. c.nextCh = text[c.loc + 1]
    BY <1>9, <1>11
  <2>3. c.loc = c.i - r.off - 1
    BY <1>1, <1>6
  <2>4. p + MinMatch <= Len(text) - LeftBytes
    <3>1. Len(text) \in Nat
      BY TextFacts
    <3> QED
      BY <1>1, <1>7, <1>8, <1>9, <3>1, Constants
  <2>5. \A k \in 0..MinMatch - 1 : Agrees(text, p, r.off, k)
    <3>1. \A k \in 0..MinMatch - 1 : k \in 0..r.len - 1
      BY <1>1, <1>8, <1>9, Constants
    <3> QED
      BY <1>1, <3>1 DEF IsTrue
  <2>6. 1 \in 1..MaxMatchLen
    BY Constants
  <2>7. Extending(text, c, p)
    BY <1>1, <1>6, <1>9, <2>1, <2>2, <2>3, <2>4, <2>5, <2>6, SMTT(30) DEF Extending
  <2>8. p < c.i
    BY <1>1, <1>6
  <2> QED
    BY <1>1, <1>5, <1>6, <1>8, <2>1, <2>7, <2>8, <1>2 DEF Open, p
<1>10. ASSUME ~(r.len > 0 /\ r.off < BoostWindow) PROVE Open(text, c, p)
  <2>1. ~c.flag
    BY <1>6, <1>10
  <2>2. c.i + c.skip = p + RecLen(r)
    <3>1. CASE r.len > 0
      BY <1>1, <1>6, <1>10, <3>1 DEF RecLen
    <3>2. CASE ~(r.len > 0)
      BY <1>1, <1>6, <1>10, <3>2 DEF RecLen
    <3> QED
      BY <3>1, <3>2
  <2>3. Passing(c, p) /\ p < c.i
    BY <1>1, <1>6, <2>2 DEF Passing
  <2> QED
    BY <1>1, <1>5, <1>6, <1>8, <2>1, <2>3, <1>2 DEF Open, p
<1> QED
  BY <1>2, <1>5, <1>9, <1>10, <1>12 DEF p

LEMMA BstNewStep ==
    ASSUME FinderInv, BstNew
    PROVE  FinderInv'
<1> USE DEF FinderInv
<1> DEFINE r == Head(bestQ)
           b == IF bst.i = 0 THEN bst ELSE Emitting(bst)
<1>1. /\ bst.pc = "scan" /\ bestQ # << >> /\ bestQ' = Tail(bestQ)
      /\ bst.skip = 0 /\ ~CanExtend(r)
      /\ bst' \in Prefetched(Opened(b, r), r.ch)
      /\ UNCHANGED <<text, lz, dict, late, flt, inQ, cmpQ>>
  <2>1. bst.i = 0 => bst' \in Prefetched(Opened(bst, r), r.ch)
    BY DEF BstNew, NoneOpenYet
  <2>2. bst.i # 0 => bst' \in Prefetched(Opened(Emitting(bst), r), r.ch)
    BY DEF BstNew, NoneOpenYet
  <2>3. bst' \in Prefetched(Opened(b, r), r.ch)
    BY <2>1, <2>2
  <2> HIDE DEF b, r
  <2> QED
    BY <2>3 DEF BstNew, BstReads, r
<1>2. /\ bst \in BstType /\ bst.i \in Nat /\ Remembers(text, bst)
      /\ SizeOf(bst.sent) \in Nat /\ bst.out \in FinderRecord /\ bst.sent \in Seq(FinderRecord)
      /\ ~bst.overtaken /\ bst.i = 0 => NoneOpen(bst)
      /\ bst.i < n
  BY <1>1, BstFacts, TextFacts, Constants DEF BstPlace
<1>3. Fits(text, r, bst.i)
  BY <1>1, BstSees
<1>4. /\ b \in BstType /\ b.i = bst.i /\ b.mem = bst.mem /\ b.overtaken = bst.overtaken
      /\ ~bst.overtaken => SizeOf(b.sent) = bst.i
  <2>1. CASE bst.i = 0
    BY <1>2, <2>1, SizeOfNone DEF NoneOpen
  <2>2. CASE bst.i # 0
    <3>1. b = Emitting(bst)
      BY <2>2
    <3>2. bst.i > 0
      BY <1>2, <2>2
    <3>3. ~bst.overtaken => SizeOf(bst.sent) + RecLen(bst.out) = bst.i
      BY <1>1, <3>2, NewEmits
    <3>4. SizeOf(Append(bst.sent, bst.out)) = SizeOf(bst.sent) + RecLen(bst.out)
      BY <1>2, SizeOfMore
    <3> HIDE DEF b
    <3>5. b \in BstType /\ b.i = bst.i /\ b.mem = bst.mem
          /\ b.sent = Append(bst.sent, bst.out) /\ b.overtaken = bst.overtaken
      BY <1>2, <3>1, EmittingFacts
    <3> QED
      BY <3>3, <3>4, <3>5
  <2> QED
    BY <2>1, <2>2
<1>5. Remembers(text, b)
  BY <1>2, <1>4 DEF Remembers
<1> HIDE DEF b, r
<1>6. /\ bst' \in BstType /\ bst'.i = bst.i + 1 /\ bst'.sent = b.sent
      /\ bst'.pc = IF bst.i + 1 < n - LeftBytes THEN "scan" ELSE "flush"
      /\ Remembers(text, bst') /\ (bst.overtaken => bst'.overtaken)
      /\ bst'.flag => Sourced(text, bst')
      /\ ~bst'.overtaken => Open(text, bst', bst.i)
  BY <1>1, <1>2, <1>3, <1>4, <1>5, NewOpen
<1>7. BestInv'
  BY <1>1, <1>6, BstTakes
<1>8. ~bst'.overtaken => Open(text, bst', SizeOf(bst'.sent))
  BY <1>2, <1>4, <1>6
<1>9. BstInv'
  BY <1>1, <1>6, <1>8, BstScans
<1>10. TextOK' /\ DictInv' /\ LzInv' /\ CmpInv' /\ FltInv'
  BY <1>1, TextSame, DictSame, LzSame, CmpSame, FltSame
<1> QED
  BY <1>7, <1>9, <1>10

LEMMA FlushEmits ==
    ASSUME TextOK, BstInv, bst.pc = "flush", ~bst.overtaken
    PROVE  /\ Fits(text, bst.out, SizeOf(bst.sent))
           /\ SizeOf(bst.sent) + RecLen(bst.out) = bst.i
           /\ bst.i = n - LeftBytes /\ n > 0
<1>1. bst.i = n - LeftBytes /\ n > 0 /\ bst.i > 0
  BY BstFacts, TextFacts, Constants DEF BstPlace
<1>2. /\ Open(text, bst, SizeOf(bst.sent)) /\ bst \in BstType /\ SizeOf(bst.sent) \in Nat
  BY <1>1, BstFacts
<1>3. Len(text) \in Nat /\ bst.i = Len(text) - LeftBytes
  BY <1>1, TextFacts DEF n
<1> QED
  BY <1>1, <1>2, <1>3, CompletedAtFlush

LEMMA BstFlushStep ==
    ASSUME FinderInv, BstFlush
    PROVE  FinderInv'
<1> USE DEF FinderInv
<1> DEFINE b == Emitting(bst)
<1>1. /\ bst.pc = "flush" /\ bst' = [b EXCEPT !.pc = "left"]
      /\ UNCHANGED <<text, lz, dict, late, flt, inQ, cmpQ, bestQ>>
  BY DEF BstFlush
<1>2. /\ bst \in BstType /\ bst.i \in Nat /\ bst.out \in FinderRecord /\ bst.sent \in Seq(FinderRecord)
      /\ SizeOf(bst.sent) \in Nat /\ n \in Nat
  BY BstFacts, TextFacts
<1>3. bst.i = n - LeftBytes
  BY <1>1, BstFacts DEF BstPlace
<1>4. /\ b \in BstType /\ b.sent = Append(bst.sent, bst.out) /\ b.i = bst.i
      /\ b.overtaken = bst.overtaken
  BY <1>2, EmittingFacts
<1> HIDE DEF b
<1>5. /\ bst' \in BstType /\ bst'.sent = b.sent /\ bst'.i = bst.i /\ bst'.pc = "left"
      /\ bst'.overtaken = bst.overtaken
  BY <1>1, <1>4 DEF BstType
<1>6. ASSUME ~bst'.overtaken PROVE Parsed(text, bst')
  <2>1. SizeOf(bst.sent) + RecLen(bst.out) = bst.i
    BY <1>1, <1>5, <1>6, FlushEmits
  <2>2. SizeOf(bst'.sent) = bst.i
    BY <1>2, <1>4, <1>5, <2>1, SizeOfMore
  <2> QED
    BY <1>5, <2>2 DEF Parsed
<1>7. BstPlace(bst', n)
  <2>1. bst.i < n
    BY <1>2, <1>3, Constants
  <2> QED
    BY <1>2, <1>3, <1>5, <2>1, Constants DEF BstPlace
<1>8. BstInv'
  BY <1>1, <1>5, <1>6, <1>7 DEF BstInv, n
<1>9. BestInv'
  <2>1. FitFrom(text, bestQ, bst.i) /\ bst.i + Len(bestQ) = flt.i - Len(flt.win)
    BY DEF BestInv
  <2> QED
    BY <1>1, <1>5, <2>1 DEF BestInv
<1>10. TextOK' /\ DictInv' /\ LzInv' /\ CmpInv' /\ FltInv'
  BY <1>1, TextSame, DictSame, LzSame, CmpSame, FltSame
<1> QED
  BY <1>8, <1>9, <1>10

(* The last bytes are literals. *)
LEMMA LeftEmits ==
    ASSUME TextOK, BstInv, BestInv, bst.pc = "left", bestQ # << >>
    PROVE  /\ ~bst.overtaken => /\ Fits(text, Head(bestQ), SizeOf(bst.sent))
                                /\ SizeOf(bst.sent) = bst.i
           /\ bst.i < n /\ RecLen(Head(bestQ)) = 1 /\ Head(bestQ) \in FinderRecord
<1>1. /\ bst.i >= n - LeftBytes /\ bst.i < n /\ (~bst.overtaken => SizeOf(bst.sent) = bst.i)
      /\ bst.i \in Nat /\ n \in Nat
  BY BstFacts, TextFacts DEF BstPlace
<1>2. Fits(text, Head(bestQ), bst.i) /\ Head(bestQ) \in FinderRecord
  BY BstSees
<1> DEFINE r == Head(bestQ)
<1>3. r.len \in Nat /\ (r.len > 0 => bst.i + r.len <= n - LeftBytes)
  BY <1>2, Constants DEF FinderRecord, Fits, IsTrue, n
<1>4. RecLen(r) = 1
  BY <1>1, <1>3, Constants DEF RecLen
<1> QED
  BY <1>1, <1>2, <1>4

LEMMA BstLeftBytesStep ==
    ASSUME FinderInv, BstLeftBytes
    PROVE  FinderInv'
<1> USE DEF FinderInv
<1> DEFINE r == Head(bestQ)
           sent == Append(bst.sent, r)
           pc == IF bst.i + 1 = n THEN "done" ELSE "left"
<1>1. /\ bst.pc = "left" /\ bestQ # << >> /\ bestQ' = Tail(bestQ)
      /\ bst' = [bst EXCEPT !.i = @ + 1, !.sent = Append(@, r),
                            !.pc = IF bst.i + 1 = n THEN "done" ELSE "left"]
      /\ UNCHANGED <<text, lz, dict, late, flt, inQ, cmpQ>>
  BY DEF BstLeftBytes
<1>2. /\ bst \in BstType /\ bst.i \in Nat /\ bst.sent \in Seq(FinderRecord)
      /\ SizeOf(bst.sent) \in Nat /\ n \in Nat /\ BstPlace(bst, n)
  BY BstFacts, TextFacts
<1>3. /\ ~bst.overtaken => SizeOf(bst.sent) = bst.i
      /\ bst.i < n /\ RecLen(r) = 1 /\ r \in FinderRecord
  BY <1>1, LeftEmits
<1>4. sent \in Seq(FinderRecord) /\ (~bst.overtaken => SizeOf(sent) = bst.i + 1)
  BY <1>2, <1>3, SizeOfMore
<1>5. pc \in {"left", "done"} /\ bst.i + 1 \in Nat
  BY <1>2
<1>6. bst' = [bst EXCEPT !.i = bst.i + 1, !.sent = sent, !.pc = pc]
  BY <1>1
<1> HIDE DEF r, sent
<1>7. /\ bst' \in BstType /\ bst'.sent = sent /\ bst'.i = bst.i + 1 /\ bst'.pc = pc
      /\ bst'.overtaken = bst.overtaken
  <2> HIDE DEF pc
  <2> QED
    BY <1>2, <1>4, <1>5, <1>6 DEF BstType
<1>8. BstPlace(bst', n)
  <2>1. bst.i >= n - LeftBytes
    BY <1>1, <1>2 DEF BstPlace
  <2>2. CASE bst.i + 1 = n
    BY <1>4, <1>7, <2>2 DEF BstPlace
  <2>3. CASE bst.i + 1 # n
    BY <1>2, <1>3, <1>4, <1>7, <2>1, <2>3, Constants DEF BstPlace
  <2> QED
    BY <2>2, <2>3
<1>9. bst'.pc \in {"left", "done"}
  BY <1>5, <1>7
<1>13. ~bst'.overtaken => Parsed(text, bst')
  BY <1>4, <1>7, <1>9 DEF Parsed
<1>10. BstInv'
  BY <1>1, <1>7, <1>8, <1>9, <1>13 DEF BstInv, n
<1>11. BestInv'
  BY <1>1, <1>7, BstTakes
<1>12. TextOK' /\ DictInv' /\ LzInv' /\ CmpInv' /\ FltInv'
  BY <1>1, TextSame, DictSame, LzSame, CmpSame, FltSame
<1> QED
  BY <1>10, <1>11, <1>12

-----------------------------------------------------------------------------
(* The invariant of the match finder, and what follows from it *)

(* The processes of the finder are about to read the block. *)
Starting ==
    /\ TextOK
    /\ lz = LzStart(text) /\ flt = FltStart(text)
    /\ \E junk \in Byte : bst = BstStart(text, junk)
    /\ dict = Flushed /\ late = << >>
    /\ inQ = text /\ cmpQ = << >> /\ bestQ = << >>

LEMMA FinderStart == Starting => FinderInv
<1> SUFFICES ASSUME Starting PROVE FinderInv
  OBVIOUS
<1>1. PICK junk \in Byte : bst = BstStart(text, junk)
  BY DEF Starting
<1>2. /\ lz = LzStart(text) /\ flt = FltStart(text)
      /\ dict = Flushed /\ late = << >>
      /\ inQ = text /\ cmpQ = << >> /\ bestQ = << >>
  BY DEF Starting
<1>3. TextOK
  BY DEF Starting
<1>4. n = Len(text) /\ n \in Nat /\ (n > 0 => n >= LeftBytes + MatchLen) /\ text \in Seq(Byte)
  BY <1>3, TextFacts
<1>5. DictInv
  <2>1. << >> \in Bucket(text) /\ << >> \in Seq(Write(text))
    BY DEF Bucket
  <2> QED
    BY <1>2, <2>1 DEF DictInv, Flushed
<1>6. LzInv
  <2>1. lz \in LzType /\ lz.i = 0 /\ lz.win = << >> /\ Len(lz.win) = 0
        /\ lz.pc = IF n = 0 THEN "done" ELSE "fill"
    BY <1>2, <1>4 DEF LzStart, Start, LzType
  <2>2. BytesRead(lz) = 0
    BY <2>1 DEF BytesRead
  <2>3. RestOf(text, inQ, 0) /\ EndsAt(text, lz.win, 0)
    BY <1>2, <1>4, <2>1 DEF RestOf, EndsAt
  <2>4. LzPlace(lz, n)
    BY <1>4, <2>1, Constants DEF LzPlace
  <2> QED
    BY <2>1, <2>2, <2>3, <2>4 DEF LzInv, n
<1>7. FltInv /\ flt.i = 0 /\ flt.win = << >>
  <2>1. flt \in FltType /\ flt.i = 0 /\ flt.win = << >> /\ Len(flt.win) = 0
        /\ flt.pc = IF n = 0 THEN "done" ELSE "fill"
    BY <1>2, <1>4 DEF FltStart, Start, FltType
  <2>2. FltPlace(flt, n)
    BY <1>4, <2>1, Constants DEF FltPlace
  <2> QED
    BY <2>1, <2>2, FitNone DEF FltInv, n
<1>8. CmpInv
  <2>1. BytesRead(lz) - Len(lz.win) = 0
    BY <1>2 DEF LzStart, BytesRead
  <2> QED
    BY <1>2, <1>7, <2>1, FitNone DEF CmpInv
<1>9. BstInv /\ bst.i = 0
  <2>1. /\ bst.i = 0 /\ bst.sent = << >> /\ bst.skip = 0 /\ bst.flag = FALSE
        /\ bst.overtaken = FALSE
        /\ bst.pc = IF n = 0 THEN "done" ELSE "scan"
    BY <1>1, <1>4 DEF BstStart, Start
  <2>2. bst \in BstType
    <3>1. Literal(junk) \in FinderRecord
      BY Constants DEF Literal, FinderRecord
    <3>2. [k \in 0..BoostWindow - 1 |-> junk] \in [0..BoostWindow - 1 -> Byte]
      OBVIOUS
    <3>3. Start(text, "scan") \in {"scan", "flush", "left", "done"}
      BY DEF Start
    <3>4. << >> \in Seq(FinderRecord)
      OBVIOUS
    <3> QED
      BY <1>1, <3>1, <3>2, <3>3, <3>4 DEF BstStart, BstType
  <2>3. BstPlace(bst, n)
    BY <1>4, <2>1, Constants DEF BstPlace
  <2>4. Remembers(text, bst)
    BY <2>1 DEF Remembers
  <2>5. Parsed(text, bst)
    BY <1>4, <2>1, SizeOfNone DEF Parsed, NoneOpen
  <2> QED
    BY <2>1, <2>2, <2>3, <2>4, <2>5 DEF BstInv, n
<1>10. BestInv
  <2>1. flt.i - Len(flt.win) = 0 /\ bst.i + Len(bestQ) = 0
    <3>1. Len(<< >>) = 0
      OBVIOUS
    <3>2. flt.i = 0 /\ bst.i = 0 /\ Len(flt.win) = 0 /\ Len(bestQ) = 0
      BY <1>2, <1>7, <1>9, <3>1, Zenon
    <3> QED
      BY <3>2
  <2> QED
    BY <1>2, <2>1, FitNone DEF BestInv
<1> QED
  BY <1>3, <1>5, <1>6, <1>7, <1>8, <1>9, <1>10 DEF FinderInv

LEMMA FinderStays == ASSUME FinderInv, UNCHANGED <<text, lz, dict, late, flt, bst, inQ, cmpQ, bestQ>>
                     PROVE  FinderInv'
<1> USE DEF FinderInv
<1> QED
  BY TextSame, DictSame, LzSame, FltSame, CmpSame, BestSame, BstSame

LEMMA FinderKeeps == FinderInv /\ [FinderNext]_finderVars => FinderInv'
<1> SUFFICES ASSUME FinderInv, [FinderNext]_finderVars PROVE FinderInv'
  OBVIOUS
<1>1. CASE LzCompress
  BY <1>1, LzFillStep, LzScanStep, LzLeftOverStep, LzLeftBytesStep DEF LzCompress
<1>2. CASE BestMatchFilter
  BY <1>2, FltFillStep, FltScanStep, FltLeftOverStep DEF BestMatchFilter
<1>3. CASE Booster
  BY <1>3, BstSkipStep, BstExtendStep, BstNewStep, BstFlushStep, BstLeftBytesStep DEF Booster
<1>4. CASE Take
  BY <1>4, FinderStays DEF Take
<1>5. CASE FinderRest \/ UNCHANGED finderVars
  BY <1>5, FinderStays DEF FinderRest, finderVars, queues
<1> QED
  BY <1>1, <1>2, <1>3, <1>4, <1>5 DEF FinderNext

(* In every reachable state each process is where its bytes and records    *)
(* say, and what is under way is true: the invariant is inductive.         *)
THEOREM FinderInvAlways == FinderSpec => []FinderInv
<1>1. FinderInit => FinderInv
  BY FinderStart, TextsAssumption DEF FinderInit, Starting, TextsAssumption, TextOK
<1> QED
  BY <1>1, FinderKeeps, PTL DEF FinderSpec

(* A record that fits at position p says the truth about it. *)
LEMMA FitsTrueAt ==
    ASSUME NEW r, NEW p \in Int, Fits(text, r, p)
    PROVE  TrueAt(r, p)
<1>1. r \in FinderRecord /\ IsTrue(text, r, p)
  BY DEF Fits
<1>2. r.len \in Nat /\ r.off \in Nat
  BY <1>1, Constants DEF FinderRecord
<1>3. ASSUME NEW j \in 0..r.len - 1 PROVE At(p + j) = At(p + j - r.off - 1)
  <2>1. Agrees(text, p, r.off, j) /\ j \in Int
    BY <1>1, <1>2 DEF IsTrue
  <2>2. (p + j - r.off - 1) + 1 = p + j - r.off
    BY <1>2, <2>1
  <2> QED
    BY <2>1, <2>2 DEF Agrees, At
<1> QED
  BY <1>1, <1>3 DEF IsTrue, TrueAt, At, n

(* Every record on its way to the booster is true at its own position,     *)
(* whatever dictionary writes a lookup misses.                             *)
THEOREM RecordsTrueAlways == FinderSpec => []RecordsTrue
<1>1. ASSUME NEW q, NEW p \in Int, FitFrom(text, q, p) PROVE AllTrue(q, p)
  <2>1. ASSUME NEW k \in 1..Len(q) PROVE TrueAt(q[k], p + k - 1)
    <3>1. Fits(text, q[k], p + k - 1) /\ q \in Seq(FinderRecord)
      BY <1>1 DEF FitFrom
    <3>2. p + k - 1 \in Int
      BY <3>1
    <3> QED
      BY <3>1, <3>2, FitsTrueAt
  <2> QED
    BY <2>1 DEF AllTrue
<1>2. FinderInv => RecordsTrue
  <2> SUFFICES ASSUME FinderInv PROVE RecordsTrue
    OBVIOUS
  <2>1. /\ FitFrom(text, cmpQ, flt.i) /\ FitFrom(text, flt.win, flt.i - Len(flt.win))
        /\ FitFrom(text, bestQ, bst.i)
    BY DEF FinderInv, CmpInv, FltInv, BestInv
  <2>2. flt.i \in Int /\ flt.i - Len(flt.win) \in Int /\ bst.i \in Int
    BY FltFacts, BstFacts DEF FinderInv
  <2> QED
    BY <1>1, <2>1, <2>2 DEF RecordsTrue
<1> QED
  BY <1>2, FinderInvAlways, PTL

(* While a match is being extended the byte fetched from the cyclic memory *)
(* is the one at its source, however many stores may overtake a prefetch,  *)
(* at every distance that leaves room for as many in the window.           *)
THEOREM PrefetchFreshAlways == FinderSpec => []PrefetchFresh
<1>1. FinderInv => PrefetchFresh
  <2> SUFFICES ASSUME FinderInv, bst.pc = "scan", bst.flag,
                      bst.out.off + BoostLag < BoostWindow
               PROVE  bst.nextCh = At(bst.i - bst.out.off - 1)
    BY DEF PrefetchFresh
  <2>1. Sourced(text, bst)
    BY BstFacts DEF FinderInv
  <2> QED
    BY <2>1 DEF Sourced, At
<1> QED
  BY <1>1, FinderInvAlways, PTL

-----------------------------------------------------------------------------
(* The chain implements the promise of a match finder *)

LEMMA SameSequence ==
    ASSUME NEW S, NEW s \in Seq(S), NEW u \in Seq(S), Len(s) = Len(u),
           \A k \in 1..Len(s) : s[k] = u[k]
    PROVE  s = u
OBVIOUS

LEMMA ConcatFacts ==
    ASSUME NEW s \in Seq(Byte), NEW u \in Seq(Byte)
    PROVE  /\ s \o u \in Seq(Byte) /\ Len(s \o u) = Len(s) + Len(u)
           /\ \A k \in 1..Len(s) : (s \o u)[k] = s[k]
           /\ \A j \in 1..Len(u) : (s \o u)[Len(s) + j] = u[j]
OBVIOUS

LEMMA SubSeqFacts ==
    ASSUME NEW S, NEW s \in Seq(S), NEW m \in Nat, m <= Len(s)
    PROVE  /\ SubSeq(s, 1, m) \in Seq(S) /\ Len(SubSeq(s, 1, m)) = m
           /\ \A k \in 1..m : SubSeq(s, 1, m)[k] = s[k]
<1>1. \A k \in 1..m : s[k] \in S
  OBVIOUS
<1> QED
  BY <1>1

(* Expanding a record that fits at the end of what precedes it gives the   *)
(* block up to the end of the record.                                      *)
LEMMA ExtendFits ==
    ASSUME NEW t \in Seq(Byte), NEW p \in Nat, NEW r, Fits(t, r, p),
           p + RecLen(r) <= Len(t)
    PROVE  Extend(SubSeq(t, 1, p), r) = SubSeq(t, 1, p + RecLen(r))
<1> DEFINE s == SubSeq(t, 1, p)
           m == p + RecLen(r)
           u == SubSeq(t, 1, m)
<1>1. r \in FinderRecord /\ IsTrue(t, r, p) /\ r.len \in Nat /\ r.off \in Nat /\ r.ch \in Byte
      /\ r.ch = t[p + 1] /\ RecLen(r) \in Nat /\ Len(t) \in Nat
  BY RecLenFacts, Constants DEF Fits, IsTrue, FinderRecord
<1>2. /\ s \in Seq(Byte) /\ Len(s) = p /\ \A k \in 1..p : s[k] = t[k]
  BY <1>1, SubSeqFacts
<1>3. /\ u \in Seq(Byte) /\ Len(u) = m /\ \A k \in 1..m : u[k] = t[k] /\ m \in Nat
  BY <1>1, SubSeqFacts
<1> HIDE DEF s, u
<1>6. (\A j \in 0..r.len - 1 : Agrees(t, p, r.off, j)) =>
         \A j \in 0..r.len - 1 : t[p + j + 1] = t[Source(p, r.off, j)]
  <2> DEFINE off == r.off
             len == r.len
  <2>1. off \in Nat /\ len \in Nat
    BY <1>1
  <2> HIDE DEF off, len
  <2>2. (\A j \in 0..len - 1 : Agrees(t, p, off, j)) =>
           \A j \in 0..len - 1 : t[p + j + 1] = t[Source(p, off, j)]
    BY <2>1, Periodic, ZenonT(30)
  <2> QED
    BY <2>2 DEF off, len
<1>4. CASE r.len = 0
  <2> DEFINE x == Append(s, r.ch)
  <2>1. m = p + 1
    BY <1>1, <1>4 DEF RecLen
  <2>2. /\ x \in Seq(Byte) /\ Len(x) = p + 1 /\ x[p + 1] = r.ch /\ \A k \in 1..p : x[k] = s[k]
    BY <1>1, <1>2, AppendFacts
  <2> HIDE DEF x, m
  <2>3. ASSUME NEW k \in 1..Len(x) PROVE x[k] = u[k]
    <3>1. CASE k = p + 1
      BY <1>1, <1>3, <2>1, <2>2, <3>1
    <3>2. CASE k # p + 1
      <4>1. k \in 1..p /\ k \in 1..m
        BY <2>1, <2>2, <3>2
      <4> QED
        BY <1>2, <1>3, <2>2, <4>1
    <3> QED
      BY <3>1, <3>2
  <2>4. x = u
    BY <1>3, <2>1, <2>2, <2>3, SameSequence
  <2> QED
    BY <1>4, <2>4 DEF Extend, x, u, s, m
<1>5. CASE r.len # 0
  <2> DEFINE len == r.len
             d == r.off + 1
             copy == [k \in 1..len |-> s[Len(s) - d + 1 + ((k - 1) % d)]]
             x == s \o copy
  <2>1. m = p + len /\ len \in Nat /\ len > 0 /\ d \in Nat /\ d > 0 /\ r.off < p
    BY <1>1, <1>5 DEF RecLen, IsTrue
  <2>2. ASSUME NEW k \in 1..len PROVE copy[k] = t[p + k] /\ copy[k] \in Byte
    <3>1. k - 1 \in 0..len - 1 /\ k - 1 \in Nat
      BY <2>1
    <3>2. (k - 1) % d \in 0..d - 1
      <4> HIDE DEF d
      <4> QED
        BY <2>1, <3>1
    <3> DEFINE e == (k - 1) % d
    <3>3. copy[k] = s[p - r.off + e]
      <4>1. Len(s) - d + 1 + e = p - r.off + e
        <5> HIDE DEF e
        <5> QED
          BY <1>1, <1>2, <3>2
      <4>2. copy[k] = s[Len(s) - d + 1 + e]
        OBVIOUS
      <4> QED
        BY <4>1, <4>2
    <3>4. p - r.off + e \in 1..p
      <4> HIDE DEF e
      <4>1. e \in 0..r.off
        BY <1>1, <3>2 DEF e
      <4> QED
        BY <1>1, <2>1, <4>1, SMTT(30)
    <3>5. t[p + (k - 1) + 1] = t[p - r.off + e]
      <4>1. \A j \in 0..r.len - 1 : Agrees(t, p, r.off, j)
        BY <1>1 DEF IsTrue
      <4>2. \A j \in 0..r.len - 1 : t[p + j + 1] = t[Source(p, r.off, j)]
        BY <1>6, <4>1
      <4>3. Source(p, r.off, k - 1) = p - r.off + e
        BY DEF Source
      <4>4. t[p + (k - 1) + 1] = t[Source(p, r.off, k - 1)]
        BY <3>1, <4>2
      <4> QED
        BY <4>3, <4>4
    <3>6. p + (k - 1) + 1 = p + k /\ p + k \in 1..Len(t)
      BY <1>1, <2>1, <3>1
    <3> HIDE DEF copy, e
    <3>7. copy[k] = t[p + k]
      BY <1>2, <3>3, <3>4, <3>5, <3>6
    <3>8. t[p + k] \in Byte
      BY <3>6
    <3> QED
      BY <3>7, <3>8
  <2>3. copy \in Seq(Byte) /\ Len(copy) = len
    <3>1. copy = [k \in 1..len |-> copy[k]]
      OBVIOUS
    <3> HIDE DEF copy, len
    <3>2. copy \in [1..len -> Byte]
      BY <2>2, <3>1
    <3> QED
      BY <2>1, <3>2
  <2> HIDE DEF copy
  <2>4. /\ x \in Seq(Byte) /\ Len(x) = p + len
        /\ \A k \in 1..p : x[k] = s[k]
        /\ \A j \in 1..len : x[p + j] = copy[j]
    <3> HIDE DEF len
    <3>1. /\ s \o copy \in Seq(Byte) /\ Len(s \o copy) = Len(s) + Len(copy)
          /\ \A k \in 1..Len(s) : (s \o copy)[k] = s[k]
          /\ \A j \in 1..Len(copy) : (s \o copy)[Len(s) + j] = copy[j]
      <4>1. s \in Seq(Byte) /\ copy \in Seq(Byte)
        BY <1>2, <2>3
      <4> HIDE DEF x, m, d
      <4> QED
        BY <4>1, ConcatFacts
    <3>2. Len(s) = p /\ Len(copy) = len
      BY <1>2, <2>3
    <3> QED
      BY <3>1, <3>2
  <2> HIDE DEF x, m, len
  <2>5. ASSUME NEW k \in 1..Len(x) PROVE x[k] = u[k]
    <3>1. CASE k \in 1..p
      <4>1. k \in 1..m
        BY <2>1, <3>1
      <4> QED
        BY <1>2, <1>3, <2>4, <3>1, <4>1
    <3>2. CASE k \notin 1..p
      <4>1. k - p \in 1..len /\ p + (k - p) = k /\ k \in 1..m
        BY <2>1, <2>4, <3>2
      <4>2. x[p + (k - p)] = copy[k - p] /\ copy[k - p] = t[p + (k - p)]
        BY <2>2, <2>4, <4>1
      <4> QED
        BY <1>3, <4>1, <4>2
    <3> QED
      BY <3>1, <3>2
  <2>6. x = u
    BY <1>3, <2>1, <2>4, <2>5, SameSequence
  <2>7. Extend(s, r) = x
    BY <1>5 DEF Extend, Copy, x, copy, len
  <2> QED
    BY <2>6, <2>7 DEF u, s, m
<1> QED
  BY <1>4, <1>5

LEMMA SameSize == \A recs : Parse!SizeOf(recs) = SizeOf(recs)
BY DEF SizeOf, RecLen, Parse!SizeOf, Parse!RecLen

LEMMA SameExtend == \A t, r : Parse!Extend(t, r) = Extend(t, r)
BY DEF Extend, Copy, Parse!Extend, Parse!Copy

(* A record that fits where the parse ends is a step of the parse. *)
LEMMA EmitsParse ==
    ASSUME TextOK, bst \in BstType, NEW r, Fits(text, r, SizeOf(bst.sent)),
           SizeOf(bst.sent) + RecLen(r) <= n,
           bst'.sent = Append(bst.sent, r), UNCHANGED text
    PROVE  Parse!Next
<1> DEFINE p == SizeOf(bst.sent)
           parse == bst.sent
           next == bst'.sent
<1>1. /\ parse \in Seq(FinderRecord) /\ r \in FinderRecord /\ p \in Nat /\ text \in Seq(Byte)
      /\ IsTrue(text, r, p) /\ Encodable(r) /\ r.len \in 0..MaxMatchLen
  BY SizeOfMore, TextFacts, Constants DEF BstType, Fits, FinderRecord
<1>2. Len(next) = Len(parse) + 1 /\ next[Len(next)] = r
  BY <1>1, AppendFacts
<1>3. SubSeq(next, 1, Len(parse)) = parse
  <2>1. /\ next \in Seq(FinderRecord) /\ Len(parse) \in Nat
        /\ \A k \in 1..Len(parse) : next[k] = parse[k]
    BY <1>1, AppendFacts
  <2>2. /\ SubSeq(next, 1, Len(parse)) \in Seq(FinderRecord)
        /\ Len(SubSeq(next, 1, Len(parse))) = Len(parse)
        /\ \A k \in 1..Len(parse) : SubSeq(next, 1, Len(parse))[k] = next[k]
    BY <1>1, <1>2, <2>1, SubSeqFacts
  <2> QED
    BY <1>1, <2>1, <2>2, SameSequence
<1>4. Parse!Encodable(r)
  BY <1>1, Constants DEF Parse!Encodable, Encodable, OffsetOK
<1>5. Parse!Continues(r)
  <2>1. Parse!SizeOf(parse) = p /\ Parse!RecLen(r) = RecLen(r)
    BY SameSize DEF RecLen, Parse!RecLen
  <2>2. Extend(SubSeq(text, 1, p), r) = SubSeq(text, 1, p + RecLen(r))
    BY <1>1, ExtendFits DEF n
  <2>3. Parse!Extend(SubSeq(text, 1, p), r) = Extend(SubSeq(text, 1, p), r)
    BY SameExtend
  <2>4. r.len > 0 => r.off < p /\ p + r.len <= Len(text) - LeftBytes
    BY <1>1 DEF IsTrue
  <2> HIDE DEF p
  <2>5. /\ p + RecLen(r) <= Len(text)
        /\ Parse!Extend(SubSeq(text, 1, p), r) = SubSeq(text, 1, p + RecLen(r))
    BY <2>2, <2>3 DEF n, p
  <2> QED
    BY <2>1, <2>4, <2>5 DEF Parse!Continues
<1> HIDE DEF p, parse, next
<1>6. /\ Len(bst'.sent) = Len(bst.sent) + 1
      /\ SubSeq(bst'.sent, 1, Len(bst.sent)) = bst.sent
      /\ Parse!Encodable(bst'.sent[Len(bst'.sent)])
      /\ Parse!Continues(bst'.sent[Len(bst'.sent)])
  BY <1>2, <1>3, <1>4, <1>5 DEF parse, next
<1> QED
  BY <1>6 DEF Parse!Next

(* Storing a byte sends nothing. *)
LEMMA PrefetchSent ==
    ASSUME NEW b \in BstType, NEW ch, NEW c \in Prefetched(b, ch) PROVE c.sent = b.sent
BY DEF Prefetched, BstType

(* The booster sends r, which fits where the records sent so far end.      *)
Sends(r) ==
    /\ Fits(text, r, SizeOf(bst.sent)) /\ SizeOf(bst.sent) + RecLen(r) <= n
    /\ bst'.sent = Append(bst.sent, r) /\ recQ' = Append(recQ, r)

LEMMA BoosterSends ==
    ASSUME FinderInv, Booster, ~bst.overtaken
    PROVE  text' = text /\ ((\E r : Sends(r)) \/ UNCHANGED <<bst.sent, recQ>>)
<1> USE DEF FinderInv
<1>1. bst \in BstType /\ bst.i \in Nat /\ bst.out \in FinderRecord /\ n \in Nat
  BY BstFacts, TextFacts
<1>2. CASE BstSkip
  <2> DEFINE b == [bst EXCEPT !.skip = @ - 1]
  <2>1. bst.skip - 1 \in Nat
    BY <1>2, BstFacts DEF BstSkip
  <2>2. b \in BstType /\ b.sent = bst.sent
    BY <1>1, <2>1 DEF BstType
  <2>3. bst' \in Prefetched(b, Head(bestQ).ch) /\ text' = text /\ recQ' = recQ
    BY <1>2 DEF BstSkip
  <2> HIDE DEF b
  <2> QED
    BY <2>2, <2>3, PrefetchSent
<1>3. CASE BstExtend
  <2> DEFINE b == [bst EXCEPT !.len = @ + 1, !.loc = @ + 1, !.out.len = bst.len + 1]
  <2>1. b.sent = bst.sent /\ bst.len < MaxMatchLen /\ bst.len \in Nat /\ bst.loc \in Int
    BY <1>1, <1>3, BstFacts DEF BstType, BstExtend, CanExtend
  <2>2. b \in BstType
    <3> DEFINE out == [bst.out EXCEPT !.len = bst.len + 1]
    <3>1. out \in FinderRecord
      <4>1. bst.len + 1 \in 0..MaxMatchLen
        BY <2>1, Constants
      <4> QED
        BY <1>1, <4>1 DEF FinderRecord
    <3>2. b = [bst EXCEPT !.len = bst.len + 1, !.loc = bst.loc + 1, !.out = out]
      BY <1>1 DEF BstType
    <3>3. bst.len + 1 \in Nat /\ bst.loc + 1 \in Int
      BY <2>1
    <3> HIDE DEF b, out
    <3> QED
      BY <1>1, <3>1, <3>2, <3>3 DEF BstType
  <2>3. bst' \in Prefetched(b, Head(bestQ).ch) /\ text' = text /\ recQ' = recQ
    BY <1>3 DEF BstExtend
  <2> HIDE DEF b
  <2> QED
    BY <2>1, <2>2, <2>3, PrefetchSent
<1>4. CASE BstNew
  <2> DEFINE r == Head(bestQ)
  <2>1. /\ bst.pc = "scan" /\ bestQ # << >> /\ bst.skip = 0 /\ ~CanExtend(r) /\ text' = text
    BY <1>4 DEF BstNew, BstReads
  <2>2. r \in FinderRecord
    BY <2>1, BstSees
  <2>3. CASE bst.i = 0
    <3>1. bst' \in Prefetched(Opened(bst, r), r.ch) /\ recQ' = recQ
      BY <1>4, <2>3 DEF BstNew, NoneOpenYet
    <3>2. Opened(bst, r) \in BstType /\ Opened(bst, r).sent = bst.sent
      BY <1>1, <2>2, OpenedFacts
    <3> QED
      BY <2>1, <3>1, <3>2, PrefetchSent
  <2>4. CASE bst.i > 0
    <3> DEFINE b == Emitting(bst)
    <3>1. bst' \in Prefetched(Opened(b, r), r.ch) /\ recQ' = Append(recQ, bst.out)
      BY <1>4, <2>4 DEF BstNew, NoneOpenYet
    <3>2. b \in BstType /\ b.sent = Append(bst.sent, bst.out)
      BY <1>1, EmittingFacts
    <3> HIDE DEF b, r
    <3>3. Opened(b, r) \in BstType /\ Opened(b, r).sent = b.sent
      BY <2>2, <3>2, OpenedFacts
    <3>4. bst'.sent = Append(bst.sent, bst.out)
      BY <3>1, <3>2, <3>3, PrefetchSent
    <3>5. Fits(text, bst.out, SizeOf(bst.sent)) /\ SizeOf(bst.sent) + RecLen(bst.out) = bst.i
      BY <2>1, <2>4, NewEmits DEF r
    <3>6. bst.i <= n
      BY <1>1, <2>1, BstFacts, Constants DEF BstPlace
    <3>7. Sends(bst.out)
      BY <3>1, <3>4, <3>5, <3>6 DEF Sends
    <3> QED
      BY <2>1, <3>7
  <2> QED
    BY <1>1, <2>3, <2>4
<1>5. CASE BstFlush
  <2>1. bst.pc = "flush" /\ bst' = [Emitting(bst) EXCEPT !.pc = "left"] /\ text' = text
        /\ recQ' = Append(recQ, bst.out)
    BY <1>5 DEF BstFlush
  <2>2. Emitting(bst) \in BstType /\ Emitting(bst).sent = Append(bst.sent, bst.out)
    BY <1>1, EmittingFacts
  <2>3. bst'.sent = Append(bst.sent, bst.out)
    BY <2>1, <2>2 DEF BstType
  <2>4. /\ Fits(text, bst.out, SizeOf(bst.sent))
        /\ SizeOf(bst.sent) + RecLen(bst.out) = bst.i /\ bst.i = n - LeftBytes
    BY <2>1, FlushEmits
  <2>5. bst.i <= n
    BY <1>1, <2>4, Constants
  <2>6. Sends(bst.out)
    BY <2>1, <2>3, <2>4, <2>5 DEF Sends
  <2> QED
    BY <2>1, <2>6
<1>6. CASE BstLeftBytes
  <2> DEFINE r == Head(bestQ)
  <2>1. /\ bst.pc = "left" /\ bestQ # << >> /\ text' = text /\ recQ' = Append(recQ, r)
        /\ bst' = [bst EXCEPT !.i = @ + 1, !.sent = Append(@, r),
                              !.pc = IF bst.i + 1 = n THEN "done" ELSE "left"]
    BY <1>6 DEF BstLeftBytes
  <2>2. /\ Fits(text, r, SizeOf(bst.sent)) /\ SizeOf(bst.sent) = bst.i
        /\ bst.i < n /\ RecLen(r) = 1
    BY <2>1, LeftEmits
  <2> HIDE DEF r
  <2>3. bst'.sent = Append(bst.sent, r)
    BY <1>1, <2>1 DEF BstType
  <2>4. SizeOf(bst.sent) + RecLen(r) <= n
    BY <1>1, <2>2
  <2>5. Sends(r)
    BY <2>1, <2>2, <2>3, <2>4 DEF Sends
  <2> QED
    BY <2>1, <2>5
<1> QED
  BY <1>2, <1>3, <1>4, <1>5, <1>6 DEF Booster

LEMMA BoosterParses ==
    ASSUME FinderInv, Booster, ~bst.overtaken
    PROVE  Parse!Next \/ UNCHANGED <<text, bst.sent>>
<1>1. TextOK /\ bst \in BstType
  BY BstFacts DEF FinderInv
<1>2. text' = text /\ ((\E r : Sends(r)) \/ UNCHANGED <<bst.sent, recQ>>)
  BY BoosterSends
<1>3. ASSUME NEW r, Sends(r) PROVE Parse!Next
  BY <1>1, <1>2, <1>3, EmitsParse DEF Sends
<1> QED
  BY <1>2, <1>3

(* What the booster emits is, record by record, a parse of the block, for  *)
(* as long as no open match has been compared with a byte that came too    *)
(* early: each record can be encoded, starts where the previous ones end,  *)
(* and expands to the bytes of the block.                                  *)
THEOREM FinderImplementsParse == FinderSpec => ImplementsParse
<1>1. FinderInit => Parse!Init
  <2> SUFFICES ASSUME FinderInit PROVE bst.sent = << >>
    BY DEF Parse!Init
  <2> QED
    BY DEF FinderInit, BstStart
<1>2. FinderInv /\ [FinderNext]_finderVars => [bst.overtaken \/ Parse!Next]_<<text, bst.sent>>
  <2> SUFFICES ASSUME FinderInv, [FinderNext]_finderVars, ~bst.overtaken
               PROVE  Parse!Next \/ UNCHANGED <<text, bst.sent>>
    OBVIOUS
  <2>1. CASE Booster
    BY <2>1, BoosterParses
  <2>2. CASE LzCompress \/ BestMatchFilter
    BY <2>2 DEF LzCompress, LzFill, LzScan, LzLeftOver, LzLeftBytes,
                BestMatchFilter, FltFill, FltScan, FltLeftOver
  <2>3. CASE Take \/ FinderRest \/ UNCHANGED finderVars
    BY <2>3 DEF Take, FinderRest, finderVars, queues
  <2> QED
    BY <2>1, <2>2, <2>3 DEF FinderNext
<1> QED
  BY <1>1, <1>2, FinderInvAlways, PTL DEF FinderSpec, ImplementsParse

-----------------------------------------------------------------------------
(* In the engine no store overtakes a prefetch that matters *)

LEMMA PrefetchInOrder ==
    ASSUME NEW b \in BstType, NEW ch, NEW c \in Prefetched(b, ch), ~b.overtaken,
           b.flag => /\ b.loc >= 0 /\ b.loc <= b.i
                     /\ b.i - b.loc + BoostLag < BoostWindow
    PROVE  ~c.overtaken
<1> DEFINE mem == [b.mem EXCEPT ![Slot(b.i)] = ch]
           own == mem[Slot(b.loc)]
           pc == IF b.i + 1 < n - LeftBytes THEN "scan" ELSE "flush"
<1>1. PICK seen \in {own} \cup Overtaking(b) :
          c = [b EXCEPT !.mem = mem, !.i = @ + 1, !.nextCh = seen,
                        !.overtaken = @ \/ (b.flag /\ seen # own), !.pc = pc]
  BY DEF Prefetched
<1>2. b.flag => seen = own
  BY <1>1, NoneOvertakes
<1> HIDE DEF mem, own, pc
<1>3. c.overtaken <=> (b.overtaken \/ (b.flag /\ seen # own))
  BY <1>1 DEF BstType
<1> QED
  BY <1>2, <1>3

LEMMA NearInOrder ==
    ASSUME NEW r \in FinderRecord, OffsetOK(r), r.off < BoostWindow
    PROVE  r.off + BoostLag < BoostWindow
<1>1. /\ r.off \in Nat /\ r.off + 1 < OffsetLimit
      /\ BoostLag \in Nat /\ BoostWindow \in Nat /\ OffsetLimit \in Nat
  BY Constants DEF FinderRecord, OffsetOK
<1>2. BoostLag = 0 \/ OffsetLimit + BoostLag <= BoostWindow + 1
  BY BoosterInOrder
<1> QED
  BY <1>1, <1>2

(* The records of the filter and those being extended have offsets at      *)
(* which a prefetch is in order (BoosterInOrder).                          *)
LEMMA BoosterKeepsOrder ==
    ASSUME FinderInv, Booster, ~bst.overtaken
    PROVE  ~bst'.overtaken
<1> USE DEF FinderInv
<1>1. /\ bst \in BstType /\ bst.i \in Nat /\ bst.out \in FinderRecord
      /\ bst.pc = "scan" /\ bst.flag => Sourced(text, bst)
  BY BstFacts
<1>2. CASE BstSkip
  <2> DEFINE b == [bst EXCEPT !.skip = @ - 1]
  <2>1. /\ bst.pc = "scan" /\ bst.skip > 0 /\ bst.skip - 1 \in Nat
        /\ bst' \in Prefetched(b, Head(bestQ).ch)
    BY <1>2, BstFacts DEF BstSkip, BstReads
  <2>2. ~bst.flag
    BY <1>1, <2>1 DEF Sourced
  <2>3. b \in BstType /\ b.flag = bst.flag /\ b.overtaken = bst.overtaken
    BY <1>1, <2>1 DEF BstType
  <2> HIDE DEF b
  <2> QED
    BY <2>1, <2>2, <2>3, PrefetchInOrder
<1>3. CASE BstExtend
  <2> DEFINE out == [bst.out EXCEPT !.len = bst.len + 1]
             b == [bst EXCEPT !.len = @ + 1, !.loc = @ + 1, !.out.len = bst.len + 1]
  <2>1. /\ bst.pc = "scan" /\ bst.flag /\ bst.len < MaxMatchLen
        /\ bst' \in Prefetched(b, Head(bestQ).ch)
        /\ bst.len \in Nat /\ bst.loc \in Int
    BY <1>3, BstFacts DEF BstExtend, BstReads, CanExtend
  <2>2. /\ bst.loc = bst.i - bst.out.off - 1 /\ bst.loc >= 0
        /\ bst.out.off + BoostLag < BoostWindow
    BY <1>1, <2>1, NearInOrder DEF Sourced
  <2>3. out \in FinderRecord
    <3>1. bst.len + 1 \in 0..MaxMatchLen
      BY <2>1, Constants
    <3> QED
      BY <1>1, <3>1 DEF FinderRecord
  <2>4. b = [bst EXCEPT !.len = bst.len + 1, !.loc = bst.loc + 1, !.out = out]
    BY <1>1 DEF BstType
  <2>5. bst.len + 1 \in Nat /\ bst.loc + 1 \in Int
    BY <2>1
  <2> HIDE DEF b, out
  <2>6. b \in BstType /\ b.i = bst.i /\ b.loc = bst.loc + 1 /\ b.overtaken = bst.overtaken
    BY <1>1, <2>3, <2>4, <2>5 DEF BstType
  <2>7. bst.out.off \in Nat /\ BoostLag \in Nat /\ BoostWindow \in Nat
    BY <1>1, Constants DEF FinderRecord
  <2>8. b.loc >= 0 /\ b.loc <= b.i /\ b.i - b.loc + BoostLag < BoostWindow
    BY <1>1, <2>1, <2>2, <2>6, <2>7
  <2> QED
    BY <2>1, <2>6, <2>8, PrefetchInOrder
<1>4. CASE BstNew
  <2> DEFINE r == Head(bestQ)
             b == IF bst.i = 0 THEN bst ELSE Emitting(bst)
  <2>1. /\ bst.pc = "scan" /\ bestQ # << >> /\ bst' \in Prefetched(Opened(b, r), r.ch)
    BY <1>4 DEF BstNew, BstReads, NoneOpenYet
  <2>2. b \in BstType /\ b.i = bst.i /\ b.overtaken = bst.overtaken
    BY <1>1, EmittingFacts
  <2>3. Fits(text, r, bst.i)
    BY <2>1, BstSees
  <2> HIDE DEF b, r
  <2>4. r \in FinderRecord /\ IsTrue(text, r, bst.i) /\ Encodable(r)
    BY <2>3 DEF Fits
  <2> DEFINE o == Opened(b, r)
  <2>5. /\ o \in BstType /\ o.i = b.i /\ o.loc = b.i - r.off /\ o.overtaken = b.overtaken
        /\ o.flag = (r.len > 0 /\ r.off < BoostWindow)
    BY <2>2, <2>4, OpenedFacts
  <2> HIDE DEF o
  <2>6. ASSUME o.flag
        PROVE  o.loc >= 0 /\ o.loc <= o.i /\ o.i - o.loc + BoostLag < BoostWindow
    <3>1. r.len > 0 /\ r.off < BoostWindow
      BY <2>5, <2>6
    <3>2. OffsetOK(r) /\ r.off < bst.i
      BY <2>4, <3>1 DEF Encodable, IsTrue
    <3>3. r.off + BoostLag < BoostWindow
      BY <2>4, <3>1, <3>2, NearInOrder
    <3>4. r.off \in Nat /\ BoostLag \in Nat /\ BoostWindow \in Nat
      BY <2>4, Constants DEF FinderRecord
    <3> QED
      BY <1>1, <2>2, <2>5, <3>2, <3>3, <3>4
  <2> QED
    BY <2>1, <2>2, <2>5, <2>6, PrefetchInOrder DEF o
<1>5. CASE BstFlush
  <2>1. bst' = [Emitting(bst) EXCEPT !.pc = "left"]
    BY <1>5 DEF BstFlush
  <2>2. Emitting(bst) \in BstType /\ Emitting(bst).overtaken = bst.overtaken
    BY <1>1, EmittingFacts
  <2> QED
    BY <2>1, <2>2 DEF BstType
<1>6. CASE BstLeftBytes
  BY <1>1, <1>6 DEF BstLeftBytes, BstType
<1> QED
  BY <1>2, <1>3, <1>4, <1>5, <1>6 DEF Booster

-----------------------------------------------------------------------------
(* The inductive invariant of the engine *)

(* The steps of a parse of t that the match finder may take. *)
TrueSteps(t) ==
    {s \in Nat \X Record \X Nat :
        Fits(t, s[2], s[1]) /\ s[3] = s[1] + RecLen(s[2]) /\ s[3] <= Len(t)}

(* A call in progress: what Part1 reads is what the booster has sent. *)
Supplied(t, L, E) == Working(t, L, E, TrueSteps(t), SizeOf(bst.sent))

CoreInv ==
    /\ session \in Sessions
    /\ FinderInv /\ ~bst.overtaken
    /\ p1.pc = "idle" => Quiet /\ FinderDone
    /\ p1.pc # "idle" => text = Text(Block.recs) /\ \E L, E : Supplied(text, L, E)

-----------------------------------------------------------------------------
(* What the match finder sends, the encoder can write *)

LEMMA FinderRecordIs == ASSUME NEW r \in FinderRecord PROVE r \in Record
BY Constants DEF FinderRecord, Record

LEMMA TrueStep ==
    ASSUME NEW t, NEW p \in Nat, NEW r \in FinderRecord, Fits(t, r, p), p + RecLen(r) <= Len(t)
    PROVE  <<p, r, p + RecLen(r)>> \in TrueSteps(t) /\ p + RecLen(r) \in Nat
<1>1. r \in Record
  BY FinderRecordIs
<1>2. p + RecLen(r) \in Nat
  BY <1>1, RecordFacts
<1> QED
  BY <1>1, <1>2 DEF TrueSteps

LEMMA TrueStepIs ==
    ASSUME NEW t, NEW p, NEW r, NEW e, <<p, r, e>> \in TrueSteps(t)
    PROVE  /\ p \in Nat /\ r \in Record /\ e \in Nat
           /\ Fits(t, r, p) /\ e = p + RecLen(r) /\ e <= Len(t)
BY DEF TrueSteps

(* Every step of the finder is one that a parse may take: its offsets have *)
(* two bytes, none of its matches is a mark, and each ends before the last *)
(* bytes of the block.                                                     *)
LEMMA TrueStepsAllowed ==
    ASSUME NEW t \in Seq(Byte)
    PROVE  TrueSteps(t) \subseteq RecSteps(t)
<1> SUFFICES ASSUME NEW s \in TrueSteps(t) PROVE s \in RecSteps(t)
  OBVIOUS
<1>1. PICK p \in Nat, r \in Record, e \in Nat : s = <<p, r, e>>
  BY DEF TrueSteps
<1>2. Fits(t, r, p) /\ e = p + RecLen(r) /\ e <= Len(t)
  BY <1>1, TrueStepIs
<1>3. Len(t) \in Nat
  OBVIOUS
<1>4. r \in FinderRecord /\ IsTrue(t, r, p) /\ Encodable(r)
  BY <1>2 DEF Fits
<1>5. r.len \in 0..MaxMatchLen /\ r.off \in Nat
  BY <1>4 DEF FinderRecord
<1>6. ASSUME r.len # 0 PROVE MatchAt(t, p, r.len, r.off)
  <2>1. /\ r.len > 0 /\ r.len \in Nat /\ r.len <= MaxMatchLen
        /\ MaxMatchLen \in Nat /\ MinMatch \in Nat /\ LeftBytes \in Nat /\ LeftBytes > 0
    BY <1>5, <1>6, Constants
  <2>2. /\ r.len >= MinMatch /\ r.off >= MinOffset /\ r.off + 1 < OffsetLimit
        /\ r.off < p /\ p + r.len <= Len(t) - LeftBytes
    BY <1>4, <2>1 DEF Encodable, OffsetOK, IsTrue
  <2>3. r.off + 1 < ByteBase * ByteBase
    <3>1. ByteBase \in Int
      BY ConstantTypes DEF ByteBase
    <3>2. ByteBase * ByteBase \in Int /\ OffsetLimit \in Int
      BY <3>1, Constants
    <3> DEFINE b == ByteBase * ByteBase
    <3>3. b \in Int /\ OffsetLimit <= b
      BY <3>2, CoreAssumption DEF CoreAssumption
    <3> HIDE DEF b
    <3>4. r.off + 1 < b
      BY <1>5, <2>2, <3>2, <3>3
    <3> QED
      BY <3>4 DEF b
  <2>4. ~IsMark(r.len - MinMatch, r.off)
    <3>1. r.off # 0
      BY <1>5, <2>2, Constants
    <3>2. r.len - MinMatch # LimitMark
      <4>1. MaxMatchLen - MinMatch < LimitMark /\ LimitMark \in Nat
        BY CoreAssumption, ConstantTypes DEF CoreAssumption
      <4> QED
        BY <2>1, <4>1
    <3> QED
      BY <3>1, <3>2 DEF IsMark
  <2>5. p + r.len < Len(t)
    BY <1>3, <2>1, <2>2
  <2>6. Repeats(t, p, r.off, r.len)
    <3>1. ASSUME NEW j \in 1..r.len PROVE t[p + j] = t[p + j - r.off - 1]
      <4>1. j - 1 \in 0..r.len - 1 /\ j \in Int
        BY <2>1
      <4>2. Agrees(t, p, r.off, j - 1)
        BY <1>4, <4>1 DEF IsTrue
      <4>3. p + (j - 1) + 1 = p + j /\ p + (j - 1) - r.off = p + j - r.off - 1
        BY <1>5, <4>1
      <4> QED
        BY <4>2, <4>3 DEF Agrees
    <3> QED
      BY <3>1 DEF Repeats
  <2> QED
    BY <2>2, <2>3, <2>4, <2>5, <2>6 DEF MatchAt
<1>7. r.len = 0 => r.ch = t[p + 1]
  BY <1>4 DEF IsTrue
<1>8. RecAt(t, p, r)
  BY <1>2, <1>6, <1>7 DEF RecAt
<1> QED
  BY <1>1, <1>2, <1>8, RecStep

-----------------------------------------------------------------------------
(* The block of a call *)

(* A block of literals stands for its bytes. *)
LEMMA PlainText ==
    ASSUME NEW recs \in Seq(Record), \A k \in 1..Len(recs) : recs[k].len = 0
    PROVE  /\ Text(recs) = Bytes(recs)
           /\ Bytes(recs) \in Seq(Byte) /\ Len(Bytes(recs)) = Len(recs)
<1> DEFINE m == Len(recs)
           upto == TextUpto(recs)
           first(k) == [j \in 1..k |-> recs[j].ch]
<1>1. m \in Nat /\ \A k \in 1..m : recs[k] \in Record /\ recs[k].ch \in Byte
  <2>1. m \in Nat /\ \A k \in 1..m : recs[k] \in Record
    OBVIOUS
  <2> QED
    BY <2>1, RecordFacts
<1>2. upto[0] = << >> /\ \A k \in 1..m : upto[k] = Extend(upto[k - 1], recs[k])
  BY <1>1, TextUptoIs
<1>3. ASSUME NEW k \in 0..m
      PROVE  first(k) \in Seq(Byte) /\ Len(first(k)) = k /\ \A j \in 1..k : first(k)[j] = recs[j].ch
  <2>1. \A S : \A l \in Nat : \A s \in [1..l -> S] : s \in Seq(S) /\ Len(s) = l
    OBVIOUS
  <2>2. k \in Nat /\ \A j \in 1..k : j \in 1..m
    BY <1>1
  <2>3. first(k) \in [1..k -> Byte]
    BY <1>1, <2>2
  <2> QED
    BY <2>1, <2>2, <2>3
<1> HIDE DEF upto
<1>4. ASSUME NEW k \in 1..m, upto[k - 1] = first(k - 1) PROVE upto[k] = first(k)
  <2>1. upto[k] = Append(first(k - 1), recs[k].ch)
    BY <1>2, <1>4 DEF Extend
  <2>2. k - 1 \in 0..m /\ k \in 0..m /\ k \in Int /\ (k - 1) + 1 = k /\ recs[k].ch \in Byte
    BY <1>1
  <2>3. /\ first(k - 1) \in Seq(Byte) /\ Len(first(k - 1)) = k - 1
        /\ \A j \in 1..k - 1 : first(k - 1)[j] = recs[j].ch
        /\ first(k) \in Seq(Byte) /\ Len(first(k)) = k
        /\ \A j \in 1..k : first(k)[j] = recs[j].ch
    BY <1>3, <2>2
  <2> DEFINE u == first(k - 1)
             v == first(k)
             ch == recs[k].ch
  <2> HIDE DEF u, v, ch
  <2>4. /\ u \in Seq(Byte) /\ Len(u) = k - 1 /\ v \in Seq(Byte) /\ Len(v) = k
        /\ (\A j \in 1..k - 1 : u[j] = v[j]) /\ v[k] = ch /\ ch \in Byte
    BY <2>2, <2>3 DEF u, v, ch
  <2>5. Append(u, ch) = v
    <3>1. /\ Append(u, ch) \in Seq(Byte) /\ Len(Append(u, ch)) = k
          /\ Append(u, ch)[k] = ch /\ \A j \in 1..k - 1 : Append(u, ch)[j] = u[j]
      BY <2>2, <2>4
    <3>2. \A j \in 1..k : Append(u, ch)[j] = v[j]
      BY <2>2, <2>4, <3>1
    <3> QED
      BY <2>4, <3>1, <3>2, SameSequence
  <2> QED
    BY <2>1, <2>5 DEF u, v, ch
<1>5. upto[0] = first(0)
  <2>1. first(0) \in Seq(Byte) /\ Len(first(0)) = 0
    BY <1>1, <1>3
  <2> HIDE DEF first
  <2> QED
    BY <1>2, <2>1
<1>6. upto[m] = first(m)
  <2> DEFINE Wrong == {k \in 0..m : upto[k] # first(k)}
  <2>1. SUFFICES Wrong = {}
    BY <1>1, SMTT(30)
  <2>2. SUFFICES ASSUME Wrong # {} PROVE FALSE
    OBVIOUS
  <2>3. PICK k \in Wrong : \A j \in Wrong : k <= j
    <3>1. Wrong \in SUBSET Nat
      BY <1>1
    <3> QED
      BY <2>2, <3>1, Smallest
  <2>4. k \in 1..m /\ k - 1 \in 0..m /\ k \in Int
    BY <1>1, <1>5
  <2>5. k - 1 \notin Wrong
    BY <2>3, <2>4
  <2> HIDE DEF first
  <2> QED
    BY <1>4, <2>3, <2>4, <2>5
<1>7. Text(recs) = first(m) /\ Bytes(recs) = first(m)
  BY <1>6 DEF Text, Bytes, upto
<1> QED
  BY <1>1, <1>3, <1>7

LEMMA CoreBlock ==
    ASSUME TypeOK, session \in Sessions, Len(answers) < Len(session)
    PROVE  /\ Block \in BlockType /\ Block.size = Len(Bytes(Block.recs))
           /\ Bytes(Block.recs) \in Seq(Byte) /\ Text(Block.recs) = Bytes(Block.recs)
           /\ Block.size = 0 \/ Block.size >= LeftBytes + MatchLen
<1>1. Len(answers) \in Nat /\ session \in Seq(BlockType)
  BY DEF TypeOK
<1>2. Len(answers) + 1 \in 1..Len(session)
  BY <1>1
<1>3. Block \in BlockType /\ Block.recs \in Seq(Record)
  <2>1. Block \in BlockType
    BY <1>1, <1>2 DEF Block
  <2> QED
    BY <2>1 DEF BlockType
<1>4. /\ Block.size = Len(Block.recs) /\ \A j \in 1..Block.size : Block.recs[j].len = 0
      /\ Block.size = 0 \/ Block.size >= LeftBytes + MatchLen
  BY <1>2, PlainSessions DEF Block, PlainSessions
<1> QED
  BY <1>3, <1>4, PlainText
-----------------------------------------------------------------------------
(* The finder's side *)

(* When the three processes of the finder have returned, everything has    *)
(* been sent.                                                              *)
LEMMA FinderEmpty ==
    ASSUME FinderInv, FinderDone, ~bst.overtaken
    PROVE  inQ = << >> /\ cmpQ = << >> /\ bestQ = << >> /\ SizeOf(bst.sent) = Len(text)
<1>1. TextOK /\ LzInv /\ CmpInv /\ FltInv /\ BestInv /\ BstInv
  BY DEF FinderInv
<1>2. lz.pc = "done" /\ flt.pc = "done" /\ bst.pc = "done"
  BY DEF FinderDone
<1>3. n = Len(text) /\ n \in Nat
  BY <1>1, TextFacts
<1>4. /\ BytesRead(lz) = n /\ Len(lz.win) = 0 /\ Len(inQ) = 0 /\ inQ \in Seq(Byte)
  <2>1. /\ lz.i = n /\ Len(lz.win) = 0 /\ BytesRead(lz) + Len(inQ) = n /\ inQ \in Seq(Byte)
    BY <1>1, <1>2, LzFacts DEF LzPlace
  <2>2. BytesRead(lz) = lz.i
    BY <1>2 DEF BytesRead
  <2>3. Len(inQ) \in Nat
    BY <2>1
  <2> QED
    BY <1>3, <2>1, <2>2, <2>3
<1>5. /\ flt.i = n /\ Len(flt.win) = 0 /\ Len(cmpQ) = 0 /\ cmpQ \in Seq(FinderRecord)
  <2>1. flt.i = n /\ Len(flt.win) = 0 /\ Len(cmpQ) \in Nat /\ FitFrom(text, cmpQ, flt.i)
    BY <1>1, <1>2, FltFacts DEF FltPlace
  <2>2. flt.i + Len(cmpQ) = BytesRead(lz) - Len(lz.win)
    BY <1>1 DEF CmpInv
  <2> QED
    BY <1>3, <1>4, <2>1, <2>2 DEF FitFrom
<1>6. Len(bestQ) = 0 /\ bestQ \in Seq(FinderRecord) /\ SizeOf(bst.sent) = n
  <2>1. bst.i = n /\ SizeOf(bst.sent) = n
    BY <1>1, <1>2, BstFacts DEF BstPlace
  <2>2. FitFrom(text, bestQ, bst.i) /\ bst.i + Len(bestQ) = flt.i - Len(flt.win)
    BY <1>1 DEF BestInv
  <2>3. Len(bestQ) \in Nat
    BY <2>2 DEF FitFrom
  <2> QED
    BY <1>3, <1>5, <2>1, <2>2, <2>3 DEF FitFrom
<1> QED
  BY <1>3, <1>4, <1>5, <1>6

(* A step of the finder sends one more true record, or nothing. *)
LEMMA FinderSends ==
    ASSUME FinderInv, LzCompress \/ BestMatchFilter \/ Booster, ~bst.overtaken
    PROVE  /\ FinderInv' /\ text' = text /\ ~FinderDone /\ ~bst'.overtaken
           /\ \/ \E r \in Record :
                    /\ <<SizeOf(bst.sent), r, SizeOf(bst'.sent)>> \in TrueSteps(text)
                    /\ recQ' = Append(recQ, r)
              \/ bst'.sent = bst.sent /\ recQ' = recQ
<1>1. FinderInv'
  BY FinderKeeps DEF FinderNext
<1>2. CASE LzCompress \/ BestMatchFilter
  <2>1. bst' = bst /\ recQ' = recQ /\ text' = text
    BY <1>2 DEF LzCompress, LzFill, LzScan, LzLeftOver, LzLeftBytes,
                BestMatchFilter, FltFill, FltScan, FltLeftOver
  <2>2. ~FinderDone
    BY <1>2 DEF LzCompress, LzFill, LzScan, LzLeftOver, LzLeftBytes,
                BestMatchFilter, FltFill, FltScan, FltLeftOver, FinderDone
  <2> QED
    BY <1>1, <2>1, <2>2
<1>3. CASE Booster
  <2>1. text' = text /\ ((\E r : Sends(r)) \/ UNCHANGED <<bst.sent, recQ>>)
    BY <1>3, BoosterSends
  <2>4. ~bst'.overtaken
    BY <1>3, BoosterKeepsOrder
  <2>2. ~FinderDone
    BY <1>3 DEF Booster, BstSkip, BstExtend, BstNew, BstReads, BstFlush, BstLeftBytes, FinderDone
  <2>3. ASSUME NEW r, Sends(r)
        PROVE  /\ r \in Record /\ recQ' = Append(recQ, r)
               /\ <<SizeOf(bst.sent), r, SizeOf(bst'.sent)>> \in TrueSteps(text)
    <3>1. /\ Fits(text, r, SizeOf(bst.sent)) /\ SizeOf(bst.sent) + RecLen(r) <= Len(text)
          /\ bst'.sent = Append(bst.sent, r) /\ recQ' = Append(recQ, r)
      BY <2>3 DEF Sends, n
    <3>2. r \in FinderRecord /\ bst.sent \in Seq(FinderRecord)
      BY <3>1, BstFacts DEF Fits, FinderInv
    <3>3. SizeOf(bst.sent) \in Nat /\ SizeOf(bst'.sent) = SizeOf(bst.sent) + RecLen(r)
      BY <3>1, <3>2, SizeOfMore
    <3> QED
      BY <3>1, <3>2, <3>3, TrueStep, FinderRecordIs
  <2> QED
    BY <1>1, <2>1, <2>2, <2>3, <2>4
<1> QED
  BY <1>2, <1>3

-----------------------------------------------------------------------------
(* The types and the accounting of the encoder *)

LEMMA CoreCallType == TypeOK /\ session \in Sessions /\ CoreCall => TypeOK'
<1> SUFFICES ASSUME TypeOK, session \in Sessions, CoreCall PROVE TypeOK'
  OBVIOUS
<1>1. Block.size \in Nat
  BY CoreBlock DEF CoreCall, BlockType
<1>2. size' \in Nat /\ limit' \in BOOLEAN
  BY <1>1 DEF CoreCall
<1> DEFINE start == IF size' = 0 THEN "done" ELSE "first"
<1>3. start \in {"idle", "first", "done"}
  OBVIOUS
<1>4. p1' = P1At(start, p1.pushed) /\ p2' = P2At("loop", p2.upto) /\ sink' = SinkAt("data")
  BY DEF CoreCall
<1> HIDE DEF start
<1>5. p1' \in P1Type /\ p2' \in P2Type /\ sink' \in SinkType
  BY <1>3, <1>4, ResetTypes
<1> QED
  BY <1>2, <1>5 DEF CoreCall, TypeOK

LEMMA CoreCallAccounting == TypeOK /\ Accounting /\ CoreCall => Accounting'
<1> SUFFICES ASSUME TypeOK, Accounting, CoreCall PROVE Accounting'
  OBVIOUS
<1>1. Part2Control /\ p2.writeLit \in Int
  BY DEF Accounting, TypeOK, P2Type
<1>2. /\ p1.pc = "idle" /\ p2.pc = "idle" /\ litQ' = litQ /\ lenQ' = lenQ
      /\ p1'.pushed = p1.pushed /\ p1'.litCount = 0
      /\ p2'.upto = p2.upto /\ p2'.writeLit = 0 /\ p2'.st = "token" /\ p2'.fresh
  BY DEF CoreCall, P1At, P2At
<1>3. p2.writeLit = 0
  BY <1>1, <1>2 DEF Part2Control
<1>4. Unannounced = 0 /\ Unannounced' = 0
  BY <1>2 DEF Unannounced
<1>5. Part2Control'
  BY <1>2 DEF Part2Control
<1> QED
  BY <1>2, <1>3, <1>4, <1>5, Frame

(* The finder only adds records to what Part1 reads. *)
LEMMA FinderStepType ==
    ASSUME TypeOK, Accounting, FinderInv, FinderStep, ~bst.overtaken
    PROVE  TypeOK' /\ Accounting'
<1>1. /\ session' = session /\ size' = size /\ limit' = limit /\ answers' = answers
      /\ p1' = p1 /\ p2' = p2 /\ sink' = sink /\ litQ' = litQ /\ lenQ' = lenQ
      /\ outQ' = outQ /\ eosQ' = eosQ /\ sizeQ' = sizeQ
  BY DEF FinderStep, encoderOwn
<1>2. recQ' \in Seq(Record)
  <2>1. recQ \in Seq(Record)
    BY DEF TypeOK
  <2>2. (\E r \in Record : recQ' = Append(recQ, r)) \/ recQ' = recQ
    BY FinderSends DEF FinderStep
  <2> QED
    BY <2>1, <2>2, AppendType
<1>3. Unannounced' = Unannounced /\ Part2Control'
  BY <1>1 DEF Unannounced, Accounting, Part2Control
<1> QED
  BY <1>1, <1>2, <1>3, Frame DEF TypeOK

-----------------------------------------------------------------------------
(* The FIFO between the halves *)

(* The finder's steps leave everything of the encoder but recQ. *)
EncoderSame ==
    /\ session' = session /\ size' = size /\ limit' = limit /\ answers' = answers
    /\ p1' = p1 /\ p2' = p2 /\ sink' = sink /\ litQ' = litQ /\ lenQ' = lenQ
    /\ outQ' = outQ /\ eosQ' = eosQ /\ sizeQ' = sizeQ

LEMMA AheadMore ==
    ASSUME NEW t \in Seq(Byte), NEW p \in Nat, NEW r, NEW q \in Seq(Record), NEW S, NEW end \in Nat,
           Ahead(t, p, r, q, S, end),
           NEW v \in Record, NEW f \in Nat, <<end, v, f>> \in S, end < Len(t)
    PROVE  Ahead(t, p, r, Append(q, v), S, f)
<1>1. Len(t) \in Nat
  OBVIOUS
<1>2. p < Len(t)
  BY <1>1 DEF Ahead
<1> QED
  BY <1>2, PathMore DEF Ahead

(* A record sent to Part1 leads on from the last one. *)
LEMMA SupplyMore ==
    ASSUME TypeOK, NEW t, NEW L, NEW E, NEW S, NEW end \in Nat, Working(t, L, E, S, end),
           NEW r \in Record, NEW f \in Nat, <<end, r, f>> \in S,
           EncoderSame, recQ' = Append(recQ, r)
    PROVE  Working(t, L, E, S, f)'
<1>1. Context(t, L) /\ Part1Inv(t, L, S, end) /\ Part2Place(t, p2) /\ Pipe(E)
  BY DEF Working
<1>2. t \in Seq(Byte) /\ Len(t) \in Nat /\ S \subseteq RecSteps(t)
  BY <1>1 DEF Context, Part1Inv, Part1Place
<1>3. end < Len(t)
  <2>1. end + RecLen(r) <= Len(t)
    <3>1. <<end, r, f>> \in RecSteps(t)
      BY <1>2
    <3> QED
      BY <3>1, RecStep DEF RecAt
  <2> QED
    BY <1>2, <2>1, RecordFacts
<1>4. /\ recQ \in Seq(Record) /\ p1.i \in Nat /\ p1.i + RecLen(p1.tmp) \in Nat
  <2>1. recQ \in Seq(Record) /\ p1.i \in Nat /\ p1.tmp \in Record
    BY Part1Facts
  <2>2. RecLen(p1.tmp) \in Nat
    BY <2>1, RecordFacts
  <2> QED
    BY <2>1, <2>2
<1>5. Part1Place(t, p1, Append(recQ, r), S, f)
  <2>1. p1.pc = "first" => Path(S, Append(recQ, r), 0, f)
    BY <1>1, <1>4, PathMore DEF Part1Inv, Part1Place
  <2>2. p1.pc = "loop" => Ahead(t, p1.i, p1.next, Append(recQ, r), S, f)
    BY <1>1, <1>2, <1>3, <1>4, AheadMore DEF Part1Inv, Part1Place
  <2>3. p1.pc = "emit" => Ahead(t, p1.i + RecLen(p1.tmp), p1.next, Append(recQ, r), S, f)
    BY <1>1, <1>2, <1>3, <1>4, AheadMore DEF Part1Inv, Part1Place
  <2>4. p1.pc # "done"
    BY <1>1, <1>2, <1>3 DEF Part1Inv, Part1Place
  <2> QED
    BY <1>1, <2>1, <2>2, <2>3, <2>4 DEF Part1Inv, Part1Place
<1>6. Part1Inv(t, L, S, f)'
  <2>1. Part1Place(t, p1', recQ', S, f) /\ Part1Run(t, L, p1', limit')
    BY <1>1, <1>5 DEF EncoderSame, Part1Inv
  <2>2. Queued(t, L)' /\ LiteralsIn(L)'
    BY <1>1 DEF EncoderSame, Part1Inv, Queued, LiteralsIn
  <2> QED
    BY <2>1, <2>2 DEF Part1Inv
<1>7. Context(t, L)' /\ Pipe(E)' /\ Part2Place(t, p2')
  BY <1>1, SamePipe DEF EncoderSame, Context
<1>8. (~limit /\ p2.csize < size => InStep(t, L, Decoded(E), p2))'
  BY DEF EncoderSame, Working
<1> QED
  BY <1>6, <1>7, <1>8 DEF Working

LEMMA SupplySame ==
    ASSUME NEW t, NEW L, NEW E, NEW S, NEW end, Working(t, L, E, S, end),
           EncoderSame, recQ' = recQ
    PROVE  Working(t, L, E, S, end)'
<1>1. Context(t, L) /\ Part1Inv(t, L, S, end) /\ Part2Place(t, p2) /\ Pipe(E)
  BY DEF Working
<1>2. Context(t, L)' /\ Pipe(E)' /\ Part2Place(t, p2') /\ Part1Inv(t, L, S, end)'
  BY <1>1, SamePipe, SameParse DEF EncoderSame, Context
<1>3. (~limit /\ p2.csize < size => InStep(t, L, Decoded(E), p2))'
  BY DEF EncoderSame, Working
<1> QED
  BY <1>2, <1>3 DEF Working

(* What Part1 has been sent, in the next state. *)
LEMMA SuppliedNext ==
    ASSUME NEW u, NEW e, u = text', e = SizeOf(bst'.sent),
           \E L, E : Working(u, L, E, TrueSteps(u), e)'
    PROVE  \E L, E : Supplied(text, L, E)'
<1>1. PICK L, E : Working(u, L, E, TrueSteps(u), e)'
  OBVIOUS
<1>2. Working(text, L, E, TrueSteps(text), SizeOf(bst.sent))'
  BY <1>1
<1> QED
  BY <1>2 DEF Supplied

-----------------------------------------------------------------------------
(* The steps of the engine *)

LEMMA CoreStart == CoreInit => TypeOK /\ Accounting /\ CoreInv
<1> SUFFICES ASSUME CoreInit PROVE TypeOK /\ Accounting /\ CoreInv
  OBVIOUS
<1>1. TypeOK /\ Accounting
  BY InitType, InitAccounting DEF CoreInit
<1>2. session \in Sessions /\ p1.pc = "idle" /\ Quiet
  BY DEF CoreInit, Init, Quiet, P1At, P2At, SinkAt
<1>3. FinderInv
  <2>1. 0 \in Byte
    BY ConstantTypes DEF Byte
  <2>2. TextOK
    BY DEF CoreInit, TextOK
  <2> QED
    BY <2>1, <2>2, FinderStart DEF CoreInit, Starting
<1>4. FinderDone /\ ~bst.overtaken
  <2>1. text = << >> /\ Len(text) = 0
    BY DEF CoreInit
  <2>2. Start(text, "fill") = "done" /\ Start(text, "scan") = "done"
    BY <2>1 DEF Start
  <2> QED
    BY <2>2 DEF CoreInit, FinderDone, LzStart, FltStart, BstStart
<1> QED
  BY <1>1, <1>2, <1>3, <1>4 DEF CoreInv

LEMMA CoreCallKeeps ==
    ASSUME TypeOK, TypeOK', CoreInv, CoreCall
    PROVE  CoreInv'
<1>1. /\ session \in Sessions /\ FinderInv /\ Quiet /\ FinderDone /\ ~bst.overtaken
  BY DEF CoreCall, CoreInv
<1>2. PICK u : u = Bytes(Block.recs)
  OBVIOUS
<1>3. /\ Block.size = Len(u) /\ u \in Seq(Byte) /\ Text(Block.recs) = u
      /\ Len(u) = 0 \/ Len(u) >= LeftBytes + MatchLen
  BY <1>1, <1>2, CoreBlock DEF CoreCall
<1>4. /\ text' = u /\ inQ' = inQ \o u /\ cmpQ' = cmpQ /\ bestQ' = bestQ
      /\ lz' = LzStart(text') /\ flt' = FltStart(text')
      /\ dict' = Flushed /\ late' = << >>
  BY <1>2 DEF CoreCall
<1>5. PICK junk \in Byte : bst' = BstStart(text', junk)
  BY DEF CoreCall
<1>6. inQ' = u /\ cmpQ' = << >> /\ bestQ' = << >>
  <2>1. inQ = << >> /\ cmpQ = << >> /\ bestQ = << >>
    BY <1>1, FinderEmpty
  <2> QED
    BY <1>3, <1>4, <2>1
<1>7. FinderInv'
  <2>1. Starting'
    BY <1>3, <1>4, <1>5, <1>6 DEF Starting, TextOK
  <2>2. (Starting => FinderInv)'
    BY FinderStart, PTL
  <2> QED
    BY <2>1, <2>2
<1>13. ~bst'.overtaken
  BY <1>5 DEF BstStart
<1>8. SizeOf(bst'.sent) = 0
  <2>1. bst'.sent = << >>
    BY <1>5 DEF BstStart
  <2> QED
    BY <2>1, SizeOfNone
<1>9. /\ session' = session /\ answers' = answers /\ recQ' = << >>
      /\ litQ' = << >> /\ lenQ' = << >> /\ outQ' = << >> /\ eosQ' = << >> /\ sizeQ' = << >>
  BY <1>1 DEF CoreCall, Quiet
<1>10. \E L, E : Supplied(text, L, E)'
  <2>1. /\ TrueSteps(u) \subseteq RecSteps(u) /\ Path(TrueSteps(u), recQ', 0, 0)
    BY <1>3, <1>9, TrueStepsAllowed, PathNone
  <2>2. /\ Len(answers') < Len(session') /\ size' = Len(u) /\ limit' = FALSE
        /\ p1' = P1At(IF size' = 0 THEN "done" ELSE "first", p1.pushed)
        /\ p2' = P2At("loop", p2.upto) /\ sink' = SinkAt("data")
    BY <1>3, <1>9 DEF CoreCall
  <2>3. \E L : Working(u, L, << >>, TrueSteps(u), 0)'
    BY <1>3, <1>9, <2>1, <2>2, StartWorking
  <2> QED
    BY <1>4, <1>8, <2>3, SuppliedNext
<1>11. p1'.pc # "idle"
  BY DEF CoreCall, P1At
<1>12. text' = Text(Block'.recs)
  <2>1. Block' = Block
    BY <1>9 DEF Block
  <2> QED
    BY <1>3, <1>4, <2>1
<1> QED
  BY <1>1, <1>7, <1>9, <1>10, <1>11, <1>12, <1>13 DEF CoreInv

LEMMA CoreReturnKeeps ==
    ASSUME TypeOK, Accounting, CoreInv, CoreReturn
    PROVE  CoreInv'
<1>1. /\ p1.pc = "done" /\ p2.pc = "done" /\ sink.pc = "done"
      /\ session' = session /\ recQ' = recQ /\ litQ' = litQ /\ lenQ' = lenQ
      /\ outQ' = outQ /\ eosQ' = eosQ /\ sizeQ' = sizeQ
      /\ p1'.pc = "idle" /\ p2'.pc = "idle" /\ sink'.pc = "idle"
  BY DEF CoreReturn, Return, streams, P1At, P2At, SinkAt
<1>2. /\ text' = text /\ lz' = lz /\ dict' = dict /\ late' = late /\ flt' = flt
      /\ bst' = bst /\ inQ' = inQ /\ cmpQ' = cmpQ /\ bestQ' = bestQ
  BY DEF CoreReturn, finderOwn
<1>3. FinderInv' /\ FinderDone' /\ ~bst'.overtaken
  BY <1>2, FinderStays DEF CoreInv, CoreReturn, FinderDone
<1>4. PICK L, E : Supplied(text, L, E)
  BY <1>1 DEF CoreInv
<1>5. /\ recQ = << >> /\ litQ = << >> /\ lenQ = << >>
      /\ outQ = << >> /\ eosQ = << >> /\ sizeQ = << >>
  BY <1>1, <1>4, DoneDrained DEF Supplied
<1> QED
  BY <1>1, <1>3, <1>5 DEF CoreInv, Quiet

LEMMA FinderStepKeeps ==
    ASSUME TypeOK, CoreInv, FinderStep
    PROVE  CoreInv'
<1>1. /\ EncoderSame /\ session' = session
  BY DEF FinderStep, encoderOwn, EncoderSame
<1>2. /\ FinderInv' /\ text' = text /\ ~FinderDone /\ ~bst'.overtaken
      /\ \/ \E r \in Record :
               /\ <<SizeOf(bst.sent), r, SizeOf(bst'.sent)>> \in TrueSteps(text)
               /\ recQ' = Append(recQ, r)
         \/ bst'.sent = bst.sent /\ recQ' = recQ
  BY FinderSends DEF CoreInv, FinderStep
<1>3. p1.pc # "idle" /\ p1' = p1 /\ Block' = Block
  BY <1>1, <1>2 DEF CoreInv, EncoderSame, Block
<1>4. PICK u, e, f, L, E : /\ u = text /\ e = SizeOf(bst.sent) /\ f = SizeOf(bst'.sent)
                           /\ Working(u, L, E, TrueSteps(u), e)
  BY <1>3 DEF CoreInv, Supplied
<1>5. Working(u, L, E, TrueSteps(u), f)'
  <2>1. CASE bst'.sent = bst.sent /\ recQ' = recQ
    <3>1. e = f
      BY <1>4, <2>1
    <3> QED
      BY <1>1, <1>4, <2>1, <3>1, SupplySame
  <2>2. CASE \E r \in Record : <<e, r, f>> \in TrueSteps(u) /\ recQ' = Append(recQ, r)
    <3>1. PICK r \in Record : <<e, r, f>> \in TrueSteps(u) /\ recQ' = Append(recQ, r)
      BY <2>2
    <3>2. e \in Nat /\ f \in Nat
      BY <3>1, TrueStepIs
    <3> QED
      BY <1>1, <1>4, <3>1, <3>2, SupplyMore
  <2> QED
    BY <1>2, <1>4, <2>1, <2>2
<1>6. \E M, F : Supplied(text, M, F)'
  BY <1>2, <1>4, <1>5, SuppliedNext
<1>7. text' = Text(Block'.recs)
  BY <1>2, <1>3 DEF CoreInv
<1> QED
  BY <1>1, <1>2, <1>3, <1>6, <1>7 DEF CoreInv

LEMMA EncoderStepKeeps ==
    ASSUME TypeOK, TypeOK', Accounting, CoreInv, EncoderStep
    PROVE  CoreInv'
<1>1. /\ text' = text /\ lz' = lz /\ dict' = dict /\ late' = late /\ flt' = flt
      /\ bst' = bst /\ inQ' = inQ /\ cmpQ' = cmpQ /\ bestQ' = bestQ
  BY DEF EncoderStep, finderOwn
<1>2. FinderInv' /\ ~bst'.overtaken
  BY <1>1, FinderStays DEF CoreInv
<1>3. p1.pc # "idle" /\ session' = session /\ answers' = answers
  BY BusyStep DEF CoreInv, EncoderStep
<1>4. PICK u, e, L, E : /\ u = text /\ e = SizeOf(bst.sent)
                        /\ Working(u, L, E, TrueSteps(u), e)
  BY <1>3 DEF CoreInv, Supplied
<1>5. \E M, F : Working(u, M, F, TrueSteps(u), e)'
  BY <1>4, StepWorking DEF EncoderStep
<1>6. \E M, F : Supplied(text, M, F)'
  <2>1. u = text' /\ e = SizeOf(bst'.sent)
    BY <1>1, <1>4
  <2> QED
    BY <1>5, <2>1, SuppliedNext
<1>7. p1'.pc # "idle"
  BY <1>5 DEF Working, Context
<1>8. text' = Text(Block'.recs)
  <2>1. Block' = Block
    BY <1>3 DEF Block
  <2> QED
    BY <1>1, <1>3, <2>1 DEF CoreInv
<1> QED
  BY <1>2, <1>3, <1>6, <1>7, <1>8 DEF CoreInv
LEMMA CoreStays ==
    ASSUME TypeOK, Accounting, CoreInv, UNCHANGED coreVars
    PROVE  TypeOK' /\ Accounting' /\ CoreInv'
<1>1. /\ EncoderSame /\ recQ' = recQ
      /\ text' = text /\ lz' = lz /\ dict' = dict /\ late' = late /\ flt' = flt
      /\ bst' = bst /\ inQ' = inQ /\ cmpQ' = cmpQ /\ bestQ' = bestQ
  BY DEF coreVars, vars, streams, finderOwn, EncoderSame
<1>2. TypeOK'
  BY <1>1 DEF EncoderSame, TypeOK
<1>3. Accounting'
  <2>1. Unannounced' = Unannounced /\ Part2Control'
    BY <1>1 DEF EncoderSame, Unannounced, Accounting, Part2Control
  <2> QED
    BY <1>1, <2>1, Frame DEF EncoderSame
<1>4. FinderInv' /\ ~bst'.overtaken /\ (FinderDone' <=> FinderDone) /\ (Quiet' <=> Quiet) /\ Block' = Block
  BY <1>1, FinderStays DEF EncoderSame, CoreInv, FinderDone, Quiet, Block
<1>5. ASSUME p1.pc # "idle" PROVE \E L, E : Supplied(text, L, E)'
  <2>1. PICK u, e, L, E : /\ u = text /\ e = SizeOf(bst.sent)
                          /\ Working(u, L, E, TrueSteps(u), e)
    BY <1>5 DEF CoreInv, Supplied
  <2>2. Working(u, L, E, TrueSteps(u), e)'
    BY <1>1, <2>1, SupplySame
  <2>3. u = text' /\ e = SizeOf(bst'.sent)
    BY <1>1, <2>1
  <2> QED
    BY <2>2, <2>3, SuppliedNext
<1>6. session' = session /\ p1' = p1 /\ (p1.pc # "idle" => text' = Text(Block'.recs))
  BY <1>1, <1>4 DEF EncoderSame, CoreInv
<1>7. CoreInv'
  BY <1>4, <1>5, <1>6 DEF CoreInv
<1> QED
  BY <1>2, <1>3, <1>7

LEMMA CoreKeeps ==
    TypeOK /\ Accounting /\ CoreInv /\ [CoreNext]_coreVars => TypeOK' /\ Accounting' /\ CoreInv'
<1> SUFFICES ASSUME TypeOK, Accounting, CoreInv, [CoreNext]_coreVars
             PROVE  TypeOK' /\ Accounting' /\ CoreInv'
  OBVIOUS
<1>1. CASE CoreCall
  <2>1. TypeOK' /\ Accounting'
    BY <1>1, CoreCallType, CoreCallAccounting DEF CoreInv
  <2> QED
    BY <1>1, <2>1, CoreCallKeeps
<1>2. CASE CoreReturn
  <2>1. TypeOK' /\ Accounting'
    BY <1>2, ReturnType, OtherAccounting DEF CoreReturn
  <2> QED
    BY <1>2, <2>1, CoreReturnKeeps
<1>3. CASE FinderStep
  <2>1. TypeOK' /\ Accounting'
    BY <1>3, FinderStepType DEF CoreInv
  <2> QED
    BY <1>3, <2>1, FinderStepKeeps
<1>4. CASE EncoderStep
  <2>1. TypeOK'
    BY <1>4, Part1Type, Part2Type, SinkStepType DEF EncoderStep
  <2>2. Accounting'
    BY <1>4, Part1Accounting, Part2Accounting, OtherAccounting DEF EncoderStep
  <2> QED
    BY <1>4, <2>1, <2>2, EncoderStepKeeps
<1>5. CASE CoreRest \/ UNCHANGED coreVars
  BY <1>5, CoreStays DEF CoreRest
<1> QED
  BY <1>1, <1>2, <1>3, <1>4, <1>5 DEF CoreNext

(* The engine keeps its invariant: its types, where every literal is, and  *)
(* the encoder working, on the text the finder parses, along the records   *)
(* the finder has sent so far.                                             *)
THEOREM CoreInvariant == CoreSpec => [](TypeOK /\ Accounting /\ CoreInv)
BY CoreStart, CoreKeeps, PTL DEF CoreSpec

-----------------------------------------------------------------------------
(* The properties of the engine *)

(* Part1 and the finder stay aligned on the FIFO between them: the record  *)
(* Part1 is about to take says the truth about the position Part1 has      *)
(* counted to.                                                             *)
THEOREM AlwaysAligned == CoreSpec => []Aligned
<1>1. TypeOK /\ CoreInv => Aligned
  <2> SUFFICES ASSUME TypeOK, CoreInv, p1.pc = "loop", p1.i < size
               PROVE  TrueAt(p1.next, p1.i)
    BY DEF Aligned
  <2>1. PICK L, E : Supplied(text, L, E)
    BY DEF CoreInv
  <2>2. p1.i < Len(text) /\ Ahead(text, p1.i, p1.next, recQ, TrueSteps(text), SizeOf(bst.sent))
    BY <2>1 DEF Supplied, Working, Context, Part1Inv, Part1Place
  <2>3. <<p1.i, p1.next, p1.i + RecLen(p1.next)>> \in TrueSteps(text)
    BY <2>2 DEF Ahead
  <2>4. p1.i \in Int /\ Fits(text, p1.next, p1.i)
    BY <2>3, TrueStepIs
  <2> QED
    BY <2>4, FitsTrueAt
<1> QED
  BY <1>1, CoreInvariant, PTL

(* When all the processes of a call have returned, every FIFO of the       *)
(* engine is empty and the records sent cover the block exactly, so the    *)
(* next call of the engine starts clean.                                   *)
THEOREM CoreAlwaysDrained == CoreSpec => []CoreDrained
<1>1. TypeOK /\ Accounting /\ CoreInv => CoreDrained
  <2> SUFFICES ASSUME TypeOK, Accounting, CoreInv, FinderDone,
                      p1.pc \in {"idle", "done"}, p2.pc \in {"idle", "done"},
                      sink.pc \in {"idle", "done"}
               PROVE  /\ inQ = << >> /\ cmpQ = << >> /\ bestQ = << >> /\ recQ = << >>
                      /\ litQ = << >> /\ lenQ = << >> /\ outQ = << >> /\ eosQ = << >>
                      /\ sizeQ = << >> /\ SizeOf(bst.sent) = Len(text)
    BY DEF CoreDrained
  <2>1. inQ = << >> /\ cmpQ = << >> /\ bestQ = << >> /\ SizeOf(bst.sent) = Len(text)
    BY FinderEmpty DEF CoreInv
  <2>2. CASE p1.pc = "idle"
    BY <2>1, <2>2 DEF CoreInv, Quiet
  <2>3. CASE p1.pc = "done"
    <3>1. PICK t, L, E, S, e : Working(t, L, E, S, e)
      BY <2>3 DEF CoreInv, Supplied
    <3>2. p2.pc = "done" /\ sink.pc = "done"
      BY <3>1 DEF Working, Context
    <3>3. /\ recQ = << >> /\ litQ = << >> /\ lenQ = << >>
          /\ outQ = << >> /\ eosQ = << >> /\ sizeQ = << >>
      BY <2>3, <3>1, <3>2, DoneDrained
    <3> QED
      BY <2>1, <3>3
  <2> QED
    BY <2>2, <2>3
<1> QED
  BY <1>1, CoreInvariant, PTL

(* The engine implements the block compression service: the match finder   *)
(* and the encoder together, whatever the finder missed, answer each block *)
(* with its own size or with fewer bytes that the decompressor turns back  *)
(* into the bytes of the block.                                            *)
THEOREM CoreAnswers == CoreSpec => CoreImplementsService
<1>1. CoreInit => Service!Init
  BY DEF CoreInit, Init, Service!Init
<1>2. TypeOK /\ Accounting /\ CoreInv /\ [CoreNext]_coreVars
        => [Service!Next]_<<session, answers>>
  <2> SUFFICES ASSUME TypeOK, Accounting, CoreInv, [CoreNext]_coreVars
               PROVE  Service!Next \/ UNCHANGED <<session, answers>>
    OBVIOUS
  <2>1. CASE CoreReturn
    <3>1. session \in Sessions /\ p1.pc = "done" /\ Return
      BY <2>1 DEF CoreInv, CoreReturn, Return
    <3>2. PICK u, L, E, S, e : u = Text(Block.recs) /\ Working(u, L, E, S, e)
      BY <3>1 DEF CoreInv, Supplied
    <3> QED
      BY <3>1, <3>2, ReturnAnswers
  <2>2. CASE CoreCall
    BY <2>2 DEF CoreCall
  <2>3. CASE FinderStep
    BY <2>3 DEF FinderStep, encoderOwn
  <2>4. CASE EncoderStep
    BY <2>4, BusyStep DEF CoreInv, EncoderStep
  <2>5. CASE CoreRest \/ UNCHANGED coreVars
    BY <2>5 DEF CoreRest, coreVars, vars
  <2> QED
    BY <2>1, <2>2, <2>3, <2>4, <2>5 DEF CoreNext
<1> QED
  BY <1>1, <1>2, CoreInvariant, PTL DEF CoreSpec, CoreImplementsService, Service!Spec
=============================================================================
