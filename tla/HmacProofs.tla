----------------------------- MODULE HmacProofs -----------------------------
(***************************************************************************)
(* Theorems about hmacDataflow, for every call of it: any number of        *)
(* messages of any lengths, a key longer than a block or a shorter one of  *)
(* whole words (HmacAssumption), words of four or of eight bytes, and      *)
(* FIFOs of any depth.                                                     *)
(*                                                                         *)
(* The network is deterministic, in the sense of Kahn: each FIFO has one   *)
(* process that writes it and one that reads it, none asks whether a FIFO  *)
(* is empty, and so what goes through a FIFO in a whole call, Streams, is  *)
(* known beforehand, however the processes interleave.  A reachable state  *)
(* is then given by how many elements of each stream have been written, w, *)
(* and read, r: the FIFO holds those between, and the process stands where *)
(* its own numbers say.  That is the inductive invariant, IInv.            *)
(*                                                                         *)
(* Below, first what is true of the data whatever the processes do: the    *)
(* blocks that preProcessing makes of the words of a message are those of  *)
(* the standard's padding, and the key that kpad shifts in word by word,   *)
(* or takes from a hash, is the padded key, the other way round.  Then     *)
(* each process step by step, and the steps put together.                  *)
(***************************************************************************)
EXTENDS Hmac, SequenceTheorems, WellFoundedInduction, NaturalsInduction, TLAPS

-----------------------------------------------------------------------------
(* Sequences.                                                              *)

LEMMA SliceFacts ==
    ASSUME NEW S, NEW T \in Seq(S), NEW r \in Nat, NEW w \in Nat, r <= w, w <= Len(T)
    PROVE  /\ SubSeq(T, r + 1, w) \in Seq(S) /\ Len(SubSeq(T, r + 1, w)) = w - r
           /\ \A i \in 1..w - r : SubSeq(T, r + 1, w)[i] = T[r + i]
<1>1. SubSeq(T, r + 1, w) = [i \in 1..w - r |-> T[r + i]]
  <2>1. SubSeq(T, r + 1, w) = [i \in 1..(1 + w - (r + 1)) |-> T[i + (r + 1) - 1]]
    OBVIOUS
  <2>2. 1 + w - (r + 1) = w - r /\ \A i \in 1..w - r : i + (r + 1) - 1 = r + i
    OBVIOUS
  <2> QED
    BY <2>1, <2>2
<1>2. w - r \in Nat /\ \A i \in 1..w - r : T[r + i] \in S
  OBVIOUS
<1> DEFINE f == [i \in 1..w - r |-> T[r + i]]
<1>3. f \in Seq(S) /\ Len(f) = w - r
  <2>1. f \in [1..w - r -> S]
    BY <1>2
  <2> HIDE DEF f
  <2> QED
    BY <1>2, <2>1
<1> QED
  BY <1>1, <1>3

SliceIs(qs, S, T, r, w) ==
    /\ qs \in Seq(S) /\ Len(qs) = w - r
    /\ \A i \in 1..w - r : qs[i] = T[r + i]

LEMMA SliceOf ==
    ASSUME NEW S, NEW T \in Seq(S), NEW r \in Nat, NEW w \in Nat, r <= w, w <= Len(T)
    PROVE  SliceIs(SubSeq(T, r + 1, w), S, T, r, w)
BY SliceFacts DEF SliceIs

LEMMA SliceSame ==
    ASSUME NEW S, NEW s \in Seq(S), NEW t \in Seq(S), Len(s) = Len(t),
           \A i \in 1..Len(s) : s[i] = t[i]
    PROVE  s = t
BY SeqEqual

(* The first element goes, or one more comes.                              *)
LEMMA SliceHead ==
    ASSUME NEW S, NEW T \in Seq(S), NEW r \in Nat, NEW w \in Nat, r < w, w <= Len(T)
    PROVE  /\ SubSeq(T, r + 1, w) # << >>
           /\ Head(SubSeq(T, r + 1, w)) = T[r + 1]
           /\ Tail(SubSeq(T, r + 1, w)) = SubSeq(T, (r + 1) + 1, w)
<1> DEFINE qs == SubSeq(T, r + 1, w)
           u == SubSeq(T, (r + 1) + 1, w)
<1>1. qs \in Seq(S) /\ Len(qs) = w - r /\ \A i \in 1..w - r : qs[i] = T[r + i]
  BY SliceFacts
<1>2. u \in Seq(S) /\ Len(u) = w - (r + 1) /\ \A i \in 1..w - (r + 1) : u[i] = T[(r + 1) + i]
  <2>1. r + 1 \in Nat /\ r + 1 <= w
    OBVIOUS
  <2> QED
    BY <2>1, SliceFacts
<1> HIDE DEF qs, u
<1>3. qs # << >> /\ Head(qs) = T[r + 1]
  BY <1>1
<1>4. Tail(qs) \in Seq(S) /\ Len(Tail(qs)) = Len(u)
  BY <1>1, <1>2, <1>3
<1>5. ASSUME NEW i \in 1..Len(u) PROVE Tail(qs)[i] = u[i]
  <2>1. i + 1 \in 1..w - r /\ (r + 1) + i = r + (i + 1) /\ Tail(qs)[i] = qs[i + 1]
    BY <1>1, <1>2, <1>3
  <2>2. qs[i + 1] = T[r + (i + 1)]
    BY <1>1, <2>1
  <2> QED
    BY <1>2, <2>1, <2>2
<1>6. Tail(qs) = u
  BY <1>2, <1>4, <1>5, SliceSame
<1> QED
  BY <1>3, <1>6 DEF qs, u

LEMMA SliceAppend ==
    ASSUME NEW S, NEW T \in Seq(S), NEW r \in Nat, NEW w \in Nat, r <= w, w < Len(T)
    PROVE  Append(SubSeq(T, r + 1, w), T[w + 1]) = SubSeq(T, r + 1, w + 1)
<1> DEFINE qs == SubSeq(T, r + 1, w)
           u == SubSeq(T, r + 1, w + 1)
           e == T[w + 1]
<1>1. qs \in Seq(S) /\ Len(qs) = w - r /\ \A i \in 1..w - r : qs[i] = T[r + i]
  BY SliceFacts
<1>2. u \in Seq(S) /\ Len(u) = (w + 1) - r /\ \A i \in 1..(w + 1) - r : u[i] = T[r + i]
  <2>1. w + 1 \in Nat /\ r <= w + 1 /\ w + 1 <= Len(T)
    OBVIOUS
  <2> QED
    BY <2>1, SliceFacts
<1>3. e \in S
  OBVIOUS
<1>4. e = T[w + 1]
  OBVIOUS
<1> HIDE DEF qs, u, e
<1>5. Append(qs, e) \in Seq(S) /\ Len(Append(qs, e)) = Len(u)
  BY <1>1, <1>2, <1>3
<1>6. ASSUME NEW i \in 1..Len(u) PROVE Append(qs, e)[i] = u[i]
  <2>1. CASE i <= w - r
    BY <1>1, <1>2, <1>3, <2>1
  <2>2. CASE ~(i <= w - r)
    <3>1. i = Len(qs) + 1 /\ r + i = w + 1
      BY <1>1, <1>2, <2>2
    <3> QED
      BY <1>1, <1>2, <1>3, <1>4, <3>1
  <2> QED
    BY <2>1, <2>2
<1>7. Append(qs, e) = u
  BY <1>2, <1>5, <1>6, SliceSame
<1> QED
  BY <1>7 DEF qs, u, e

LEMMA SliceEmpty ==
    ASSUME NEW S, NEW T \in Seq(S), NEW r \in Nat, r <= Len(T)
    PROVE  SubSeq(T, r + 1, r) = << >>
<1>1. SubSeq(T, r + 1, r) \in Seq(S) /\ Len(SubSeq(T, r + 1, r)) = 0
  BY SliceFacts
<1> QED
  BY <1>1

(* A slice of a slice, and two that meet.                                  *)
LEMMA SliceSlice ==
    ASSUME NEW S, NEW T \in Seq(S), NEW r \in Nat, NEW w \in Nat, r <= w, w <= Len(T),
           NEW k \in Nat, r + k <= w
    PROVE  /\ SubSeq(SubSeq(T, r + 1, w), 1, k) = SubSeq(T, r + 1, r + k)
           /\ SubSeq(SubSeq(T, r + 1, w), k + 1, Len(SubSeq(T, r + 1, w))) = SubSeq(T, (r + k) + 1, w)
<1> DEFINE qs == SubSeq(T, r + 1, w)
           a == SubSeq(qs, 1, k)
           b == SubSeq(qs, k + 1, Len(qs))
           c == SubSeq(T, r + 1, r + k)
           d == SubSeq(T, (r + k) + 1, w)
           m == r + k
<1>0. m \in Nat /\ m = r + k /\ r <= m /\ m <= w /\ m <= Len(T)
  OBVIOUS
<1>1. qs \in Seq(S) /\ Len(qs) = w - r /\ \A i \in 1..w - r : qs[i] = T[r + i]
  BY SliceFacts
<1>2. c \in Seq(S) /\ Len(c) = m - r /\ \A i \in 1..m - r : c[i] = T[r + i]
  <2>1. c = SubSeq(T, r + 1, m)
    OBVIOUS
  <2> HIDE DEF m, c
  <2> QED
    BY <1>0, <2>1, SliceFacts
<1>3. d \in Seq(S) /\ Len(d) = w - m /\ \A i \in 1..w - m : d[i] = T[m + i]
  <2>1. d = SubSeq(T, m + 1, w)
    OBVIOUS
  <2> HIDE DEF m, d
  <2> QED
    BY <1>0, <2>1, SliceFacts
<1> HIDE DEF qs, m, c, d
<1>4. a \in Seq(S) /\ Len(a) = k /\ \A i \in 1..k : a[i] = qs[i]
  <2>1. 0 \in Nat /\ 0 <= k /\ k <= Len(qs) /\ 0 + 1 = 1 /\ k - 0 = k
    BY <1>0, <1>1
  <2>2. /\ SubSeq(qs, 0 + 1, k) \in Seq(S) /\ Len(SubSeq(qs, 0 + 1, k)) = k - 0
        /\ \A i \in 1..k - 0 : SubSeq(qs, 0 + 1, k)[i] = qs[0 + i]
    BY <1>1, <2>1, SliceFacts
  <2> HIDE DEF a
  <2>3. a = SubSeq(qs, 0 + 1, k)
    BY <2>1 DEF a
  <2> QED
    BY <2>1, <2>2, <2>3
<1>5. b \in Seq(S) /\ Len(b) = Len(qs) - k /\ \A i \in 1..Len(qs) - k : b[i] = qs[k + i]
  <2>1. Len(qs) \in Nat /\ k <= Len(qs)
    BY <1>0, <1>1
  <2> QED
    BY <1>1, <2>1, SliceFacts
<1> HIDE DEF a, b
<1>6. a = c
  <2>1. Len(a) = Len(c) /\ \A i \in 1..Len(a) : a[i] = c[i]
    BY <1>0, <1>1, <1>2, <1>4
  <2> QED
    BY <1>2, <1>4, <2>1, SliceSame
<1>7. b = d
  <2>1. Len(b) = Len(d)
    BY <1>0, <1>1, <1>3, <1>5
  <2>2. ASSUME NEW i \in 1..Len(b) PROVE b[i] = d[i]
    <3>1. k + i \in 1..w - r /\ r + (k + i) = m + i /\ i \in 1..w - m /\ i \in 1..Len(qs) - k
      BY <1>0, <1>1, <1>5
    <3>2. b[i] = T[r + (k + i)]
      BY <1>1, <1>5, <3>1
    <3> QED
      BY <1>3, <3>1, <3>2
  <2> QED
    BY <1>3, <1>5, <2>1, <2>2, SliceSame
<1> QED
  BY <1>6, <1>7 DEF a, b, c, d, qs

Behind(S, z, v, w) ==
    /\ z \in Seq(S) /\ Len(z) = Len(v) + Len(w)
    /\ \A k \in 1..Len(z) : z[k] = IF k <= Len(v) THEN v[k] ELSE w[k - Len(v)]

LEMMA JoinedBehind ==
    ASSUME NEW S, NEW v \in Seq(S), NEW w \in Seq(S)
    PROVE  Behind(S, v \o w, v, w)
BY ConcatProperties DEF Behind

LEMMA Joined ==
    ASSUME NEW S, NEW s \in Seq(S), NEW t \in Seq(S), NEW a, Len(s) = a, NEW b, Len(t) = b
    PROVE  /\ s \o t \in Seq(S) /\ Len(s \o t) = a + b
           /\ \A i \in 1..a + b : (s \o t)[i] = IF i <= a THEN s[i] ELSE t[i - a]
BY ConcatProperties

(* A function on 1..n is a sequence.                                       *)
LEMMA Listed ==
    ASSUME NEW S, NEW n \in Nat, NEW f, f = [i \in 1..n |-> f[i]], \A i \in 1..n : f[i] \in S
    PROVE  f \in Seq(S) /\ Len(f) = n
<1>1. f \in [1..n -> S]
  OBVIOUS
<1> QED
  BY <1>1
(* Elements in the first m of some sequences.                              *)
Upto(parts, m) == Len(FlattenSeq(SubSeq(parts, 1, m)))

-----------------------------------------------------------------------------
(* Flattening: FlattenSeq is a function defined by recursion on the number *)
(* of sequences.  That it exists and is the only one is shown from the     *)
(* smallest number for which it would not be.                              *)

LEMMA Smallest ==
    ASSUME NEW T \in SUBSET Nat, T # {}
    PROVE  \E x \in T : \A y \in T : x <= y
<1> DEFINE R == OpToRel(<, Nat)
<1>1. IsWellFoundedOn(R, Nat)
  BY NatLessThanWellFounded
<1>2. PICK x \in T : \A y \in T : ~(<<y, x>> \in R)
  <2> HIDE DEF R
  <2> QED
    BY <1>1, WFMin
<1>3. \A y \in T : ~(y < x)
  BY <1>2 DEF OpToRel
<1> QED
  BY <1>3

(* What FlattenSeq asks of the function from i to the first i sequences,   *)
(* one behind the other.                                                   *)
Flattens(seqs, n, f) ==
    f = [i \in 1..n |-> IF i = 1 THEN seqs[i] ELSE f[i - 1] \o seqs[i]]

LEMMA FlattensExists ==
    ASSUME NEW S, NEW seqs \in Seq(Seq(S)), NEW n \in 1..Len(seqs)
    PROVE  \E f \in [1..n -> Seq(S)] : Flattens(seqs, n, f)
<1> DEFINE Ok(k) == \E f \in [1..k -> Seq(S)] : Flattens(seqs, k, f)
           bad == {k \in 1..Len(seqs) : ~Ok(k)}
<1>1. Ok(1)
  <2>1. seqs[1] \in Seq(S)
    BY Len(seqs) \in Nat
  <2> DEFINE f == [i \in 1..1 |-> seqs[1]]
  <2>2. f \in [1..1 -> Seq(S)]
    BY <2>1
  <2>3. Flattens(seqs, 1, f)
    BY DEF Flattens
  <2> QED
    BY <2>2, <2>3
<1>2. ASSUME NEW k \in 1..Len(seqs), k # 1, Ok(k - 1) PROVE Ok(k)
  <2>1. PICK g \in [1..k - 1 -> Seq(S)] : Flattens(seqs, k - 1, g)
    BY <1>2
  <2>2. seqs[k] \in Seq(S) /\ k - 1 \in 1..k - 1 /\ k \in Nat
    BY <1>2
  <2>3. g[k - 1] \in Seq(S) /\ g[k - 1] \o seqs[k] \in Seq(S)
    BY <2>1, <2>2, ConcatProperties
  <2> DEFINE f == [i \in 1..k |-> IF i = k THEN g[k - 1] \o seqs[k] ELSE g[i]]
  <2>4. f \in [1..k -> Seq(S)]
    <3>1. ASSUME NEW i \in 1..k, i # k PROVE i \in 1..k - 1
      BY <3>1, <2>2
    <3> QED
      BY <3>1, <2>1, <2>3
  <2>5. ASSUME NEW i \in 1..k
        PROVE  f[i] = IF i = 1 THEN seqs[i] ELSE f[i - 1] \o seqs[i]
    <3>1. CASE i = k
      <4>0. i - 1 \in 1..k /\ i - 1 # k
        BY <3>1, <2>2, <1>2
      <4>1. f[i - 1] = g[i - 1] /\ f[i] = g[k - 1] \o seqs[k]
        BY <4>0, <3>1
      <4> QED
        BY <4>1, <3>1, <1>2
    <3>2. CASE i # k
      <4>1. i \in 1..k - 1 /\ (i # 1 => i - 1 \in 1..k - 1 /\ i - 1 # k)
        BY <3>2, <2>2
      <4>2. g[i] = IF i = 1 THEN seqs[i] ELSE g[i - 1] \o seqs[i]
        BY <4>1, <2>1 DEF Flattens
      <4>3. f[i] = g[i] /\ (i # 1 => f[i - 1] = g[i - 1])
        BY <4>1, <3>2, <2>2
      <4> HIDE DEF f
      <4> QED
        BY <4>2, <4>3
    <3> QED
      BY <3>1, <3>2
  <2>6. Flattens(seqs, k, f)
    <3>1. f = [i \in 1..k |-> f[i]]
      OBVIOUS
    <3> HIDE DEF f
    <3> QED
      BY <2>5, <3>1 DEF Flattens
  <2> QED
    BY <2>4, <2>6
<1>3. bad = {}
  <2> SUFFICES ASSUME bad # {} PROVE FALSE
    OBVIOUS
  <2>1. bad \in SUBSET Nat
    OBVIOUS
  <2>2. PICK k \in bad : \A j \in bad : k <= j
    BY <2>1, Smallest
  <2>3. k \in 1..Len(seqs) /\ ~Ok(k)
    OBVIOUS
  <2>4. k # 1
    BY <1>1, <2>3
  <2>5. k - 1 \in 1..Len(seqs) /\ ~(k <= k - 1)
    BY <2>3, <2>4, Len(seqs) \in Nat
  <2>6. Ok(k - 1)
    BY <2>2, <2>5
  <2> HIDE DEF Ok
  <2> QED
    BY <1>2, <2>3, <2>4, <2>6
<1> QED
  BY <1>3

LEMMA FlattenIs ==
    ASSUME NEW S, NEW seqs \in Seq(Seq(S)), Len(seqs) # 0,
           NEW f, Flattens(seqs, Len(seqs), f)
    PROVE  FlattenSeq(seqs) = f[Len(seqs)]
<1> DEFINE n == Len(seqs)
           g == CHOOSE h : Flattens(seqs, n, h)
           differ == {k \in 1..n : f[k] # g[k]}
<1>1. Flattens(seqs, n, g)
  OBVIOUS
<1>2. FlattenSeq(seqs) = g[n]
  BY DEF FlattenSeq, Flattens
<1>3. n \in Nat /\ n # 0
  OBVIOUS
<1> HIDE DEF g, n
<1>4. differ = {}
  <2> SUFFICES ASSUME differ # {} PROVE FALSE
    OBVIOUS
  <2>0. differ \in SUBSET Nat
    BY <1>3
  <2>1. PICK k \in differ : \A j \in differ : k <= j
    BY <2>0, Smallest
  <2>2. k \in 1..n /\ f[k] # g[k]
    OBVIOUS
  <2>3. k # 1
    BY <1>1, <2>2 DEF Flattens, n
  <2>4. k - 1 \in 1..n /\ ~(k <= k - 1)
    BY <2>2, <2>3, <1>3
  <2>5. f[k - 1] = g[k - 1]
    BY <2>1, <2>4
  <2>6. f[k] = f[k - 1] \o seqs[k]
    BY <2>2, <2>3 DEF Flattens, n
  <2>7. g[k] = g[k - 1] \o seqs[k]
    BY <2>2, <2>3, <1>1 DEF Flattens, n
  <2> QED
    BY <2>2, <2>5, <2>6, <2>7
<1> QED
  BY <1>2, <1>3, <1>4 DEF n

LEMMA FlattenEmpty == FlattenSeq(<< >>) = << >>
BY DEF FlattenSeq

LEMMA FlattenTyped ==
    ASSUME NEW S, NEW seqs \in Seq(Seq(S))
    PROVE  FlattenSeq(seqs) \in Seq(S)
<1>1. CASE Len(seqs) = 0
  <2>1. seqs = << >>
    BY <1>1
  <2>2. << >> \in Seq(S)
    OBVIOUS
  <2> QED
    BY <2>1, <2>2, FlattenEmpty
<1>2. CASE Len(seqs) # 0
  <2>1. Len(seqs) \in 1..Len(seqs)
    BY <1>2, Len(seqs) \in Nat
  <2>2. PICK f \in [1..Len(seqs) -> Seq(S)] : Flattens(seqs, Len(seqs), f)
    BY <2>1, FlattensExists
  <2> QED
    BY <2>1, <2>2, <1>2, FlattenIs, SMTT(30)
<1> QED
  BY <1>1, <1>2

(* One sequence more goes behind what the others give.                     *)
LEMMA FlattenAppend ==
    ASSUME NEW S, NEW seqs \in Seq(Seq(S)), NEW s \in Seq(S)
    PROVE  FlattenSeq(Append(seqs, s)) = FlattenSeq(seqs) \o s
<1> DEFINE n == Len(seqs)
           more == Append(seqs, s)
<1>1. /\ more \in Seq(Seq(S)) /\ Len(more) = n + 1 /\ n \in Nat
      /\ more[n + 1] = s /\ \A i \in 1..n : more[i] = seqs[i]
  OBVIOUS
<1> HIDE DEF more, n
<1>2. PICK f \in [1..n + 1 -> Seq(S)] : Flattens(more, n + 1, f)
  <2>1. n + 1 \in 1..Len(more)
    BY <1>1
  <2> QED
    BY <1>1, <2>1, FlattensExists
<1>3. FlattenSeq(more) = f[n + 1]
  BY <1>1, <1>2, FlattenIs
<1>4. f[n + 1] = IF n = 0 THEN s ELSE f[n] \o s
  <2> DEFINE k == n + 1
  <2>1. k \in 1..n + 1 /\ (k = 1 <=> n = 0) /\ k - 1 = n
    BY <1>1
  <2>2. \A i \in 1..n + 1 : f[i] = IF i = 1 THEN more[i] ELSE f[i - 1] \o more[i]
    BY <1>2 DEF Flattens
  <2> HIDE DEF k
  <2>3. f[k] = IF k = 1 THEN more[k] ELSE f[n] \o more[k]
    BY <2>1, <2>2
  <2>4. more[k] = s
    BY <1>1 DEF k
  <2> QED
    BY <2>1, <2>3, <2>4 DEF k
<1>5. CASE n = 0
  <2>1. seqs = << >>
    BY <1>5 DEF n
  <2>2. FlattenSeq(seqs) \o s = s
    BY <2>1, FlattenEmpty, ConcatEmptySeq
  <2> QED
    BY <1>3, <1>4, <1>5, <2>2 DEF more
<1>6. CASE n # 0
  <2> DEFINE g == [i \in 1..n |-> f[i]]
  <2>1. Flattens(seqs, n, g)
    <3>1. ASSUME NEW i \in 1..n
          PROVE  f[i] = IF i = 1 THEN seqs[i] ELSE g[i - 1] \o seqs[i]
      <4>1. i \in 1..n + 1 /\ (i # 1 => i - 1 \in 1..n)
        BY <1>1
      <4>2. f[i] = IF i = 1 THEN more[i] ELSE f[i - 1] \o more[i]
        BY <1>2, <4>1 DEF Flattens
      <4> QED
        BY <4>1, <4>2, <1>1
    <3> QED
      BY <3>1 DEF Flattens
  <2>2. FlattenSeq(seqs) = g[n]
    <3> HIDE DEF g
    <3> QED
      BY <2>1, <1>6, FlattenIs DEF n
  <2>3. g[n] = f[n]
    BY <1>1, <1>6
  <2> QED
    BY <1>3, <1>4, <1>6, <2>2, <2>3 DEF more
<1> QED
  BY <1>5, <1>6

LEMMA PartTyped ==
    ASSUME NEW S, NEW parts \in Seq(Seq(S)), NEW m \in 0..Len(parts)
    PROVE  /\ SubSeq(parts, 1, m) \in Seq(Seq(S))
           /\ FlattenSeq(SubSeq(parts, 1, m)) \in Seq(S) /\ Upto(parts, m) \in Nat
<1>1. m \in Nat /\ 0 <= m /\ m <= Len(parts) /\ 0 + 1 = 1
  OBVIOUS
<1>2. SubSeq(parts, 0 + 1, m) \in Seq(Seq(S))
  BY <1>1, SliceFacts
<1>3. SubSeq(parts, 1, m) \in Seq(Seq(S))
  BY <1>1, <1>2
<1>4. FlattenSeq(SubSeq(parts, 1, m)) \in Seq(S)
  BY <1>3, FlattenTyped
<1> QED
  BY <1>3, <1>4 DEF Upto

LEMMA PartNext ==
    ASSUME NEW S, NEW parts \in Seq(Seq(S)), NEW m \in 1..Len(parts)
    PROVE  /\ FlattenSeq(SubSeq(parts, 1, m)) = FlattenSeq(SubSeq(parts, 1, m - 1)) \o parts[m]
           /\ Upto(parts, m) = Upto(parts, m - 1) + Len(parts[m])
<1> DEFINE k == m - 1
           s == SubSeq(parts, 1, k)
           e == parts[m]
<1>1. k \in Nat /\ 0 <= k /\ k < Len(parts) /\ 0 + 1 = 1 /\ k + 1 = m /\ k \in 0..Len(parts)
  OBVIOUS
<1>2. e \in Seq(S) /\ e = parts[k + 1]
  OBVIOUS
<1> HIDE DEF k, e
<1>3. Append(SubSeq(parts, 0 + 1, k), parts[k + 1]) = SubSeq(parts, 0 + 1, k + 1)
  BY <1>1, SliceAppend
<1>4. SubSeq(parts, 1, m) = Append(s, e)
  BY <1>1, <1>2, <1>3
<1>5. s \in Seq(Seq(S)) /\ FlattenSeq(s) \in Seq(S)
  BY <1>1, PartTyped
<1> HIDE DEF s
<1>6. FlattenSeq(Append(s, e)) = FlattenSeq(s) \o e
  BY <1>2, <1>5, FlattenAppend
<1>7. Len(FlattenSeq(s) \o e) = Len(FlattenSeq(s)) + Len(e)
  BY <1>2, <1>5
<1> QED
  BY <1>4, <1>6, <1>7 DEF Upto, s, k, e

LEMMA PartFirst ==
    ASSUME NEW S, NEW parts \in Seq(Seq(S))
    PROVE  FlattenSeq(SubSeq(parts, 1, 0)) = << >> /\ Upto(parts, 0) = 0
<1>1. 0 \in Nat /\ 0 <= Len(parts) /\ 0 + 1 = 1
  OBVIOUS
<1>2. SubSeq(parts, 0 + 1, 0) = << >>
  BY <1>1, SliceEmpty
<1>3. SubSeq(parts, 1, 0) = << >>
  BY <1>1, <1>2
<1> QED
  <2>1. FlattenSeq(SubSeq(parts, 1, 0)) = << >>
    BY <1>3, FlattenEmpty
  <2> QED
    BY <2>1 DEF Upto

LEMMA PartLast ==
    ASSUME NEW S, NEW parts \in Seq(Seq(S))
    PROVE  SubSeq(parts, 1, Len(parts)) = parts /\ Upto(parts, Len(parts)) = Len(FlattenSeq(parts))
<1> DEFINE n == Len(parts)
           s == SubSeq(parts, 1, n)
<1>1. n \in Nat /\ 0 \in Nat /\ 0 <= n /\ n <= Len(parts) /\ 0 + 1 = 1 /\ n - 0 = n
  OBVIOUS
<1>2. /\ SubSeq(parts, 0 + 1, n) \in Seq(Seq(S)) /\ Len(SubSeq(parts, 0 + 1, n)) = n - 0
      /\ \A i \in 1..n - 0 : SubSeq(parts, 0 + 1, n)[i] = parts[0 + i]
  BY <1>1, SliceFacts
<1>3. s \in Seq(Seq(S)) /\ Len(s) = n /\ \A i \in 1..n : s[i] = parts[i]
  BY <1>1, <1>2
<1> HIDE DEF s
<1>4. s = parts
  BY <1>3, SliceSame
<1> QED
  BY <1>4 DEF Upto, s

(* Where the k-th element of the m-th sequence is.                         *)
Placed(parts, n) ==
    \A m \in 1..n : \A k \in 1..Len(parts[m]) :
        /\ Upto(parts, m - 1) + k \in 1..Upto(parts, n)
        /\ FlattenSeq(SubSeq(parts, 1, n))[Upto(parts, m - 1) + k] = parts[m][k]

LEMMA PlacedNext ==
    ASSUME NEW S, NEW parts \in Seq(Seq(S)), NEW n \in 1..Len(parts), Placed(parts, n - 1)
    PROVE  Placed(parts, n)
<1> DEFINE f == FlattenSeq(SubSeq(parts, 1, n - 1))
           g == FlattenSeq(SubSeq(parts, 1, n))
           a == Upto(parts, n - 1)
           e == parts[n]
<1>1. n - 1 \in 0..Len(parts) /\ n \in 0..Len(parts) /\ e \in Seq(S)
  OBVIOUS
<1>2. f \in Seq(S) /\ a \in Nat /\ Len(f) = a
  BY <1>1, PartTyped DEF Upto
<1>3. g = f \o e /\ Upto(parts, n) = a + Len(e)
  BY PartNext
<1> HIDE DEF f, g, a
<1> SUFFICES ASSUME NEW m \in 1..n, NEW k \in 1..Len(parts[m])
             PROVE  /\ Upto(parts, m - 1) + k \in 1..Upto(parts, n)
                    /\ g[Upto(parts, m - 1) + k] = parts[m][k]
  BY DEF Placed, g
<1>4. m - 1 \in 0..Len(parts) /\ Upto(parts, m - 1) \in Nat
  BY PartTyped
<1>5. parts[m] \in Seq(S)
  OBVIOUS
<1>6. CASE m = n
  <2>1. Upto(parts, m - 1) = a /\ k \in 1..Len(e)
    BY <1>6 DEF a
  <2> HIDE DEF e
  <2>0. Behind(S, f \o e, f, e) /\ Len(e) \in Nat
    BY <1>1, <1>2, JoinedBehind
  <2>2. (f \o e)[a + k] = e[k] /\ a + k \in 1..a + Len(e)
    <3>1. a + k \in 1..a + Len(e) /\ ~(a + k <= a) /\ (a + k) - a = k
      BY <1>2, <2>0, <2>1
    <3> QED
      BY <1>2, <2>0, <3>1 DEF Behind
  <2> QED
    BY <1>3, <1>6, <2>1, <2>2 DEF e
<1>7. CASE m # n
  <2>1. m \in 1..n - 1
    BY <1>7
  <2> DEFINE i == Upto(parts, m - 1) + k
  <2>2. i \in 1..a /\ f[i] = parts[m][k]
    BY <2>1 DEF Placed, f, a
  <2> HIDE DEF i, e
  <2>0. Behind(S, f \o e, f, e) /\ Len(e) \in Nat
    BY <1>1, <1>2, JoinedBehind
  <2>3. (f \o e)[i] = f[i] /\ i \in 1..a + Len(e)
    <3>1. i \in 1..a + Len(e) /\ i <= a
      BY <1>2, <2>0, <2>2
    <3> QED
      BY <1>2, <2>0, <3>1 DEF Behind
  <2> QED
    BY <1>3, <2>2, <2>3 DEF i
<1> QED
  BY <1>6, <1>7

LEMMA AllPlaced ==
    ASSUME NEW S, NEW parts \in Seq(Seq(S))
    PROVE  \A n \in 0..Len(parts) : Placed(parts, n)
<1> DEFINE bad == {n \in 0..Len(parts) : ~Placed(parts, n)}
<1>1. Placed(parts, 0)
  BY DEF Placed
<1> SUFFICES ASSUME bad # {} PROVE FALSE
  OBVIOUS
<1>2. bad \in SUBSET Nat
  OBVIOUS
<1>3. PICK n \in bad : \A j \in bad : n <= j
  BY <1>2, Smallest
<1>4. n \in 1..Len(parts) /\ ~Placed(parts, n)
  BY <1>1
<1>5. n - 1 \in 0..Len(parts) /\ ~(n <= n - 1)
  BY <1>4
<1>6. Placed(parts, n - 1)
  BY <1>3, <1>5
<1> QED
  BY <1>4, <1>6, PlacedNext

(* The facts about flattening that are used.                               *)
LEMMA FlattenFacts ==
    ASSUME NEW S, NEW parts \in Seq(Seq(S))
    PROVE  /\ FlattenSeq(parts) \in Seq(S)
           /\ \A m \in 0..Len(parts) : Upto(parts, m) \in Nat /\ Upto(parts, m) <= Len(FlattenSeq(parts))
           /\ Upto(parts, 0) = 0 /\ Upto(parts, Len(parts)) = Len(FlattenSeq(parts))
           /\ \A m \in 1..Len(parts) : Upto(parts, m) = Upto(parts, m - 1) + Len(parts[m])
           /\ \A m \in 1..Len(parts) : \A k \in 1..Len(parts[m]) :
                 FlattenSeq(parts)[Upto(parts, m - 1) + k] = parts[m][k]
<1> DEFINE n == Len(parts)
           total == Len(FlattenSeq(parts))
<1>1. FlattenSeq(parts) \in Seq(S) /\ total \in Nat /\ n \in Nat
  BY FlattenTyped
<1>2. \A m \in 0..n : Upto(parts, m) \in Nat
  BY PartTyped
<1>3. Upto(parts, 0) = 0 /\ Upto(parts, n) = total /\ SubSeq(parts, 1, n) = parts
  BY PartFirst, PartLast
<1>4. \A m \in 1..n : Upto(parts, m) = Upto(parts, m - 1) + Len(parts[m])
  BY PartNext
<1>5. Placed(parts, n)
  BY <1>1, AllPlaced
<1>6. \A m \in 1..n : \A k \in 1..Len(parts[m]) : FlattenSeq(parts)[Upto(parts, m - 1) + k] = parts[m][k]
  BY <1>3, <1>5 DEF Placed
<1>7. \A m \in 0..n : Upto(parts, m) <= total
  <2> DEFINE bad == {d \in 0..n : ~(Upto(parts, n - d) <= total)}
  <2>1. bad = {}
    <3> SUFFICES ASSUME bad # {} PROVE FALSE
      OBVIOUS
    <3>1. bad \in SUBSET Nat
      BY <1>1
    <3>2. PICK d \in bad : \A j \in bad : d <= j
      BY <3>1, Smallest
    <3> DEFINE m == n - d
    <3>3. d \in 0..n /\ ~(Upto(parts, m) <= total)
      OBVIOUS
    <3>4. d # 0
      BY <1>1, <1>3, <3>3
    <3>5. d - 1 \in 0..n /\ ~(d <= d - 1) /\ n - (d - 1) = m + 1 /\ m + 1 \in 1..n
          /\ (m + 1) - 1 = m /\ m \in 0..n
      BY <1>1, <3>3, <3>4
    <3>6. Upto(parts, m + 1) <= total
      BY <3>2, <3>5
    <3> HIDE DEF m
    <3>7. Upto(parts, m + 1) = Upto(parts, m) + Len(parts[m + 1]) /\ Len(parts[m + 1]) \in Nat
      BY <1>4, <3>5
    <3>8. Upto(parts, m) \in Nat /\ Upto(parts, m + 1) \in Nat
      <4>1. m \in 0..n /\ m + 1 \in 0..n
        BY <1>1, <3>5
      <4> QED
        BY <1>2, <4>1
    <3> DEFINE x == Upto(parts, m)
               y == Upto(parts, m + 1)
    <3>9. x \in Nat /\ y \in Nat /\ y <= total /\ y = x + Len(parts[m + 1]) /\ ~(x <= total)
      BY <3>3, <3>6, <3>7, <3>8
    <3> HIDE DEF x, y, total
    <3> QED
      BY <1>1, <3>7, <3>9
  <2> TAKE m \in 0..n
  <2>2. n - m \in 0..n /\ n - (n - m) = m
    BY <1>1
  <2> QED
    BY <2>1, <2>2
<1> HIDE DEF total
<1> QED
  BY <1>1, <1>2, <1>3, <1>4, <1>6, <1>7 DEF total

(* Sequences of one length.                                                *)
Evenly(parts, n, b) ==
    /\ Len(FlattenSeq(parts)) = n * b
    /\ \A m \in 1..n : \A k \in 1..b : FlattenSeq(parts)[(m - 1) * b + k] = parts[m][k]

LEMMA FlattenEven ==
    ASSUME NEW S, NEW parts \in Seq(Seq(S)), NEW b \in Nat, \A m \in 1..Len(parts) : Len(parts[m]) = b
    PROVE  FlattenSeq(parts) \in Seq(S) /\ Evenly(parts, Len(parts), b)
<1>0. Len(parts) \in Nat /\ Len(parts) \in 0..Len(parts)
  OBVIOUS
<1> DEFINE bad == {m \in 0..Len(parts) : Upto(parts, m) # m * b}
<1>1. bad = {}
  <2> SUFFICES ASSUME bad # {} PROVE FALSE
    OBVIOUS
  <2>1. bad \in SUBSET Nat
    OBVIOUS
  <2>2. PICK m \in bad : \A j \in bad : m <= j
    BY <2>1, Smallest
  <2>3. m \in 0..Len(parts) /\ Upto(parts, m) # m * b
    OBVIOUS
  <2>4. m # 0
    BY <2>3, FlattenFacts
  <2>5. m \in 1..Len(parts) /\ m - 1 \in 0..Len(parts) /\ ~(m <= m - 1)
    BY <2>3, <2>4
  <2>6. Upto(parts, m - 1) = (m - 1) * b
    BY <2>2, <2>5
  <2>7. Upto(parts, m) = Upto(parts, m - 1) + b
    BY <2>5, FlattenFacts
  <2>8. (m - 1) * b + b = m * b
    BY <2>3
  <2> QED
    BY <2>3, <2>6, <2>7, <2>8
<1>2. \A m \in 0..Len(parts) : Upto(parts, m) = m * b
  BY <1>1
<1>3. FlattenSeq(parts) \in Seq(S) /\ Len(FlattenSeq(parts)) = Len(parts) * b
  BY <1>0, <1>2, FlattenFacts
<1>4. ASSUME NEW m \in 1..Len(parts), NEW k \in 1..b
      PROVE  FlattenSeq(parts)[(m - 1) * b + k] = parts[m][k]
  <2>1. m - 1 \in 0..Len(parts) /\ k \in 1..Len(parts[m])
    OBVIOUS
  <2>2. Upto(parts, m - 1) = (m - 1) * b
    BY <1>2, <2>1
  <2>3. FlattenSeq(parts)[Upto(parts, m - 1) + k] = parts[m][k]
    BY <2>1, FlattenFacts
  <2> QED
    BY <2>2, <2>3
<1> QED
  BY <1>3, <1>4 DEF Evenly

-----------------------------------------------------------------------------
(***************************************************************************)
(* Padding: the blocks that preProcessing makes of the words of a message  *)
(* are those of the standard.                                              *)
(***************************************************************************)
LEMMA QuotientFacts ==
    ASSUME NEW n \in Nat, NEW d \in Nat, d > 0
    PROVE  n \div d \in Nat /\ n % d \in 0..d - 1 /\ n = d * (n \div d) + (n % d)
OBVIOUS

LEMMA Between ==
    ASSUME NEW d \in Nat, d > 0, NEW x \in Int, NEW lo \in Int, NEW hi \in Int,
           lo * d < x * d, x * d < hi * d
    PROVE  lo < x /\ x < hi
<1>1. ASSUME x <= lo PROVE FALSE
  <2>1. (lo - x) * d >= 0
    BY <1>1
  <2> QED
    BY <2>1
<1>2. ASSUME hi <= x PROVE FALSE
  <2>1. (x - hi) * d >= 0
    BY <1>2
  <2> QED
    BY <2>1
<1> QED
  BY <1>1, <1>2

LEMMA BlockFacts == BlockBytes \in Nat /\ BlockBytes > 8 /\ BlockBytes >= 16 /\ LenBytes = 8
<1>1. BlockBytes \in Nat /\ BlockBytes > 8 /\ BlockBytes % 8 = 0
  BY BlockAssumption DEF BlockAssumption, LenBytes
<1> QED
  BY <1>1 DEF LenBytes

LEMMA ZerosFacts ==
    ASSUME NEW n \in Nat
    PROVE  Zeros(n) \in Seq(Int) /\ Len(Zeros(n)) = n /\ \A i \in 1..n : Zeros(n)[i] = 0
<1>1. Zeros(n) \in [1..n -> Int]
  BY DEF Zeros
<1> QED
  BY <1>1 DEF Zeros

LEMMA LengthFieldFacts ==
    ASSUME NEW len \in Nat
    PROVE  LengthField(len) \in Seq(Int) /\ Len(LengthField(len)) = 8
<1> DEFINE low == [k \in 1..4 |-> ((8 * len) \div 256^(4 - k)) % 256]
<1>1. \A k \in 1..4 : ((8 * len) \div 256^(4 - k)) % 256 \in Int
  OBVIOUS
<1>2. low \in [1..4 -> Int]
  BY <1>1
<1> DEFINE n == 4
<1>3. low \in Seq(Int) /\ Len(low) = n
  <2>1. n \in Nat /\ low \in [1..n -> Int]
    BY <1>2
  <2> HIDE DEF low, n
  <2> QED
    BY <2>1
<1> HIDE DEF low
<1>4. Zeros(4) \in Seq(Int) /\ Len(Zeros(4)) = 4
  BY ZerosFacts
<1> DEFINE z == Zeros(4)
<1>5. LengthField(len) = z \o low
  BY DEF LengthField, low
<1> HIDE DEF z
<1>6. z \in Seq(Int) /\ Len(z) = 4 /\ low \in Seq(Int) /\ Len(low) = 4
  BY <1>3, <1>4 DEF z
<1>7. z \o low \in Seq(Int) /\ Len(z \o low) = 8
  <2> HIDE DEF low
  <2>1. z \o low \in Seq(Int) /\ Len(z \o low) = Len(z) + Len(low)
    BY <1>6, ConcatProperties
  <2> QED
    BY <1>6, <2>1
<1> QED
  BY <1>5, <1>7

LEMMA UpToFacts ==
    ASSUME NEW s \in Seq(Int), NEW n \in Nat, Len(s) <= n
    PROVE  /\ UpTo(s, n) \in Seq(Int) /\ Len(UpTo(s, n)) = n
           /\ \A i \in 1..n : UpTo(s, n)[i] = IF i <= Len(s) THEN s[i] ELSE 0
<1> DEFINE z == Zeros(n - Len(s))
<1>1. n - Len(s) \in Nat
  OBVIOUS
<1>2. z \in Seq(Int) /\ Len(z) = n - Len(s) /\ \A i \in 1..n - Len(s) : z[i] = 0
  BY <1>1, ZerosFacts
<1>3. UpTo(s, n) = s \o z
  BY DEF UpTo
<1> HIDE DEF z
<1>4. s \o z \in Seq(Int) /\ Len(s \o z) = n
  BY <1>2
<1>5. ASSUME NEW i \in 1..n PROVE (s \o z)[i] = IF i <= Len(s) THEN s[i] ELSE 0
  <2>1. (s \o z)[i] = IF i <= Len(s) THEN s[i] ELSE z[i - Len(s)]
    BY <1>2, ConcatProperties
  <2>2. CASE i <= Len(s)
    BY <2>1, <2>2
  <2>3. CASE ~(i <= Len(s))
    <3>1. i - Len(s) \in 1..n - Len(s)
      BY <2>3
    <3> QED
      BY <1>2, <2>1, <2>3, <3>1
  <2> QED
    BY <2>2, <2>3
<1> QED
  BY <1>3, <1>4, <1>5

(* Words of a length, for the two overloads.                               *)
LEMMA WordsFacts ==
    ASSUME NEW n \in Nat, NEW b \in {4, 8}
    PROVE  /\ Words(n, b) \in Nat /\ Words(n, b) * b >= n /\ Words(n, b) * b < n + b
           /\ n > 0 => Words(n, b) > 0
<1>1. CASE b = 4
  BY <1>1 DEF Words
<1>2. CASE b = 8
  BY <1>2 DEF Words
<1> QED
  BY <1>1, <1>2

LEMMA WireFacts ==
    ASSUME NEW X \in Seq(Int), NEW b \in {4, 8}
    PROVE  /\ Wire(X, b) \in Seq(Seq(Int)) /\ Len(Wire(X, b)) = Words(Len(X), b)
           /\ \A k \in 1..Words(Len(X), b) :
                 /\ Wire(X, b)[k] \in Seq(Int) /\ Len(Wire(X, b)[k]) = b
                 /\ \A i \in 1..b : Wire(X, b)[k][i] =
                       IF k * b - i + 1 > Len(X) THEN Junk ELSE X[k * b - i + 1]
<1> DEFINE n == Words(Len(X), b)
           byte(k, i) == IF k * b - i + 1 > Len(X) THEN Junk ELSE X[k * b - i + 1]
           word(k) == [i \in 1..b |-> byte(k, i)]
<1>1. n \in Nat /\ b \in Nat
  <2>1. b \in Nat
    OBVIOUS
  <2>2. Len(X) \in Nat
    OBVIOUS
  <2>3. n \in Nat
    BY <2>2, WordsFacts
  <2> QED
    BY <2>1, <2>3
<1>2. Wire(X, b) = [k \in 1..n |-> word(k)]
  BY DEF Wire
<1> HIDE DEF n
<1>3. ASSUME NEW k \in 1..n, NEW i \in 1..b PROVE byte(k, i) \in Int
  <2>1. CASE k * b - i + 1 > Len(X)
    BY <2>1 DEF Junk
  <2>2. CASE ~(k * b - i + 1 > Len(X))
    <3>1. k * b - i + 1 \in 1..Len(X)
      <4>1. CASE b = 4
        BY <1>1, <2>2, <4>1
      <4>2. CASE b = 8
        BY <1>1, <2>2, <4>2
      <4> QED
        BY <4>1, <4>2
    <3> QED
      BY <2>2, <3>1
  <2> QED
    BY <2>1, <2>2
<1> HIDE DEF byte
<1>4. ASSUME NEW k \in 1..n PROVE word(k) \in Seq(Int) /\ Len(word(k)) = b
  <2>1. word(k) \in [1..b -> Int]
    BY <1>3
  <2> QED
    BY <1>1, <2>1
<1>5. \A k \in 1..n : \A i \in 1..b : word(k)[i] = byte(k, i)
  OBVIOUS
<1> HIDE DEF word
<1> DEFINE f == [k \in 1..n |-> word(k)]
<1>6. f \in Seq(Seq(Int)) /\ Len(f) = n /\ \A k \in 1..n : f[k] = word(k)
  <2>1. f \in [1..n -> Seq(Int)]
    BY <1>4
  <2> QED
    BY <1>1, <2>1
<1> HIDE DEF f
<1>7. Wire(X, b) = f
  BY <1>2 DEF f
<1> QED
  BY <1>4, <1>5, <1>6, <1>7 DEF n, byte

LEMMA ReverseFacts ==
    ASSUME NEW s \in Seq(Int)
    PROVE  /\ Reverse(s) \in Seq(Int) /\ Len(Reverse(s)) = Len(s)
           /\ \A i \in 1..Len(s) : Reverse(s)[i] = s[Len(s) - i + 1]
<1>1. Reverse(s) = [i \in 1..Len(s) |-> s[(Len(s) - i) + 1]]
  BY DEF Reverse
<1>2. \A i \in 1..Len(s) : (Len(s) - i) + 1 \in 1..Len(s) /\ s[(Len(s) - i) + 1] \in Int
  OBVIOUS
<1>3. Reverse(s) \in [1..Len(s) -> Int]
  BY <1>1, <1>2
<1> QED
  BY <1>1, <1>3

LEMMA WholeQuotient ==
    ASSUME NEW c \in Nat, NEW d \in Nat, d > 0, NEW n, n = c * d
    PROVE  n % d = 0 /\ n \div d = c
<1>1. n \in Nat
  OBVIOUS
<1> DEFINE quo == n \div d
           x == n % d
<1>2. quo \in Nat /\ x \in 0..d - 1 /\ n = d * quo + x
  BY <1>1, QuotientFacts
<1> HIDE DEF quo, x
<1>3. (c - quo) * d = x
  BY <1>2
<1>4. -1 * d < (c - quo) * d /\ (c - quo) * d < 1 * d
  BY <1>2, <1>3
<1>5. -1 < c - quo /\ c - quo < 1
  BY <1>2, <1>4, Between
<1>6. c = quo
  BY <1>2, <1>5
<1> QED
  BY <1>2, <1>3, <1>6 DEF x, quo

(* The bytes of the padded message, and the number of its blocks.          *)
Field(len, p) == LengthField(len)[p - (BlocksSent(len) * BlockBytes - 8)]
PaddedByte(X, p) ==
    IF p <= Len(X) THEN X[p]
    ELSE IF p = Len(X) + 1 THEN 128
    ELSE IF p <= BlocksSent(Len(X)) * BlockBytes - 8 THEN 0 ELSE Field(Len(X), p)

(* A length, its whole blocks and the bytes of the next.                   *)
Split(len, a, t) ==
    /\ a \in Nat /\ t \in 0..BlockBytes - 1 /\ len = a * BlockBytes + t
    /\ len \div BlockBytes = a /\ len % BlockBytes = t

LEMMA SplitLen == ASSUME NEW len \in Nat PROVE \E a, t : Split(len, a, t)
<1>1. BlockBytes \in Nat /\ BlockBytes > 0
  BY BlockFacts
<1> DEFINE a == len \div BlockBytes
           t == len % BlockBytes
<1>2. a \in Nat /\ t \in 0..BlockBytes - 1 /\ len = BlockBytes * a + t
  BY <1>1, QuotientFacts
<1>3. BlockBytes * a = a * BlockBytes
  BY <1>1, <1>2
<1> QED
  BY <1>2, <1>3 DEF Split

LEMMA BlockCount ==
    ASSUME NEW len \in Nat, NEW a, NEW t, Split(len, a, t)
    PROVE  /\ BlkNum(len) = BlocksSent(len)
           /\ LengthFits(len) <=> t < BlockBytes - 8
           /\ BlocksSent(len) = IF t < BlockBytes - 8 THEN a + 1 ELSE a + 2
<1>1. a \in Nat /\ t \in 0..BlockBytes - 1 /\ len \div BlockBytes = a /\ len % BlockBytes = t
  BY DEF Split
<1>2. BlockBytes \in Nat /\ LenBytes = 8
  BY BlockFacts
<1>3. LengthFits(len) <=> t < BlockBytes - 8
  BY <1>1, <1>2 DEF LengthFits
<1>4. BlocksSent(len) = IF t < BlockBytes - 8 THEN a + 1 ELSE a + 2
  BY <1>1, <1>2, <1>3 DEF BlocksSent
<1>5. BlkNum(len) = a + 1 + IF t > BlockBytes - 8 - 1 THEN 1 ELSE 0
  BY <1>1, <1>2 DEF BlkNum
<1> QED
  BY <1>1, <1>2, <1>3, <1>4, <1>5

(* The zeros of the standard fill up the last block.                       *)
ZeroCount(len) == CHOOSE k \in 0..BlockBytes - 1 : (len + 1 + k + LenBytes) % BlockBytes = 0

LEMMA ZeroCountIs ==
    ASSUME NEW len \in Nat
    PROVE  /\ ZeroCount(len) \in 0..BlockBytes - 1
           /\ len + 1 + ZeroCount(len) + 8 = BlocksSent(len) * BlockBytes
<1> DEFINE B == BlockBytes
           z == ZeroCount(len)
<1>0. B \in Nat /\ B >= 16 /\ LenBytes = 8
  BY BlockFacts
<1>1. PICK a, t : Split(len, a, t)
  BY SplitLen
<1>2. a \in Nat /\ t \in 0..B - 1 /\ len = a * B + t
  BY <1>1 DEF Split
<1>3. BlocksSent(len) = IF t < B - 8 THEN a + 1 ELSE a + 2
  BY <1>1, BlockCount
<1> HIDE DEF B, z
<1> DEFINE fill == IF t < B - 8 THEN B - 9 - t ELSE (2 * B - 9) - t
           c == IF t < B - 8 THEN a + 1 ELSE a + 2
<1>4. fill \in 0..B - 1 /\ c \in Nat /\ len + 1 + fill + 8 = c * B
  BY <1>0, <1>2
<1>5. (len + 1 + fill + LenBytes) % B = 0
  <2> DEFINE y == c * B
  <2>1. y % B = 0
    <3>1. c \in Nat /\ B > 0 /\ y = c * B
      BY <1>0, <1>4
    <3> HIDE DEF c, fill, y
    <3> QED
      BY <1>0, <3>1, WholeQuotient
  <2>2. len + 1 + fill + LenBytes = y
    BY <1>0, <1>4
  <2> QED
    BY <2>1, <2>2
<1>6. z \in 0..B - 1 /\ (len + 1 + z + LenBytes) % B = 0
  <2> HIDE DEF fill, c
  <2> QED
    BY <1>4, <1>5 DEF ZeroCount, z, B
<1> DEFINE s == len + 1 + z + 8
<1>7. s \in Nat /\ s % B = 0
  BY <1>0, <1>6
<1> DEFINE m == s \div B
<1>8. m \in Nat /\ s = m * B
  <2> HIDE DEF s
  <2>1. m \in Nat /\ s = B * m + (s % B)
    BY <1>0, <1>7, QuotientFacts
  <2> HIDE DEF m
  <2> QED
    BY <1>0, <1>7, <2>1
<1> HIDE DEF m
<1>9. s = a * B + (t + z + 9) /\ a * B < m * B /\ m * B < (a + 3) * B
  <2>1. s = a * B + (t + z + 9)
    BY <1>0, <1>2, <1>6
  <2>2. t + z + 9 \in Int /\ 0 < t + z + 9 /\ t + z + 9 < 3 * B
    BY <1>0, <1>2, <1>6
  <2>3. (a + 3) * B = a * B + 3 * B /\ a * B \in Int /\ 3 * B \in Int
    BY <1>0, <1>2
  <2> HIDE DEF s
  <2> QED
    BY <1>8, <2>1, <2>2, <2>3
<1>10. m = a + 1 \/ m = a + 2
  <2>1. a < m /\ m < a + 3
    BY <1>0, <1>2, <1>8, <1>9, Between
  <2> QED
    BY <1>2, <1>8, <2>1
<1>11. m = c
  <2>1. (a + 1) * B = a * B + B /\ (a + 2) * B = a * B + 2 * B /\ a * B \in Int
    BY <1>0, <1>2
  <2>2. t + z + 9 = B \/ t + z + 9 = 2 * B
    <3> HIDE DEF s
    <3> QED
      BY <1>0, <1>2, <1>6, <1>8, <1>9, <1>10, <2>1
  <2>3. (t + z + 9 = B => m = a + 1) /\ (t + z + 9 = 2 * B => m = a + 2)
    <3> HIDE DEF s
    <3> QED
      BY <1>0, <1>2, <1>6, <1>8, <1>9, <1>10, <2>1
  <2> QED
    BY <1>0, <1>2, <1>6, <2>2, <2>3
<1>12. len + 1 + z + 8 = c * B /\ BlocksSent(len) = c
  BY <1>3, <1>8, <1>11
<1> QED
  BY <1>6, <1>12 DEF z, B

LEMMA PaddedFacts ==
    ASSUME NEW X \in Seq(Int)
    PROVE  /\ BlocksSent(Len(X)) \in Nat \ {0}
           /\ Padded(X) \in Seq(Seq(Int)) /\ Len(Padded(X)) = BlocksSent(Len(X))
           /\ \A b \in 1..BlocksSent(Len(X)) :
                 /\ Padded(X)[b] \in Seq(Int) /\ Len(Padded(X)[b]) = BlockBytes
                 /\ \A i \in 1..BlockBytes : Padded(X)[b][i] = PaddedByte(X, (b - 1) * BlockBytes + i)
<1> DEFINE len == Len(X)
           B == BlockBytes
           n == BlocksSent(len)
           z == ZeroCount(len)
           one == X \o <<128>>
           zer == one \o Zeros(z)
           all == zer \o LengthField(len)
<1>0. B \in Nat /\ B >= 16 /\ len \in Nat
  BY BlockFacts
<1>1. n \in Nat /\ n > 0
  <2>1. PICK a, t : Split(len, a, t)
    BY <1>0, SplitLen
  <2> HIDE DEF len
  <2>2. n = IF t < B - 8 THEN a + 1 ELSE a + 2
    BY <1>0, <2>1, BlockCount
  <2>3. a \in Nat
    BY <2>1 DEF Split
  <2> HIDE DEF n, B
  <2> QED
    BY <2>2, <2>3
<1>2. z \in 0..B - 1 /\ len + 1 + z + 8 = n * B
  <2> HIDE DEF len
  <2> QED
    BY <1>0, ZeroCountIs
<1>3. one \in Seq(Int) /\ Len(one) = len + 1 /\ \A p \in 1..len + 1 : one[p] = IF p <= len THEN X[p] ELSE 128
  <2> DEFINE bit == <<128>>
  <2>1. bit \in Seq(Int) /\ Len(bit) = 1 /\ bit[1] = 128 /\ one = X \o bit
    OBVIOUS
  <2> HIDE DEF bit, one
  <2>2. Behind(Int, one, X, bit)
    BY <2>1, JoinedBehind
  <2>3. one \in Seq(Int) /\ Len(one) = len + 1
    BY <2>1, <2>2 DEF Behind
  <2>4. ASSUME NEW p \in 1..len + 1 PROVE one[p] = IF p <= len THEN X[p] ELSE 128
    <3>1. ~(p <= len) => p - len = 1
      BY <1>0
    <3> QED
      BY <2>1, <2>2, <2>3, <3>1 DEF Behind
  <2> QED
    BY <2>3, <2>4
<1>4. Zeros(z) \in Seq(Int) /\ Len(Zeros(z)) = z /\ \A i \in 1..z : Zeros(z)[i] = 0
  <2>1. z \in Nat
    BY <1>2
  <2> HIDE DEF z
  <2> QED
    BY <2>1, ZerosFacts
<1> HIDE DEF one, z, n
<1>5. /\ zer \in Seq(Int) /\ Len(zer) = len + 1 + z
      /\ \A p \in 1..len + 1 + z : zer[p] = IF p <= len + 1 THEN one[p] ELSE 0
  <2> DEFINE y == Zeros(z)
  <2>1. y \in Seq(Int) /\ Len(y) = z /\ \A i \in 1..z : y[i] = 0
    BY <1>4
  <2>2. zer = one \o y
    OBVIOUS
  <2> HIDE DEF y, zer
  <2>9. Behind(Int, zer, one, y)
    BY <1>3, <2>1, <2>2, JoinedBehind
  <2>3. zer \in Seq(Int) /\ Len(zer) = len + 1 + z
    BY <1>3, <2>1, <2>9 DEF Behind
  <2>4. ASSUME NEW p \in 1..len + 1 + z PROVE zer[p] = IF p <= len + 1 THEN one[p] ELSE 0
    <3>1. zer[p] = IF p <= len + 1 THEN one[p] ELSE y[p - (len + 1)]
      BY <1>3, <2>3, <2>9 DEF Behind
    <3>2. ~(p <= len + 1) => p - (len + 1) \in 1..z
      BY <1>0, <1>2
    <3> QED
      BY <2>1, <3>1, <3>2
  <2> QED
    BY <2>3, <2>4
<1> DEFINE lf == LengthField(len)
<1>6. lf \in Seq(Int) /\ Len(lf) = 8 /\ all = zer \o lf
  BY <1>0, LengthFieldFacts
<1> HIDE DEF zer, lf, all
<1>7. /\ all \in Seq(Int) /\ Len(all) = n * B
      /\ \A p \in 1..n * B : all[p] = PaddedByte(X, p)
  <2> DEFINE m == len + 1 + z
  <2>0. zer \in Seq(Int) /\ lf \in Seq(Int) /\ all = zer \o lf /\ Len(zer) = m
    BY <1>5, <1>6
  <2> DEFINE e == 8
  <2>9. Len(lf) = e
    BY <1>6
  <2> HIDE DEF m, e
  <2>8. Behind(Int, all, zer, lf)
    BY <2>0, JoinedBehind
  <2>10. /\ all \in Seq(Int) /\ Len(all) = m + e
         /\ \A p \in 1..m + e : all[p] = IF p <= m THEN zer[p] ELSE lf[p - m]
    BY <2>0, <2>8, <2>9 DEF Behind
  <2>1. /\ all \in Seq(Int) /\ Len(all) = m + 8
        /\ \A p \in 1..m + 8 : all[p] = IF p <= m THEN zer[p] ELSE lf[p - m]
    BY <2>10 DEF e
  <2>2. ASSUME NEW p \in 1..n * B PROVE all[p] = PaddedByte(X, p)
    <3>0. len + 1 + z \in Nat /\ n * B - 8 = len + 1 + z /\ p \in Nat /\ p > 0 /\ p <= len + 1 + z + 8
      BY <1>0, <1>1, <1>2
    <3>1. all[p] = IF p <= len + 1 + z THEN zer[p] ELSE lf[p - (len + 1 + z)]
      BY <2>1, <3>0 DEF m
    <3>2. CASE p <= len + 1 + z
      <4>1. zer[p] = IF p <= len + 1 THEN one[p] ELSE 0
        BY <1>5, <3>0, <3>2
      <4>2. p <= len + 1 => one[p] = IF p <= len THEN X[p] ELSE 128
        BY <1>0, <1>3, <3>0
      <4>3. p <= len + 1 /\ ~(p <= len) => p = len + 1
        BY <1>0, <3>0
      <4> QED
        BY <1>0, <3>0, <3>1, <3>2, <4>1, <4>2, <4>3 DEF PaddedByte, n
    <3>3. CASE ~(p <= len + 1 + z)
      <4>1. ~(p <= len) /\ p # len + 1 /\ ~(p <= n * B - 8)
        BY <1>0, <1>2, <3>0, <3>3
      <4>2. PaddedByte(X, p) = LengthField(len)[p - (n * B - 8)]
        BY <4>1 DEF PaddedByte, Field, n
      <4> QED
        BY <3>0, <3>1, <3>3, <4>2 DEF lf
    <3> QED
      BY <3>2, <3>3
  <2> QED
    BY <1>2, <2>1, <2>2 DEF m
<1>8. Padded(X) = [b \in 1..Len(all) \div B |-> SubSeq(all, (b - 1) * B + 1, b * B)]
  BY DEF Padded, ZeroCount, all, zer, one, lf, z, B, len
<1> HIDE DEF B
<1>9. Len(all) \div B = n
  BY <1>0, <1>1, <1>7, WholeQuotient
<1>10. ASSUME NEW b \in 1..n
       PROVE  LET s == SubSeq(all, (b - 1) * B + 1, b * B)
              IN  s \in Seq(Int) /\ Len(s) = B /\ \A i \in 1..B : s[i] = PaddedByte(X, (b - 1) * B + i)
  <2> DEFINE lo == (b - 1) * B
             hi == b * B
             s == SubSeq(all, lo + 1, hi)
  <2>1. lo \in Nat /\ hi \in Nat /\ lo <= hi /\ hi <= n * B /\ hi - lo = B
    <3>1. b - 1 \in Nat /\ n - b \in Nat
      BY <1>1
    <3>2. lo \in Nat /\ (n - b) * B \in Nat
      BY <1>0, <3>1
    <3>3. hi = lo + B /\ n * B = hi + (n - b) * B
      BY <1>0, <1>1
    <3> QED
      BY <1>0, <3>2, <3>3
  <2> HIDE DEF lo, hi
  <2>2. s \in Seq(Int) /\ Len(s) = hi - lo /\ \A i \in 1..hi - lo : s[i] = all[lo + i]
    BY <1>7, <2>1, SliceFacts
  <2>3. \A i \in 1..B : lo + i \in 1..n * B
    BY <1>0, <1>1, <2>1
  <2> HIDE DEF s
  <2>4. s \in Seq(Int) /\ Len(s) = B /\ \A i \in 1..B : s[i] = PaddedByte(X, lo + i)
    BY <1>7, <2>1, <2>2, <2>3
  <2> QED
    BY <2>4 DEF s, lo, hi
<1> DEFINE f == [b \in 1..n |-> SubSeq(all, (b - 1) * B + 1, b * B)]
<1>11. f \in Seq(Seq(Int)) /\ Len(f) = n /\ \A b \in 1..n : f[b] = SubSeq(all, (b - 1) * B + 1, b * B)
  <2>1. f \in [1..n -> Seq(Int)]
    BY <1>10
  <2>2. \A b \in 1..n : f[b] = SubSeq(all, (b - 1) * B + 1, b * B)
    OBVIOUS
  <2> HIDE DEF f
  <2> QED
    BY <1>1, <2>1, <2>2
<1>12. Padded(X) = f
  BY <1>8, <1>9
<1> HIDE DEF f
<1>13. ASSUME NEW b \in 1..n
       PROVE  /\ f[b] \in Seq(Int) /\ Len(f[b]) = B
              /\ \A i \in 1..B : f[b][i] = PaddedByte(X, (b - 1) * B + i)
  BY <1>10, <1>11
<1> QED
  BY <1>1, <1>11, <1>12, <1>13 DEF n, B

(* The first word of the message that goes into block j.                   *)
Start(len, b, j) == IF j <= len \div BlockBytes THEN j * (BlockBytes \div b) ELSE Words(len, b)

LEMMA BlockWords ==
    ASSUME NEW b \in {4, 8}
    PROVE  /\ b \in Nat /\ b > 0
           /\ BlockBytes \div b \in Nat /\ BlockBytes \div b > 0 /\ (BlockBytes \div b) * b = BlockBytes
<1>1. BlockBytes \in Nat /\ BlockBytes > 8 /\ BlockBytes % 8 = 0
  BY BlockAssumption DEF BlockAssumption, LenBytes
<1>2. CASE b = 4
  BY <1>1, <1>2
<1>3. CASE b = 8
  BY <1>1, <1>3
<1> QED
  BY <1>2, <1>3

(* The words of a length are those of its whole blocks and of the rest.    *)
LEMMA WordsSplit ==
    ASSUME NEW b \in {4, 8}, NEW c \in Nat, NEW a \in Nat, NEW t \in Nat, NEW len, len = a * (c * b) + t
    PROVE  Words(len, b) = a * c + Words(t, b)
<1> DEFINE W == Words(len, b)
           V == Words(t, b)
           d == W - (a * c + V)
<1>1. b \in Nat /\ b > 0 /\ c * b \in Nat
  OBVIOUS
<1>2. len \in Nat
  <2> DEFINE e == c * b
  <2>1. e \in Nat
    BY <1>1
  <2> HIDE DEF e
  <2>2. a * e \in Nat
    BY <2>1
  <2> QED
    BY <2>2 DEF e
<1>3. W \in Nat /\ W * b >= len /\ W * b < len + b
  BY <1>2, WordsFacts
<1>4. V \in Nat /\ V * b >= t /\ V * b < t + b
  BY WordsFacts
<1> HIDE DEF W, V
<1>5. a * c \in Nat /\ (a * c) * b = a * (c * b)
  BY <1>1
<1> DEFINE h == a * c
<1>6. h \in Nat /\ len = h * b + t
  BY <1>5
<1> HIDE DEF h
<1>7. d = W - (h + V)
  BY DEF h
<1> HIDE DEF d
<1>8. d \in Int /\ d * b = W * b - h * b - V * b
  BY <1>1, <1>3, <1>4, <1>6, <1>7
<1>9. (-1) * b < d * b /\ d * b < 1 * b
  <2> DEFINE x == W * b
             y == V * b
             z == h * b
  <2>1. x \in Int /\ y \in Int /\ z \in Int
    BY <1>1, <1>3, <1>4, <1>6
  <2>2. x >= z + t /\ x < z + t + b /\ y >= t /\ y < t + b /\ d * b = x - z - y
    BY <1>3, <1>4, <1>6, <1>8
  <2> HIDE DEF x, y, z
  <2>3. d * b \in Int /\ -b < d * b /\ d * b < b
    BY <1>1, <2>1, <2>2
  <2>4. (-1) * b = -b /\ 1 * b = b
    BY <1>1
  <2> QED
    BY <2>3, <2>4
<1>10. -1 < d /\ d < 1
  BY <1>1, <1>8, <1>9, Between
<1>11. W = h + V
  BY <1>3, <1>4, <1>6, <1>7, <1>8, <1>10
<1> QED
  BY <1>11 DEF W, V, h

LEMMA StartFacts ==
    ASSUME NEW len \in Nat, NEW b \in {4, 8}
    PROVE  /\ Start(len, b, 0) = 0 /\ Start(len, b, BlocksSent(len)) = Words(len, b)
           /\ \A j \in 0..BlocksSent(len) - 1 :
                 /\ Start(len, b, j) \in Nat /\ WordsOf(len, b, j) \in Nat
                 /\ Start(len, b, j) + WordsOf(len, b, j) = Start(len, b, j + 1)
                 /\ Start(len, b, j + 1) <= Words(len, b)
<1> DEFINE c == BlockBytes \div b
           W == Words(len, b)
<1>1. b \in Nat /\ b > 0 /\ c \in Nat /\ c > 0 /\ c * b = BlockBytes
  BY BlockWords
<1>2. PICK a, t : Split(len, a, t)
  BY SplitLen
<1>3. /\ a \in Nat /\ t \in Nat /\ t < BlockBytes /\ len = a * BlockBytes + t
      /\ len \div BlockBytes = a /\ len % BlockBytes = t
  <2>1. BlockBytes \in Nat
    BY BlockFacts
  <2> QED
    BY <1>2, <2>1 DEF Split
<1> DEFINE V == Words(t, b)
<1>4. W \in Nat /\ V \in Nat
  BY <1>3, WordsFacts
<1>5. W = a * c + V
  <2>1. len = a * (c * b) + t
    BY <1>1, <1>3
  <2>3. c \in Nat /\ a \in Nat /\ t \in Nat
    BY <1>1, <1>3
  <2> HIDE DEF c, W
  <2>2. Words(len, b) = a * c + Words(t, b)
    BY <2>1, <2>3, WordsSplit
  <2> QED
    BY <2>2 DEF W
<1>6. BlocksSent(len) \in {a + 1, a + 2}
  BY <1>2, BlockCount
<1>7. \A j : Start(len, b, j) = IF j <= a THEN j * c ELSE W
  BY <1>3 DEF Start
<1>8. \A j : WordsOf(len, b, j) = IF j < a THEN c ELSE IF j = a THEN V ELSE 0
  BY <1>3 DEF WordsOf
<1> HIDE DEF c, W, V
<1>9. Start(len, b, 0) = 0
  BY <1>1, <1>3, <1>7
<1>10. Start(len, b, BlocksSent(len)) = W
  BY <1>3, <1>6, <1>7
<1>11. ASSUME NEW j \in 0..BlocksSent(len) - 1
       PROVE  /\ Start(len, b, j) \in Nat /\ WordsOf(len, b, j) \in Nat
              /\ Start(len, b, j) + WordsOf(len, b, j) = Start(len, b, j + 1)
              /\ Start(len, b, j + 1) <= W
  <2>1. j \in Nat /\ j <= a + 1
    BY <1>3, <1>6
  <2>2. CASE j < a
    <3>1. j + 1 <= a /\ j * c \in Nat /\ j * c + c = (j + 1) * c
      BY <1>1, <1>3, <2>1, <2>2
    <3>2. (a - (j + 1)) * c \in Nat /\ a * c = (j + 1) * c + (a - (j + 1)) * c /\ (j + 1) * c \in Nat
      BY <1>1, <1>3, <2>1, <2>2
    <3>3. Start(len, b, j) = j * c /\ Start(len, b, j + 1) = (j + 1) * c /\ WordsOf(len, b, j) = c
      BY <1>3, <1>7, <1>8, <2>1, <2>2, <3>1
    <3>4. (j + 1) * c <= W
      BY <1>4, <1>5, <3>2
    <3> QED
      BY <1>1, <3>1, <3>3, <3>4
  <2>3. CASE j = a
    <3>1. a * c \in Nat
      BY <1>1, <1>3
    <3>2. Start(len, b, j) = a * c /\ Start(len, b, j + 1) = W /\ WordsOf(len, b, j) = V
      BY <1>3, <1>7, <1>8, <2>3
    <3> QED
      BY <1>4, <1>5, <3>1, <3>2
  <2>4. CASE j = a + 1
    <3>1. Start(len, b, j) = W /\ Start(len, b, j + 1) = W /\ WordsOf(len, b, j) = 0
      BY <1>3, <1>7, <1>8, <2>4
    <3> QED
      BY <1>4, <3>1
  <2> QED
    BY <1>3, <2>1, <2>2, <2>3, <2>4
<1> QED
  BY <1>9, <1>10, <1>11 DEF W

(* The bytes of some words of a message, in their order.                   *)
BytesOf(words) == FlattenSeq([k \in 1..Len(words) |-> Reverse(words[k])])

LEMMA PlaceInWord ==
    ASSUME NEW b \in Nat, b > 0, NEW p \in Nat, p > 0
    PROVE  \E k \in Nat, i \in 1..b : k > 0 /\ p = (k - 1) * b + i
<1> DEFINE o == p - 1
           x == o \div b
           y == o % b
<1>1. o \in Nat
  OBVIOUS
<1>2. x \in Nat /\ y \in 0..b - 1 /\ o = b * x + y
  <2> HIDE DEF o
  <2> QED
    BY <1>1, QuotientFacts
<1> HIDE DEF x, y
<1>3. x + 1 \in Nat /\ x + 1 > 0 /\ y + 1 \in 1..b /\ p = ((x + 1) - 1) * b + (y + 1)
  BY <1>2
<1> QED
  BY <1>3

Spell(words, X, from, n) ==
    /\ BytesOf(words) \in Seq(Int) /\ Len(BytesOf(words)) = n
    /\ \A p \in 1..n : from + p <= Len(X) => BytesOf(words)[p] = X[from + p]

LEMMA BytesOfWords ==
    ASSUME NEW X \in Seq(Int), NEW b \in {4, 8}, NEW s \in Nat, NEW n \in Nat,
           s + n <= Words(Len(X), b), NEW words, words = SubSeq(Wire(X, b), s + 1, s + n)
    PROVE  Spell(words, X, s * b, n * b)
<1> DEFINE W == Wire(X, b)
           N0 == Words(Len(X), b)
           f == [k \in 1..Len(words) |-> Reverse(words[k])]
<1>0. b \in Nat /\ b > 0
  OBVIOUS
<1>1. N0 \in Nat
  <2>1. Len(X) \in Nat
    OBVIOUS
  <2> QED
    BY <2>1, WordsFacts
<1>2. /\ W \in Seq(Seq(Int)) /\ Len(W) = N0
      /\ \A k \in 1..N0 : /\ W[k] \in Seq(Int) /\ Len(W[k]) = b
                          /\ \A i \in 1..b : W[k][i] = IF k * b - i + 1 > Len(X) THEN Junk ELSE X[k * b - i + 1]
  BY WireFacts
<1> HIDE DEF W, N0
<1> DEFINE m == s + n
<1>3. m \in Nat /\ s <= m /\ m <= Len(W) /\ m - s = n /\ words = SubSeq(W, s + 1, m)
  BY <1>1, <1>2 DEF W, N0
<1>4. words \in Seq(Seq(Int)) /\ Len(words) = n /\ \A k \in 1..n : words[k] = W[s + k]
  <2> HIDE DEF m
  <2>1. W \in Seq(Seq(Int)) /\ s \in Nat /\ m \in Nat /\ s <= m /\ m <= Len(W)
    BY <1>2, <1>3
  <2>2. SliceIs(SubSeq(W, s + 1, m), Seq(Int), W, s, m)
    BY <2>1, SliceOf
  <2>3. m - s = n /\ words = SubSeq(W, s + 1, m)
    BY <1>3
  <2>4. SliceIs(words, Seq(Int), W, s, m)
    BY <2>2, <2>3
  <2> QED
    BY <2>3, <2>4 DEF SliceIs
<1>5. ASSUME NEW k \in 1..n
      PROVE  /\ f[k] \in Seq(Int) /\ Len(f[k]) = b
             /\ \A i \in 1..b : (s + k) * b - (b - i + 1) + 1 <= Len(X)
                                => f[k][i] = X[(s + k) * b - (b - i + 1) + 1]
  <2> DEFINE w == words[k]
  <2>1. s + k \in 1..N0 /\ w = W[s + k]
    BY <1>1, <1>2, <1>3, <1>4
  <2>2. f[k] = Reverse(w)
    BY <1>4
  <2> HIDE DEF f, w
  <2>3. /\ w \in Seq(Int) /\ Len(w) = b
        /\ \A i \in 1..b : w[i] = IF (s + k) * b - i + 1 > Len(X) THEN Junk ELSE X[(s + k) * b - i + 1]
    BY <1>2, <2>1
  <2>9. w \in Seq(Int) /\ Len(w) = b
    BY <2>3
  <2>8. /\ Reverse(w) \in Seq(Int) /\ Len(Reverse(w)) = Len(w)
        /\ \A i \in 1..Len(w) : Reverse(w)[i] = w[Len(w) - i + 1]
    BY <2>9, ReverseFacts
  <2>4. f[k] \in Seq(Int) /\ Len(f[k]) = b /\ \A i \in 1..b : f[k][i] = w[b - i + 1]
    BY <2>2, <2>8, <2>9
  <2>5. ASSUME NEW i \in 1..b, (s + k) * b - (b - i + 1) + 1 <= Len(X)
        PROVE  f[k][i] = X[(s + k) * b - (b - i + 1) + 1]
    <3> DEFINE y == b - i + 1
               z == (s + k) * b
    <3>1. y \in 1..b /\ z \in Int
      BY <1>0
    <3>2. w[y] = IF z - y + 1 > Len(X) THEN Junk ELSE X[z - y + 1]
      BY <2>3, <3>1
    <3>3. z - y + 1 <= Len(X) /\ f[k][i] = w[y]
      BY <2>4, <2>5
    <3> HIDE DEF y, z
    <3>4. f[k][i] = X[z - y + 1]
      BY <3>1, <3>2, <3>3
    <3> QED
      BY <3>4 DEF y, z
  <2> QED
    BY <2>4, <2>5
<1>6. f \in Seq(Seq(Int)) /\ Len(f) = n
  <2>1. f = [k \in 1..n |-> f[k]]
    BY <1>4
  <2> HIDE DEF f
  <2> QED
    BY <1>5, <2>1, Listed
<1>7. BytesOf(words) = FlattenSeq(f)
  BY DEF BytesOf
<1> HIDE DEF f
<1>8. /\ FlattenSeq(f) \in Seq(Int) /\ Len(FlattenSeq(f)) = n * b
      /\ \A k \in 1..n : \A i \in 1..b : FlattenSeq(f)[(k - 1) * b + i] = f[k][i]
  <2>1. \A k \in 1..Len(f) : Len(f[k]) = b
    BY <1>5, <1>6
  <2>2. b \in Nat
    BY <1>0
  <2>3. FlattenSeq(f) \in Seq(Int) /\ Evenly(f, Len(f), b)
    BY <1>6, <2>1, <2>2, FlattenEven
  <2> QED
    BY <1>6, <2>3 DEF Evenly
<1>9. ASSUME NEW p \in 1..n * b, s * b + p <= Len(X) PROVE FlattenSeq(f)[p] = X[s * b + p]
  <2>1. p \in Nat /\ p > 0 /\ p <= n * b
    BY <1>0
  <2>2. PICK k \in Nat, i \in 1..b : k > 0 /\ p = (k - 1) * b + i
    BY <1>0, <2>1, PlaceInWord
  <2>3. k <= n
    <3> SUFFICES ASSUME k - 1 >= n PROVE FALSE
      BY <2>2
    <3>1. (k - 1 - n) * b >= 0
      BY <1>0, <2>2
    <3>2. (k - 1) * b = n * b + (k - 1 - n) * b
      BY <1>0, <2>2
    <3> QED
      BY <1>0, <2>1, <2>2, <3>1, <3>2
  <2>4. FlattenSeq(f)[p] = f[k][i]
    <3>1. k \in 1..n
      BY <2>2, <2>3
    <3> QED
      BY <1>8, <2>2, <3>1
  <2>5. (s + k) * b - (b - i + 1) + 1 = s * b + p
    <3>1. (s + k) * b = s * b + (k - 1) * b + b
      BY <1>0, <2>2
    <3>2. s * b \in Int /\ (k - 1) * b \in Int
      BY <1>0, <2>2
    <3> QED
      BY <1>0, <2>2, <3>1, <3>2
  <2> QED
    BY <1>5, <1>9, <2>2, <2>3, <2>4, <2>5
<1> QED
  BY <1>7, <1>8, <1>9 DEF Spell

(* The bytes of the message that end in block a, and the bit behind them.  *)
LEMMA TailText ==
    ASSUME NEW s \in Seq(Int), NEW t \in Nat, t <= Len(s)
    PROVE  /\ SubSeq(s, 1, t) \o <<128>> \in Seq(Int) /\ Len(SubSeq(s, 1, t) \o <<128>>) = t + 1
           /\ \A i \in 1..t + 1 : (SubSeq(s, 1, t) \o <<128>>)[i] = IF i <= t THEN s[i] ELSE 128
<1> DEFINE h == SubSeq(s, 1, t)
<1>1. 0 \in Nat /\ 0 + 1 = 1 /\ t - 0 = t /\ 0 <= t
  OBVIOUS
<1>2. /\ SubSeq(s, 0 + 1, t) \in Seq(Int) /\ Len(SubSeq(s, 0 + 1, t)) = t - 0
      /\ \A i \in 1..t - 0 : SubSeq(s, 0 + 1, t)[i] = s[0 + i]
  BY <1>1, SliceFacts
<1>3. h \in Seq(Int) /\ Len(h) = t /\ \A i \in 1..t : h[i] = s[i]
  BY <1>1, <1>2
<1>4. <<128>> \in Seq(Int) /\ Len(<<128>>) = 1 /\ <<128>>[1] = 128
  OBVIOUS
<1> HIDE DEF h
<1> QED
  BY <1>3, <1>4 DEF h

Lengthened(r, s, m, len) ==
    /\ r \in Seq(Int) /\ Len(r) = m + 8
    /\ \A i \in 1..m + 8 : r[i] = IF i <= m THEN s[i] ELSE LengthField(len)[i - m]

LEMMA FieldBehind ==
    ASSUME NEW s \in Seq(Int), NEW m \in Nat, Len(s) = m, NEW len \in Nat
    PROVE  Lengthened(s \o LengthField(len), s, m, len)
<1> DEFINE lf == LengthField(len)
           e == 8
<1>1. lf \in Seq(Int) /\ Len(lf) = e
  BY LengthFieldFacts
<1> HIDE DEF lf, e
<1>2. /\ s \o lf \in Seq(Int) /\ Len(s \o lf) = m + e
      /\ \A i \in 1..m + e : (s \o lf)[i] = IF i <= m THEN s[i] ELSE lf[i - m]
  <2> DEFINE k == m
  <2>1. Len(s) = k
    OBVIOUS
  <2> HIDE DEF k
  <2>2. /\ s \o lf \in Seq(Int) /\ Len(s \o lf) = k + e
        /\ \A i \in 1..k + e : (s \o lf)[i] = IF i <= k THEN s[i] ELSE lf[i - k]
    BY <1>1, <2>1, Joined
  <2> QED
    BY <2>2 DEF k
<1> QED
  BY <1>2 DEF lf, e, Lengthened

(* The bytes of a block, by the case that Block distinguishes.             *)
LEMMA PaddedCases ==
    ASSUME NEW X \in Seq(Int), NEW a, NEW t, Split(Len(X), a, t), NEW i \in 1..BlockBytes
    PROVE  /\ \A j \in 0..a - 1 : PaddedByte(X, j * BlockBytes + i) = X[j * BlockBytes + i]
           /\ PaddedByte(X, a * BlockBytes + i) =
                 IF i <= t THEN X[a * BlockBytes + i]
                 ELSE IF i = t + 1 THEN 128
                 ELSE IF t < BlockBytes - 8 /\ i > BlockBytes - 8
                      THEN LengthField(Len(X))[i - (BlockBytes - 8)] ELSE 0
           /\ ~(t < BlockBytes - 8) =>
                 PaddedByte(X, (a + 1) * BlockBytes + i) =
                    IF i <= BlockBytes - 8 THEN 0 ELSE LengthField(Len(X))[i - (BlockBytes - 8)]
<1> DEFINE B == BlockBytes
           len == Len(X)
           n == BlocksSent(len)
           x == a * B
<1>0. B \in Nat /\ B >= 16 /\ len \in Nat
  BY BlockFacts
<1>1. a \in Nat /\ t \in 0..B - 1 /\ len = x + t /\ x \in Nat
  BY <1>0 DEF Split
<1>2. n = IF t < B - 8 THEN a + 1 ELSE a + 2
  BY <1>0, BlockCount
<1>3. n * B = IF t < B - 8 THEN x + B ELSE x + 2 * B
  <2>1. (a + 1) * B = x + B /\ (a + 2) * B = x + 2 * B
    BY <1>0, <1>1
  <2> HIDE DEF x, n
  <2> QED
    BY <1>2, <2>1
<1>4. i \in 1..B
  OBVIOUS
<1>5. \A p : PaddedByte(X, p) = IF p <= len THEN X[p] ELSE IF p = len + 1 THEN 128
                                ELSE IF p <= n * B - 8 THEN 0 ELSE LengthField(len)[p - (n * B - 8)]
  BY DEF PaddedByte, Field
<1> DEFINE N1 == n * B
<1>6. N1 = IF t < B - 8 THEN x + B ELSE x + 2 * B
  BY <1>3
<1>7. \A p : PaddedByte(X, p) = IF p <= len THEN X[p] ELSE IF p = len + 1 THEN 128
                                ELSE IF p <= N1 - 8 THEN 0 ELSE LengthField(len)[p - (N1 - 8)]
  BY <1>5
<1>8. ASSUME NEW j \in 0..a - 1 PROVE j * B + i <= len
  <2> DEFINE h == a - 1 - j
             u == j * B
             v == h * B
  <2>0. h \in Nat /\ j \in Nat /\ a = j + 1 + h
    BY <1>1
  <2> HIDE DEF h
  <2>1. u \in Nat /\ v \in Nat
    BY <1>0, <2>0
  <2>2. (j + 1 + h) * B = u + B + v
    BY <1>0, <2>0
  <2>3. x = u + B + v
    BY <2>0, <2>2
  <2> HIDE DEF x, u, v
  <2>4. u + i <= len
    BY <1>0, <1>1, <1>4, <2>1, <2>3
  <2> QED
    BY <2>4 DEF u
<1>9. (a + 1) * B = x + B
  BY <1>0, <1>1
<1> HIDE DEF N1, B, len, x, n
<1>10. \A j \in 0..a - 1 : PaddedByte(X, j * B + i) = X[j * B + i]
  BY <1>7, <1>8
<1>11. PaddedByte(X, x + i) = IF i <= t THEN X[x + i] ELSE IF i = t + 1 THEN 128
                              ELSE IF t < B - 8 /\ i > B - 8 THEN LengthField(len)[i - (B - 8)] ELSE 0
  <2> DEFINE p == x + i
  <2>1. /\ p <= len <=> i <= t
        /\ p = len + 1 <=> i = t + 1
        /\ p <= N1 - 8 <=> ~(t < B - 8 /\ i > B - 8)
        /\ t < B - 8 => p - (N1 - 8) = i - (B - 8)
    BY <1>0, <1>1, <1>4, <1>6
  <2> HIDE DEF p
  <2>2. PaddedByte(X, p) = IF p <= len THEN X[p] ELSE IF p = len + 1 THEN 128
                           ELSE IF p <= N1 - 8 THEN 0 ELSE LengthField(len)[p - (N1 - 8)]
    BY <1>7
  <2>3. PaddedByte(X, p) = IF i <= t THEN X[p] ELSE IF i = t + 1 THEN 128
                           ELSE IF t < B - 8 /\ i > B - 8 THEN LengthField(len)[i - (B - 8)] ELSE 0
    BY <2>1, <2>2
  <2> QED
    BY <2>3 DEF p
<1>12. ASSUME ~(t < B - 8)
       PROVE  PaddedByte(X, (x + B) + i) = IF i <= B - 8 THEN 0 ELSE LengthField(len)[i - (B - 8)]
  <2> DEFINE p == (x + B) + i
  <2>1. /\ ~(p <= len) /\ p # len + 1
        /\ p <= N1 - 8 <=> i <= B - 8
        /\ p - (N1 - 8) = i - (B - 8)
    BY <1>0, <1>1, <1>4, <1>6, <1>12
  <2> HIDE DEF p
  <2>2. PaddedByte(X, p) = IF p <= len THEN X[p] ELSE IF p = len + 1 THEN 128
                           ELSE IF p <= N1 - 8 THEN 0 ELSE LengthField(len)[p - (N1 - 8)]
    BY <1>7
  <2>3. PaddedByte(X, p) = IF i <= B - 8 THEN 0 ELSE LengthField(len)[i - (B - 8)]
    BY <2>1, <2>2
  <2> QED
    BY <2>3 DEF p
<1> QED
  BY <1>9, <1>10, <1>11, <1>12 DEF B, len, x

(* Block j that preProcessing makes of the words of a message, in either   *)
(* word width, is block j of the message padded as the standard says, for  *)
(* every length: whether the bit and the length field get into the last    *)
(* block of text or need one more, and with junk behind the last byte.     *)
THEOREM BlockRight ==
    ASSUME NEW X \in Seq(Int), NEW b \in {4, 8}, NEW j \in 0..BlocksSent(Len(X)) - 1,
           NEW words, words = SubSeq(Wire(X, b), Start(Len(X), b, j) + 1,
                                     Start(Len(X), b, j) + WordsOf(Len(X), b, j))
    PROVE  Block(Len(X), j, words) = Padded(X)[j + 1]
<1> DEFINE B == BlockBytes
           len == Len(X)
           c == BlockBytes \div b
           s == Start(len, b, j)
           n == WordsOf(len, b, j)
           bytes == BytesOf(words)
           P == Padded(X)[j + 1]
<1>0. B \in Nat /\ B >= 16 /\ B - 8 \in Nat /\ len \in Nat /\ LenBytes = 8
  BY BlockFacts
<1>1. b \in Nat /\ b > 0 /\ c \in Nat /\ c > 0 /\ c * b = B
  BY BlockWords
<1>2. PICK a, t : Split(len, a, t)
  BY <1>0, SplitLen
<1>3. a \in Nat /\ t \in 0..B - 1 /\ len = a * B + t /\ len \div B = a /\ len % B = t
  BY <1>2 DEF Split
<1>4. /\ LengthFits(len) <=> t < B - 8
      /\ BlocksSent(len) = IF t < B - 8 THEN a + 1 ELSE a + 2
  BY <1>0, <1>2, BlockCount
<1>5. s \in Nat /\ n \in Nat /\ s + n <= Words(len, b)
  <2>1. /\ Start(len, b, j) \in Nat /\ WordsOf(len, b, j) \in Nat
        /\ Start(len, b, j) + WordsOf(len, b, j) = Start(len, b, j + 1)
        /\ Start(len, b, j + 1) <= Words(len, b)
    BY <1>0, StartFacts
  <2> QED
    BY <2>1
<1>6. /\ bytes \in Seq(Int) /\ Len(bytes) = n * b
      /\ \A p \in 1..n * b : s * b + p <= len => bytes[p] = X[s * b + p]
  <2> HIDE DEF s, n
  <2>1. words = SubSeq(Wire(X, b), s + 1, s + n)
    BY DEF s, n
  <2>2. Spell(words, X, s * b, n * b)
    BY <1>5, <2>1, BytesOfWords
  <2> QED
    BY <2>2 DEF Spell
<1>7. /\ P \in Seq(Int) /\ Len(P) = B
      /\ \A i \in 1..B : P[i] = PaddedByte(X, j * B + i)
  <2>1. j + 1 \in 1..BlocksSent(len) /\ (j + 1) - 1 = j
    BY <1>3, <1>4
  <2> HIDE DEF P, len
  <2> QED
    BY <2>1, PaddedFacts DEF P, len
<1>8. j \in Nat /\ j <= a + 1
  BY <1>3, <1>4
<1> DEFINE text == SubSeq(bytes, 1, t) \o <<128>>
<1>9. Block(len, j, words) =
         CASE j < a -> bytes
           [] j = a /\ t < B - 8 -> UpTo(text, B - 8) \o LengthField(len)
           [] j = a /\ ~(t < B - 8) -> UpTo(text, B)
           [] OTHER -> Zeros(B - 8) \o LengthField(len)
  BY <1>0, <1>3, <1>4 DEF Block, WithOne, BytesOf
<1>10. s = (IF j <= a THEN j * c ELSE Words(len, b)) /\ n = IF j < a THEN c ELSE IF j = a THEN Words(t, b) ELSE 0
  BY <1>3 DEF Start, WordsOf
<1> HIDE DEF s, n, bytes, P, len, c, B, text
<1>11. CASE j < a
  <2>1. n * b = B /\ s * b = j * B
    <3>1. n = c /\ s = j * c
      BY <1>3, <1>8, <1>10, <1>11
    <3> QED
      BY <1>1, <1>8, <3>1
  <2>2. ASSUME NEW i \in 1..B PROVE bytes[i] = P[i]
    <3>1. j \in 0..a - 1
      BY <1>3, <1>8, <1>11
    <3>2. P[i] = X[j * B + i]
      <4>1. PaddedByte(X, j * B + i) = X[j * B + i]
        BY <1>2, <3>1, PaddedCases DEF B, len
      <4> QED
        BY <1>7, <4>1
    <3>3. j * B + i <= len
      <4>1. (a - 1 - j) * B >= 0 /\ (a - 1 - j) * B \in Int /\ j * B \in Nat
            /\ a * B = j * B + B + (a - 1 - j) * B
        BY <1>0, <1>3, <3>1
      <4> QED
        BY <1>0, <1>3, <4>1
    <3> QED
      BY <1>6, <2>1, <3>2, <3>3
  <2>3. Block(len, j, words) = bytes
    BY <1>9, <1>11
  <2>4. bytes = P
    BY <1>6, <1>7, <2>1, <2>2, SliceSame
  <2> QED
    BY <2>3, <2>4 DEF len, P
<1>12. ASSUME j = a
       PROVE  /\ text \in Seq(Int) /\ Len(text) = t + 1
              /\ \A i \in 1..t + 1 : text[i] = IF i <= t THEN X[a * B + i] ELSE 128
  <2>1. s * b = a * B /\ n = Words(t, b)
    <3>1. s = a * c /\ n = Words(t, b)
      BY <1>3, <1>10, <1>12
    <3> QED
      BY <1>1, <1>3, <3>1
  <2>2. n * b >= t /\ n * b \in Nat
    <3>1. t \in Nat
      BY <1>0, <1>3
    <3>2. Words(t, b) \in Nat /\ Words(t, b) * b >= t
      BY <3>1, WordsFacts
    <3> QED
      BY <1>1, <2>1, <3>2
  <2>3. /\ text \in Seq(Int) /\ Len(text) = t + 1
        /\ \A i \in 1..t + 1 : text[i] = IF i <= t THEN bytes[i] ELSE 128
    BY <1>3, <1>6, <2>2, TailText DEF text
  <2>4. ASSUME NEW i \in 1..t + 1, i <= t PROVE bytes[i] = X[a * B + i]
    <3>1. i \in 1..n * b /\ a * B + i <= len
      BY <1>0, <1>3, <2>2, <2>4
    <3> QED
      BY <1>6, <2>1, <3>1
  <2>5. ASSUME NEW i \in 1..t + 1 PROVE text[i] = IF i <= t THEN X[a * B + i] ELSE 128
    <3>1. text[i] = IF i <= t THEN bytes[i] ELSE 128
      BY <2>3
    <3> QED
      BY <2>4, <3>1
  <2> QED
    BY <2>3, <2>5
<1>13. CASE j = a /\ t < B - 8
  <2> DEFINE u == UpTo(text, B - 8)
             m == B - 8
  <2>0. m \in Nat /\ t + 1 <= m
    BY <1>0, <1>3, <1>13
  <2> HIDE DEF m
  <2>1. /\ u \in Seq(Int) /\ Len(u) = m
        /\ \A i \in 1..m : u[i] = IF i <= t + 1 THEN text[i] ELSE 0
    <3>1. UpTo(text, m) \in Seq(Int) /\ Len(UpTo(text, m)) = m
          /\ \A i \in 1..m : UpTo(text, m)[i] = IF i <= Len(text) THEN text[i] ELSE 0
      BY <1>12, <1>13, <2>0, UpToFacts
    <3> QED
      BY <1>12, <1>13, <3>1 DEF m
  <2> HIDE DEF u
  <2> DEFINE v == u \o LengthField(len)
  <2>2. Lengthened(v, u, m, len)
    BY <1>0, <2>0, <2>1, FieldBehind
  <2> HIDE DEF v
  <2>3. m + 8 = B
    BY <1>0 DEF m
  <2>4. ASSUME NEW i \in 1..B PROVE v[i] = P[i]
    <3>0. i \in Nat /\ i > 0 /\ t \in Nat /\ v[i] = IF i <= m THEN u[i] ELSE LengthField(len)[i - m]
      BY <1>0, <1>3, <2>2, <2>3 DEF Lengthened
    <3>1. PaddedByte(X, a * B + i) =
                 IF i <= t THEN X[a * B + i]
                 ELSE IF i = t + 1 THEN 128
                 ELSE IF i > m THEN LengthField(len)[i - m] ELSE 0
      BY <1>2, <1>13, PaddedCases DEF B, len, m
    <3>2. P[i] = PaddedByte(X, a * B + i)
      BY <1>7, <1>13
    <3>3. CASE i <= t + 1
      <4>1. i \in 1..m /\ i \in 1..t + 1
        BY <2>0, <3>0, <3>3
      <4>2. u[i] = text[i]
        BY <2>1, <3>3, <4>1
      <4>3. v[i] = text[i]
        BY <3>0, <4>1, <4>2
      <4>4. text[i] = IF i <= t THEN X[a * B + i] ELSE 128
        BY <1>12, <1>13, <4>1
      <4>5. ~(i <= t) => i = t + 1
        BY <3>0, <3>3
      <4> QED
        BY <3>1, <3>2, <4>3, <4>4, <4>5
    <3>4. CASE ~(i <= t + 1)
      <4>1. v[i] = IF i <= m THEN 0 ELSE LengthField(len)[i - m]
        <5>1. i <= m => u[i] = 0
          BY <2>0, <2>1, <3>0, <3>4
        <5> QED
          BY <3>0, <5>1
      <4>2. ~(i <= t) /\ i # t + 1 /\ (i > m <=> ~(i <= m))
        BY <2>0, <3>0, <3>4
      <4> QED
        BY <3>1, <3>2, <4>1, <4>2
    <3> QED
      BY <3>3, <3>4
  <2>5. Block(len, j, words) = v
    BY <1>3, <1>9, <1>13 DEF u, m, v
  <2>6. v = P
    BY <1>7, <2>2, <2>3, <2>4, SliceSame DEF Lengthened
  <2> QED
    BY <2>5, <2>6 DEF len, P
<1>14. CASE j = a /\ ~(t < B - 8)
  <2> DEFINE u == UpTo(text, B)
  <2>1. /\ u \in Seq(Int) /\ Len(u) = B
        /\ \A i \in 1..B : u[i] = IF i <= t + 1 THEN text[i] ELSE 0
    <3>0. t + 1 <= B
      BY <1>0, <1>3
    <3>1. UpTo(text, B) \in Seq(Int) /\ Len(UpTo(text, B)) = B
          /\ \A i \in 1..B : UpTo(text, B)[i] = IF i <= Len(text) THEN text[i] ELSE 0
      BY <1>0, <1>12, <1>14, <3>0, UpToFacts
    <3> QED
      BY <1>12, <1>14, <3>1
  <2> HIDE DEF u
  <2>2. ASSUME NEW i \in 1..B PROVE u[i] = P[i]
    <3>1. PaddedByte(X, a * B + i) =
                 IF i <= t THEN X[a * B + i] ELSE IF i = t + 1 THEN 128 ELSE 0
      BY <1>2, <1>14, PaddedCases DEF B, len
    <3>2. P[i] = PaddedByte(X, a * B + i)
      BY <1>7, <1>14
    <3>3. i <= t + 1 => text[i] = IF i <= t THEN X[a * B + i] ELSE 128
      BY <1>0, <1>3, <1>12, <1>14
    <3> QED
      BY <1>0, <1>3, <2>1, <3>1, <3>2, <3>3
  <2>3. Block(len, j, words) = u
    BY <1>9, <1>14 DEF u
  <2>4. u = P
    BY <1>7, <2>1, <2>2, SliceSame
  <2> QED
    BY <2>3, <2>4 DEF len, P
<1>15. CASE j = a + 1
  <2> DEFINE m == B - 8
             u == Zeros(m)
  <2>0. m \in Nat /\ m + 8 = B /\ ~(t < B - 8)
    <3>1. j < BlocksSent(len)
      <4> DEFINE k == BlocksSent(len)
      <4>1. k \in Nat /\ j \in 0..k - 1
        BY <1>3, <1>4 DEF len
      <4> HIDE DEF k
      <4> QED
        BY <4>1 DEF k
    <3> QED
      BY <1>0, <1>3, <1>4, <1>15, <3>1
  <2> HIDE DEF m
  <2>1. u \in Seq(Int) /\ Len(u) = m /\ \A i \in 1..m : u[i] = 0
    BY <2>0, ZerosFacts
  <2>6. ~(j < a) /\ j # a
    BY <1>3, <1>15
  <2> DEFINE v == u \o LengthField(len)
  <2>2. Block(len, j, words) = v
    BY <1>9, <2>6 DEF m
  <2> HIDE DEF u
  <2>3. Lengthened(v, u, m, len)
    BY <1>0, <2>0, <2>1, FieldBehind
  <2> HIDE DEF v
  <2>4. ASSUME NEW i \in 1..B PROVE v[i] = P[i]
    <3>9. i \in Nat /\ i > 0 /\ i \in 1..m + 8
      BY <1>0, <2>0
    <3>0. i \in Nat /\ i > 0 /\ v[i] = IF i <= m THEN u[i] ELSE LengthField(len)[i - m]
      BY <2>3, <3>9 DEF Lengthened
    <3>1. PaddedByte(X, (a + 1) * B + i) = IF i <= m THEN 0 ELSE LengthField(len)[i - m]
      BY <1>2, <2>0, PaddedCases DEF B, len, m
    <3>2. P[i] = PaddedByte(X, (a + 1) * B + i)
      BY <1>7, <1>15
    <3> QED
      BY <2>0, <2>1, <3>0, <3>1, <3>2
  <2>5. v = P
    BY <1>7, <2>0, <2>3, <2>4, SliceSame DEF Lengthened
  <2> QED
    BY <2>2, <2>5 DEF len, P
<1> QED
  BY <1>3, <1>8, <1>11, <1>13, <1>14, <1>15

-----------------------------------------------------------------------------
(***************************************************************************)
(* Words: a key of whole words from the wire, filled up with zeros, and    *)
(* the pad in front of a message.                                          *)
(***************************************************************************)
LEMMA WholeWords ==
    ASSUME NEW b \in {4, 8}, NEW n \in Nat, NEW len, len = n * b
    PROVE  Words(len, b) = n
<1> DEFINE one == 1
           none == 0
<1>1. len = n * (one * b) + none /\ n * one = n
  OBVIOUS
<1>2. Words(none, b) = 0
  BY DEF Words
<1>3. one \in Nat /\ none \in Nat
  OBVIOUS
<1> HIDE DEF one, none
<1>4. Words(len, b) = n * one + Words(none, b)
  BY <1>1, <1>3, WordsSplit
<1> QED
  BY <1>1, <1>2, <1>4

(* The bytes of whole words, each word from its high end.                  *)
Flipped(f, X, n, b) ==
    /\ f \in Seq(Int) /\ Len(f) = n * b
    /\ \A k \in 1..n : \A i \in 1..b : f[(k - 1) * b + i] = X[k * b - i + 1]

LEMMA InWord ==
    ASSUME NEW b \in Nat, b > 0, NEW n \in Nat, NEW k \in 1..n, NEW i \in 1..b
    PROVE  k * b - i + 1 \in 1..n * b /\ (k - 1) * b + i \in 1..n * b
<1>1. (k - 1) * b \in Nat /\ (n - k) * b \in Nat
  OBVIOUS
<1>2. k * b = (k - 1) * b + b /\ n * b = k * b + (n - k) * b
  OBVIOUS
<1> QED
  BY <1>1, <1>2

LEMMA WireFlipped ==
    ASSUME NEW X \in Seq(Int), NEW b \in {4, 8}, NEW n \in Nat, Len(X) = n * b
    PROVE  Flipped(FlattenSeq(Wire(X, b)), X, n, b)
<1> DEFINE W == Wire(X, b)
<1>0. b \in Nat /\ b > 0
  OBVIOUS
<1>1. Words(Len(X), b) = n
  BY WholeWords
<1>2. /\ W \in Seq(Seq(Int)) /\ Len(W) = n
      /\ \A k \in 1..n : /\ W[k] \in Seq(Int) /\ Len(W[k]) = b
                         /\ \A i \in 1..b : W[k][i] = IF k * b - i + 1 > Len(X) THEN Junk ELSE X[k * b - i + 1]
  <2>1. /\ Wire(X, b) \in Seq(Seq(Int)) /\ Len(Wire(X, b)) = Words(Len(X), b)
        /\ \A k \in 1..Words(Len(X), b) :
              /\ Wire(X, b)[k] \in Seq(Int) /\ Len(Wire(X, b)[k]) = b
              /\ \A i \in 1..b : Wire(X, b)[k][i] =
                    IF k * b - i + 1 > Len(X) THEN Junk ELSE X[k * b - i + 1]
    BY WireFacts
  <2> QED
    BY <1>1, <2>1
<1> HIDE DEF W
<1>3. FlattenSeq(W) \in Seq(Int) /\ Evenly(W, n, b)
  <2>1. \A m \in 1..Len(W) : Len(W[m]) = b
    BY <1>2
  <2> QED
    BY <1>0, <1>2, <2>1, FlattenEven
<1>4. ASSUME NEW k \in 1..n, NEW i \in 1..b
      PROVE  FlattenSeq(W)[(k - 1) * b + i] = X[k * b - i + 1]
  <2>1. FlattenSeq(W)[(k - 1) * b + i] = W[k][i]
    BY <1>3 DEF Evenly
  <2>2. k * b - i + 1 \in 1..n * b
    BY <1>0, InWord
  <2>3. ~(k * b - i + 1 > Len(X))
    <3> DEFINE x == k * b - i + 1
               y == n * b
    <3>1. x \in 1..y /\ y \in Nat /\ Len(X) = y
      BY <1>0, <2>2
    <3> HIDE DEF x, y
    <3>2. ~(x > Len(X))
      BY <3>1
    <3> QED
      BY <3>2 DEF x
  <2> QED
    BY <1>2, <2>1, <2>3
<1> QED
  BY <1>3, <1>4 DEF Flipped, Evenly, W

LEMMA FlippedSame ==
    ASSUME NEW X, NEW n \in Nat, NEW b \in Nat, b > 0, NEW f, NEW g,
           Flipped(f, X, n, b), Flipped(g, X, n, b)
    PROVE  g = f
<1>1. f \in Seq(Int) /\ Len(f) = n * b /\ g \in Seq(Int) /\ Len(g) = n * b
  BY DEF Flipped
<1>2. ASSUME NEW p \in 1..n * b PROVE g[p] = f[p]
  <2>1. p \in Nat /\ p > 0 /\ p <= n * b
    OBVIOUS
  <2>2. PICK k \in Nat, i \in 1..b : k > 0 /\ p = (k - 1) * b + i
    BY <2>1, PlaceInWord
  <2>3. k \in 1..n
    <3> SUFFICES ASSUME k - 1 >= n PROVE FALSE
      BY <2>2
    <3>1. (k - 1 - n) * b >= 0
      BY <2>2
    <3>2. (k - 1) * b = n * b + (k - 1 - n) * b /\ n * b \in Nat /\ (k - 1 - n) * b \in Int
      BY <2>2
    <3> QED
      BY <2>1, <2>2, <3>1, <3>2
  <2>4. f[(k - 1) * b + i] = X[k * b - i + 1] /\ g[(k - 1) * b + i] = X[k * b - i + 1]
    BY <2>3 DEF Flipped
  <2> QED
    BY <2>2, <2>4
<1> QED
  BY <1>1, <1>2, SliceSame

WholeWord(l, n, b) == l = n * b
InFront(k1, f, l) ==
    /\ k1 \in Seq(Int) /\ Len(k1) = BlockBytes
    /\ \A p \in 1..BlockBytes : k1[p] = IF p <= l THEN f[p] ELSE 0

(* k1 holds the key of m words in front, from the wire, and zeros behind.  *)
LEMMA FilledKey ==
    ASSUME NEW b \in {4, 8}, NEW X \in Seq(Int), NEW m \in Nat, WholeWord(Len(X), m, b),
           Len(X) <= BlockBytes, NEW k1, InFront(k1, FlattenSeq(Wire(X, b)), Len(X))
    PROVE  k1 = FlattenSeq(Wire(UpTo(X, BlockBytes), b))
<1> DEFINE c == BlockBytes \div b
           Z == UpTo(X, BlockBytes)
           B == c * b
           mb == m * b
<1> HIDE DEF mb
<1>9. /\ mb = m * b /\ Len(X) = mb /\ k1 \in Seq(Int) /\ Len(k1) = BlockBytes
      /\ \A p \in 1..BlockBytes : k1[p] = IF p <= mb THEN FlattenSeq(Wire(X, b))[p] ELSE 0
  BY DEF mb, WholeWord, InFront
<1> USE DEF mb
<1>0. b \in Nat /\ b > 0 /\ c \in Nat /\ c > 0 /\ B = BlockBytes
  BY BlockWords
<1>1. BlockBytes \in Nat /\ Len(X) <= BlockBytes
  BY BlockFacts
<1>2. Z \in Seq(Int) /\ Len(Z) = B /\ \A i \in 1..B : Z[i] = IF i <= Len(X) THEN X[i] ELSE 0
  <2>1. /\ Z \in Seq(Int) /\ Len(Z) = BlockBytes
        /\ \A i \in 1..BlockBytes : Z[i] = IF i <= Len(X) THEN X[i] ELSE 0
    BY <1>1, UpToFacts
  <2> HIDE DEF Z, B
  <2> QED
    BY <1>0, <2>1
<1> HIDE DEF Z, c
<1>3. Flipped(FlattenSeq(Wire(Z, b)), Z, c, b)
  BY <1>0, <1>2, WireFlipped
<1>4. Flipped(FlattenSeq(Wire(X, b)), X, m, b)
  <2>1. Len(X) = m * b
    BY <1>9
  <2> QED
    BY <2>1, WireFlipped
<1>5. mb \in Nat /\ Len(X) = mb
  BY <1>0, <1>9
<1>6. ASSUME NEW k \in 1..c, NEW i \in 1..b PROVE k1[(k - 1) * b + i] = Z[k * b - i + 1]
  <2> DEFINE p == (k - 1) * b + i
             r == k * b - i + 1
  <2>1. p \in 1..B /\ r \in 1..B
    BY <1>0, InWord
  <2>2. CASE k <= m
    <3>1. k \in 1..m
      BY <2>2
    <3>2. p \in 1..mb /\ r \in 1..mb
      BY <1>0, <3>1, InWord
    <3>3. FlattenSeq(Wire(X, b))[p] = X[r]
      BY <1>4, <3>1 DEF Flipped
    <3> HIDE DEF p, r, B
    <3>4. p <= mb /\ r <= mb
      BY <1>5, <3>2
    <3>5. k1[p] = X[r]
      BY <1>0, <1>9, <2>1, <3>3, <3>4
    <3>6. Z[r] = X[r]
      BY <1>2, <1>5, <2>1, <3>4
    <3> QED
      BY <3>5, <3>6 DEF p, r
  <2>3. CASE ~(k <= m)
    <3>1. p > mb /\ r > mb
      <4>1. (k - 1 - m) * b \in Nat
        BY <1>0, <2>3
      <4>2. (k - 1) * b = mb + (k - 1 - m) * b /\ k * b = (k - 1) * b + b
        BY <1>0
      <4> HIDE DEF mb
      <4> QED
        BY <1>0, <1>5, <4>1, <4>2
    <3> HIDE DEF p, r, B, mb
    <3>2. ~(p <= mb) /\ ~(r <= mb)
      BY <1>0, <1>5, <2>1, <3>1
    <3>3. k1[p] = 0
      BY <1>0, <1>9, <2>1, <3>2
    <3>4. Z[r] = 0
      BY <1>2, <1>5, <2>1, <3>2
    <3> QED
      BY <3>3, <3>4 DEF p, r
  <2> QED
    BY <2>2, <2>3
<1>7. k1 = FlattenSeq(Wire(Z, b))
  <2>1. Flipped(k1, Z, c, b)
    BY <1>0, <1>6, <1>9 DEF Flipped
  <2> QED
    BY <1>0, <1>3, <2>1, FlippedSame
<1> QED
  BY <1>7 DEF Z

LEMMA PadBytes ==
    ASSUME NEW s \in Seq(Int)
    PROVE  /\ Ipad(s) \in Seq(Int) /\ Len(Ipad(s)) = Len(s)
           /\ \A i \in 1..Len(s) : Ipad(s)[i] = 10000 + s[i]
           /\ Opad(s) \in Seq(Int) /\ Len(Opad(s)) = Len(s)
           /\ \A i \in 1..Len(s) : Opad(s)[i] = 20000 + s[i]
<1>1. Len(s) \in Nat /\ \A i \in 1..Len(s) : 10000 + s[i] \in Int /\ 20000 + s[i] \in Int
  OBVIOUS
<1>2. Ipad(s) = [i \in 1..Len(s) |-> Ipad(s)[i]] /\ \A i \in 1..Len(s) : Ipad(s)[i] = 10000 + s[i]
  BY DEF Ipad
<1>3. Opad(s) = [i \in 1..Len(s) |-> Opad(s)[i]] /\ \A i \in 1..Len(s) : Opad(s)[i] = 20000 + s[i]
  BY DEF Opad
<1>4. Ipad(s) \in Seq(Int) /\ Len(Ipad(s)) = Len(s)
  BY <1>1, <1>2, Listed
<1>5. Opad(s) \in Seq(Int) /\ Len(Opad(s)) = Len(s)
  BY <1>1, <1>3, Listed
<1> QED
  BY <1>2, <1>3, <1>4, <1>5

LEMMA PadFlipped ==
    ASSUME NEW K \in Seq(Int), NEW n \in Nat, NEW b \in Nat, b > 0, Len(K) = n * b,
           NEW f, Flipped(f, K, n, b)
    PROVE  Flipped(Ipad(f), Ipad(K), n, b) /\ Flipped(Opad(f), Opad(K), n, b)
<1> DEFINE B == n * b
<1>1. f \in Seq(Int) /\ Len(f) = B /\ Len(K) = B
  BY DEF Flipped
<1>2. ASSUME NEW k \in 1..n, NEW i \in 1..b
      PROVE  /\ Ipad(f)[(k - 1) * b + i] = Ipad(K)[k * b - i + 1]
             /\ Opad(f)[(k - 1) * b + i] = Opad(K)[k * b - i + 1]
  <2> DEFINE p == (k - 1) * b + i
             r == k * b - i + 1
  <2>1. p \in 1..B /\ r \in 1..B
    BY InWord
  <2>2. f[p] = K[r]
    BY DEF Flipped
  <2>3. p \in 1..Len(f) /\ r \in 1..Len(K)
    BY <1>1, <2>1
  <2> HIDE DEF p, r, B
  <2>4. Ipad(f)[p] = 10000 + f[p] /\ Opad(f)[p] = 20000 + f[p]
    BY <2>3 DEF Ipad, Opad
  <2>5. Ipad(K)[r] = 10000 + K[r] /\ Opad(K)[r] = 20000 + K[r]
    BY <2>3 DEF Ipad, Opad
  <2> QED
    BY <2>2, <2>4, <2>5 DEF p, r
<1>3. Ipad(f) \in Seq(Int) /\ Len(Ipad(f)) = B /\ Opad(f) \in Seq(Int) /\ Len(Opad(f)) = B
  BY <1>1, PadBytes
<1> QED
  BY <1>2, <1>3 DEF Flipped

(* A wide integer cut into words, and the message behind it, are the words *)
(* of the two together.                                                    *)
CutInto(w, g, c, b) ==
    /\ w \in Seq(Seq(Int)) /\ Len(w) = c
    /\ \A k \in 1..c : /\ w[k] \in Seq(Int) /\ Len(w[k]) = b
                       /\ \A i \in 1..b : w[k][i] = g[(k - 1) * b + i]

LEMMA CutWords ==
    ASSUME NEW b \in Nat, b > 0, NEW c \in Nat, NEW g \in Seq(Int), Len(g) = c * b
    PROVE  CutInto(Cut(g, b), g, c, b)
<1> DEFINE w == Cut(g, b)
           B == c * b
<1>1. B \in Nat /\ Len(g) = B
  OBVIOUS
<1>2. Len(g) \div b = c
  <2>1. B = c * b
    OBVIOUS
  <2> HIDE DEF B
  <2> QED
    BY <1>1, <2>1, WholeQuotient
<1>3. w = [k \in 1..c |-> SubSeq(g, (k - 1) * b + 1, k * b)]
  BY <1>2 DEF Cut
<1>4. ASSUME NEW k \in 1..c
      PROVE  w[k] \in Seq(Int) /\ Len(w[k]) = b /\ \A i \in 1..b : w[k][i] = g[(k - 1) * b + i]
  <2> DEFINE lo == (k - 1) * b
             hi == k * b
  <2>1. lo \in Nat /\ hi \in Nat /\ lo <= hi /\ hi <= B /\ hi - lo = b
    <3>1. (k - 1) * b \in Nat /\ (c - k) * b \in Nat
      OBVIOUS
    <3>2. k * b = (k - 1) * b + b /\ c * b = k * b + (c - k) * b
      OBVIOUS
    <3> QED
      BY <3>1, <3>2
  <2>2. w[k] = SubSeq(g, lo + 1, hi)
    BY <1>3
  <2> HIDE DEF lo, hi, B, w
  <2>3. /\ SubSeq(g, lo + 1, hi) \in Seq(Int) /\ Len(SubSeq(g, lo + 1, hi)) = hi - lo
        /\ \A i \in 1..hi - lo : SubSeq(g, lo + 1, hi)[i] = g[lo + i]
    BY <1>1, <2>1, SliceFacts
  <2> QED
    BY <2>1, <2>2, <2>3 DEF lo
<1>5. w \in Seq(Seq(Int)) /\ Len(w) = c
  <2>1. w = [k \in 1..c |-> w[k]]
    BY <1>3
  <2> HIDE DEF w
  <2> QED
    BY <1>4, <2>1, Listed
<1> QED
  BY <1>4, <1>5 DEF CutInto

MoreWords(len, c, y, b) == Words(len, b) = c + Words(y, b)

LEMMA WordsBehind ==
    ASSUME NEW b \in {4, 8}, NEW c \in Nat, NEW y \in Nat, NEW len, len = c * b + y
    PROVE  MoreWords(len, c, y, b)
<1> DEFINE one == 1
<1>1. one \in Nat /\ len = c * (one * b) + y /\ c * one = c
  OBVIOUS
<1> HIDE DEF one
<1>2. Words(len, b) = c * one + Words(y, b)
  BY <1>1, WordsSplit
<1> QED
  BY <1>1, <1>2 DEF MoreWords

LEMMA PadThenText ==
    ASSUME NEW b \in {4, 8}, NEW c \in Nat, NEW P \in Seq(Int), Len(P) = c * b,
           NEW g, Flipped(g, P, c, b), NEW Y \in Seq(Int)
    PROVE  /\ Wire(P \o Y, b) = Cut(g, b) \o Wire(Y, b)
           /\ Cut(g, b) \in Seq(Seq(Int)) /\ Len(Cut(g, b)) = c
           /\ P \o Y \in Seq(Int) /\ Len(P \o Y) = Len(P) + Len(Y)
           /\ Wire(Y, b) \in Seq(Seq(Int)) /\ Len(Wire(Y, b)) = Words(Len(Y), b)
<1> DEFINE X == P \o Y
           B == c * b
           w == Cut(g, b)
           W == Wire(X, b)
           V == Wire(Y, b)
           m == Words(Len(Y), b)
           y == Len(Y)
<1>0. b \in Nat /\ b > 0 /\ B \in Nat /\ Len(P) = B /\ y \in Nat
  OBVIOUS
<1>1. /\ X \in Seq(Int) /\ Len(X) = B + y
      /\ \A i \in 1..B + y : X[i] = IF i <= B THEN P[i] ELSE Y[i - B]
  <2>1. Len(P) = B /\ Len(Y) = y
    BY <1>0
  <2> HIDE DEF B, y
  <2>2. Behind(Int, P \o Y, P, Y)
    BY JoinedBehind
  <2> QED
    BY <2>1, <2>2 DEF Behind
<1>2. m \in Nat
  BY <1>0, WordsFacts
<1>3. Words(Len(X), b) = c + m
  <2> DEFINE len == Len(X)
  <2>1. len = B + y
    BY <1>1
  <2> HIDE DEF len, X, y, m
  <2>2. MoreWords(len, c, y, b)
    BY <1>0, <2>1, WordsBehind
  <2> QED
    BY <2>2 DEF MoreWords, len, y, m
<1> HIDE DEF X, w, W, V, m, y
<1>4. CutInto(w, g, c, b)
  <2>1. g \in Seq(Int) /\ Len(g) = c * b
    BY DEF Flipped
  <2> QED
    BY <1>0, <2>1, CutWords DEF w
<1>5. /\ V \in Seq(Seq(Int)) /\ Len(V) = m
      /\ \A k \in 1..m : /\ V[k] \in Seq(Int) /\ Len(V[k]) = b
                         /\ \A i \in 1..b : V[k][i] = IF k * b - i + 1 > y THEN Junk ELSE Y[k * b - i + 1]
  BY WireFacts DEF V, m, y
<1>6. /\ W \in Seq(Seq(Int)) /\ Len(W) = c + m
      /\ \A k \in 1..c + m : /\ W[k] \in Seq(Int) /\ Len(W[k]) = b
                             /\ \A i \in 1..b : W[k][i] = IF k * b - i + 1 > Len(X) THEN Junk ELSE X[k * b - i + 1]
  <2>1. /\ W \in Seq(Seq(Int)) /\ Len(W) = Words(Len(X), b)
        /\ \A k \in 1..Words(Len(X), b) :
              /\ W[k] \in Seq(Int) /\ Len(W[k]) = b
              /\ \A i \in 1..b : W[k][i] = IF k * b - i + 1 > Len(X) THEN Junk ELSE X[k * b - i + 1]
    BY <1>1, WireFacts DEF W
  <2> QED
    BY <1>3, <2>1
<1>7. w \in Seq(Seq(Int)) /\ Len(w) = c
  BY <1>4 DEF CutInto
<1>8. /\ w \o V \in Seq(Seq(Int)) /\ Len(w \o V) = c + m
      /\ \A k \in 1..c + m : (w \o V)[k] = IF k <= c THEN w[k] ELSE V[k - c]
  <2>1. Behind(Seq(Int), w \o V, w, V)
    BY <1>5, <1>7, JoinedBehind
  <2> QED
    BY <1>2, <1>5, <1>7, <2>1 DEF Behind
<1>9. ASSUME NEW k \in 1..c PROVE W[k] = w[k]
  <2>1. w[k] \in Seq(Int) /\ Len(w[k]) = b /\ \A i \in 1..b : w[k][i] = g[(k - 1) * b + i]
    BY <1>4 DEF CutInto
  <2>2. k \in 1..c + m
    BY <1>2
  <2>3. ASSUME NEW i \in 1..b PROVE W[k][i] = w[k][i]
    <3> DEFINE r == k * b - i + 1
    <3>1. r \in 1..B
      BY <1>0, InWord
    <3>2. g[(k - 1) * b + i] = P[r]
      BY DEF Flipped
    <3>3. W[k][i] = IF r > Len(X) THEN Junk ELSE X[r]
      BY <1>6, <2>2
    <3> HIDE DEF r, B
    <3>4. X[r] = P[r] /\ ~(r > Len(X))
      BY <1>0, <1>1, <3>1
    <3> QED
      BY <2>1, <3>2, <3>3, <3>4
  <2>4. W[k] \in Seq(Int) /\ Len(W[k]) = b
    BY <1>6, <2>2
  <2> QED
    BY <2>1, <2>3, <2>4, SliceSame
<1>10. ASSUME NEW k \in 1..m PROVE W[c + k] = V[k]
  <2>1. c + k \in 1..c + m
    BY <1>2
  <2>2. ASSUME NEW i \in 1..b PROVE W[c + k][i] = V[k][i]
    <3> DEFINE r == k * b - i + 1
    <3>1. (c + k) * b - i + 1 = B + r
      BY <1>0, <1>2
    <3>2. W[c + k][i] = IF (c + k) * b - i + 1 > Len(X) THEN Junk ELSE X[(c + k) * b - i + 1]
      BY <1>6, <2>1
    <3>3. V[k][i] = IF r > y THEN Junk ELSE Y[r]
      BY <1>5
    <3>4. r \in Nat /\ r > 0
      <4>1. (k - 1) * b \in Nat /\ k * b = (k - 1) * b + b
        BY <1>0, <1>2
      <4> QED
        BY <1>0, <4>1
    <3> HIDE DEF r, B
    <3>5. W[c + k][i] = IF B + r > Len(X) THEN Junk ELSE X[B + r]
      BY <3>1, <3>2
    <3>6. /\ B + r > Len(X) <=> r > y
          /\ ~(r > y) => X[B + r] = Y[r]
      <4>1. B + r > Len(X) <=> r > y
        BY <1>0, <1>1, <3>4
      <4>2. ASSUME ~(r > y) PROVE X[B + r] = Y[r]
        <5>1. B + r \in 1..B + y /\ ~(B + r <= B) /\ (B + r) - B = r
          BY <1>0, <3>4, <4>2
        <5> QED
          BY <1>1, <5>1
      <4> QED
        BY <4>1, <4>2
    <3> QED
      BY <3>3, <3>5, <3>6
  <2>3. W[c + k] \in Seq(Int) /\ Len(W[c + k]) = b /\ V[k] \in Seq(Int) /\ Len(V[k]) = b
    BY <1>5, <1>6, <2>1
  <2> QED
    BY <2>2, <2>3, SliceSame
<1>11. ASSUME NEW k \in 1..c + m PROVE W[k] = (w \o V)[k]
  <2>1. CASE k <= c
    <3>1. k \in 1..c
      BY <1>2, <2>1
    <3>2. W[k] = w[k]
      BY <1>9, <3>1
    <3>3. (w \o V)[k] = w[k]
      BY <1>8, <2>1
    <3> QED
      BY <3>2, <3>3
  <2>2. CASE ~(k <= c)
    <3>1. k - c \in 1..m /\ c + (k - c) = k
      BY <1>2, <2>2
    <3> QED
      BY <1>8, <1>10, <2>2, <3>1
  <2> QED
    BY <2>1, <2>2
<1>12. W = w \o V
  BY <1>6, <1>8, <1>11, SliceSame
<1>13. Len(X) = Len(P) + y
  BY <1>0, <1>1
<1> QED
  BY <1>1, <1>5, <1>7, <1>12, <1>13 DEF X, W, w, V, m, y

-----------------------------------------------------------------------------
(***************************************************************************)
(* A key shifted in word by word, at the place where the key ends, stands  *)
(* in front when it has come in whole.                                     *)
(***************************************************************************)
Shifted(k1, word, l, b) ==
    LET up == SubSeq(k1, b + 1, BlockBytes) \o Zeros(b)
    IN  SubSeq(up, 1, l - b) \o word \o SubSeq(up, l + 1, BlockBytes)

ShiftedTo(r, k1, word, l, b) ==
    /\ r \in Seq(Int) /\ Len(r) = BlockBytes
    /\ \A p \in 1..BlockBytes :
          r[p] = IF p > l - b /\ p <= l THEN word[p - (l - b)]
                 ELSE IF p <= BlockBytes - b THEN k1[p + b] ELSE 0

LEMMA ShiftedFacts ==
    ASSUME NEW k1 \in Seq(Int), Len(k1) = BlockBytes, NEW b \in Nat, NEW word \in Seq(Int), Len(word) = b,
           NEW l \in Nat, b <= l, l <= BlockBytes
    PROVE  ShiftedTo(Shifted(k1, word, l, b), k1, word, l, b)
<1> DEFINE B == BlockBytes
           hi == SubSeq(k1, b + 1, B)
           up == hi \o Zeros(b)
           x == SubSeq(up, 1, l - b)
           z == SubSeq(up, l + 1, B)
           y == x \o word
           e == l - b
           d == B - b
           r == y \o z
<1>0. B \in Nat /\ b <= B /\ e \in Nat /\ d \in Nat /\ e + b = l /\ d + b = B
  BY BlockFacts
<1>1. hi \in Seq(Int) /\ Len(hi) = d /\ \A i \in 1..d : hi[i] = k1[b + i]
  <2>1. B <= Len(k1) /\ hi = SubSeq(k1, b + 1, B)
    BY <1>0
  <2> HIDE DEF hi, B, d
  <2>2. SliceIs(hi, Int, k1, b, B)
    BY <1>0, <2>1, SliceOf
  <2> QED
    BY <2>2 DEF d, SliceIs
<1>2. Zeros(b) \in Seq(Int) /\ Len(Zeros(b)) = b /\ \A i \in 1..b : Zeros(b)[i] = 0
  BY ZerosFacts
<1>3. r = Shifted(k1, word, l, b)
  BY DEF Shifted
<1> DEFINE zeros == Zeros(b)
<1> HIDE DEF hi
<1>4. zeros \in Seq(Int) /\ Len(zeros) = b /\ (\A i \in 1..b : zeros[i] = 0) /\ up = hi \o zeros
  BY <1>2
<1> HIDE DEF zeros, up
<1>5. up \in Seq(Int) /\ Len(up) = B /\ \A i \in 1..B : up[i] = IF i <= d THEN k1[i + b] ELSE 0
  <2>1. Behind(Int, up, hi, zeros)
    BY <1>1, <1>4, JoinedBehind
  <2>2. up \in Seq(Int) /\ Len(up) = B
    BY <1>0, <1>1, <1>4, <2>1 DEF Behind
  <2>3. ASSUME NEW i \in 1..B PROVE up[i] = IF i <= d THEN k1[i + b] ELSE 0
    <3>1. up[i] = IF i <= d THEN hi[i] ELSE zeros[i - d]
      BY <1>1, <2>1, <2>2 DEF Behind
    <3>2. CASE i <= d
      <4>1. i \in 1..d /\ b + i = i + b
        BY <1>0, <3>2
      <4> QED
        BY <1>1, <3>1, <3>2, <4>1
    <3>3. CASE ~(i <= d)
      <4>1. i - d \in 1..b
        BY <1>0, <3>3
      <4> QED
        BY <1>4, <3>1, <3>3, <4>1
    <3> QED
      BY <3>2, <3>3
  <2> QED
    BY <2>2, <2>3
<1>6. x \in Seq(Int) /\ Len(x) = e /\ \A i \in 1..e : x[i] = up[i]
  <2> DEFINE none == 0
  <2>1. none \in Nat /\ none <= e /\ e <= Len(up) /\ up \in Seq(Int) /\ e \in Nat
        /\ SubSeq(up, none + 1, e) = x
    BY <1>0, <1>5
  <2> HIDE DEF none, x, e
  <2>2. SliceIs(x, Int, up, none, e)
    BY <2>1, SliceOf
  <2>3. e - none = e /\ \A i \in 1..e : none + i = i
    BY <1>0 DEF none
  <2> QED
    BY <2>2, <2>3 DEF SliceIs
<1>7. z \in Seq(Int) /\ Len(z) = B - l /\ \A i \in 1..B - l : z[i] = up[l + i]
  <2>1. B <= Len(up) /\ z = SubSeq(up, l + 1, B) /\ up \in Seq(Int) /\ B \in Nat /\ l <= B
    BY <1>0, <1>5
  <2> HIDE DEF z, B, up
  <2>2. SliceIs(z, Int, up, l, B)
    BY <2>1, SliceOf
  <2> QED
    BY <2>2 DEF SliceIs
<1> HIDE DEF x, z, e, d
<1>8. Behind(Int, y, x, word)
  BY <1>6, JoinedBehind
<1>9. y \in Seq(Int) /\ Len(y) = l
  BY <1>0, <1>6, <1>8 DEF Behind
<1> HIDE DEF y
<1>10. Behind(Int, r, y, z)
  BY <1>7, <1>9, JoinedBehind
<1>11. r \in Seq(Int) /\ Len(r) = B
  BY <1>0, <1>7, <1>9, <1>10 DEF Behind
<1> HIDE DEF r
<1>12. ASSUME NEW p \in 1..B
       PROVE  r[p] = IF p > e /\ p <= l THEN word[p - e] ELSE IF p <= d THEN k1[p + b] ELSE 0
  <2>1. r[p] = IF p <= l THEN y[p] ELSE z[p - l]
    BY <1>9, <1>10, <1>11 DEF Behind
  <2>2. CASE p <= l
    <3>1. y[p] = IF p <= e THEN x[p] ELSE word[p - e]
      <4>1. p \in 1..Len(y) /\ Len(x) = e
        BY <1>0, <1>6, <1>9, <2>2
      <4> QED
        BY <1>8, <4>1 DEF Behind
    <3>2. CASE p <= e
      <4>1. x[p] = up[p]
        BY <1>6, <3>2
      <4> QED
        BY <1>0, <1>5, <2>1, <2>2, <3>1, <3>2, <4>1
    <3> QED
      BY <1>0, <2>1, <2>2, <3>1, <3>2
  <2>3. CASE ~(p <= l)
    <3>1. p - l \in 1..B - l /\ l + (p - l) = p
      BY <1>0, <2>3
    <3>2. z[p - l] = up[p]
      BY <1>7, <3>1
    <3> QED
      BY <1>0, <1>5, <2>1, <2>3, <3>2
  <2> QED
    BY <2>2, <2>3
<1> QED
  BY <1>3, <1>11, <1>12 DEF ShiftedTo, e, d

(* The fold of the model over the words of a key, up to each of them: the  *)
(* library takes them from the set of their numbers, the highest last.     *)
MaxOf(S) == CHOOSE x \in S : \A y \in S : x >= y

LEMMA MaxFacts ==
    ASSUME NEW n \in Nat, NEW S \in SUBSET (1..n), S # {}
    PROVE  MaxOf(S) \in S /\ \A y \in S : MaxOf(S) >= y
<1> DEFINE T == {n - x : x \in S}
<1>1. T \in SUBSET Nat /\ T # {}
  <2>1. \A x \in S : n - x \in Nat
    OBVIOUS
  <2>2. PICK x : x \in S
    OBVIOUS
  <2>3. n - x \in T
    BY <2>2
  <2>4. T \in SUBSET Nat
    BY <2>1
  <2> QED
    BY <2>3, <2>4
<1>2. PICK t \in T : \A y \in T : t <= y
  <2> HIDE DEF T
  <2> QED
    BY <1>1, Smallest
<1>3. PICK x \in S : t = n - x
  OBVIOUS
<1>4. \A y \in S : x >= y
  <2> TAKE y \in S
  <2>1. t <= n - y
    BY <1>2
  <2> QED
    BY <1>3, <2>1
<1>5. \E v \in S : \A y \in S : v >= y
  BY <1>4
<1> QED
  BY <1>5 DEF MaxOf

LEMMA TopLeaves ==
    ASSUME NEW n \in Nat, NEW k \in 0..n, NEW S \in SUBSET (1..k + 1), S # {}
    PROVE  MaxOf(S) \in 1..k + 1 /\ S \ {MaxOf(S)} \in SUBSET (1..k)
<1> DEFINE m == k + 1
<1>0. m \in Nat /\ S \in SUBSET (1..m)
  OBVIOUS
<1> HIDE DEF m
<1>1. MaxOf(S) \in S /\ \A y \in S : MaxOf(S) >= y
  BY <1>0, MaxFacts
<1> USE DEF m
<1>2. ASSUME NEW y \in S \ {MaxOf(S)} PROVE y \in 1..k
  <2> DEFINE x == MaxOf(S)
  <2>1. x \in 1..k + 1 /\ y \in 1..k + 1 /\ y # x /\ x >= y
    BY <1>1
  <2> HIDE DEF x
  <2> QED
    BY <2>1
<1> QED
  BY <1>1, <1>2

LEMMA TopOf == ASSUME NEW k \in Nat PROVE MaxOf(1..k + 1) = k + 1 /\ (1..k + 1) \ {k + 1} = 1..k
<1>1. k + 1 \in Nat /\ (1..k + 1) \in SUBSET (1..k + 1) /\ k + 1 \in 1..k + 1
  OBVIOUS
<1>2. MaxOf(1..k + 1) \in 1..k + 1 /\ MaxOf(1..k + 1) >= k + 1
  BY <1>1, MaxFacts
<1> QED
  BY <1>2

Put(s, l, b, g, S) ==
    IF S = {} THEN Zeros(BlockBytes) ELSE Shifted(g[S \ {MaxOf(S)}], s[MaxOf(S)], l, b)
Filling(s, l, b, Z, g) == g = [S \in SUBSET Z |-> Put(s, l, b, g, S)]

FillingUpto(s, l, b, n, g, k) ==
    /\ g = [S \in SUBSET (1..n) |-> g[S]]
    /\ \A S \in SUBSET (1..k) : g[S] = Put(s, l, b, g, S)

LEMMA FillingMore ==
    ASSUME NEW s, NEW l, NEW b, NEW n \in Nat, NEW g, NEW k \in Nat, k < n, FillingUpto(s, l, b, n, g, k)
    PROVE  \E h : FillingUpto(s, l, b, n, h, k + 1)
<1> DEFINE h == [S \in SUBSET (1..n) |-> IF S \in SUBSET (1..k) THEN g[S] ELSE Put(s, l, b, g, S)]
<1>0. \A S \in SUBSET (1..k + 1) : S \in SUBSET (1..n)
  OBVIOUS
<1>1. \A S \in SUBSET (1..n) : h[S] = IF S \in SUBSET (1..k) THEN g[S] ELSE Put(s, l, b, g, S)
  OBVIOUS
<1>2. h = [S \in SUBSET (1..n) |-> h[S]]
  OBVIOUS
<1> HIDE DEF h
<1>3. ASSUME NEW S \in SUBSET (1..k + 1) PROVE h[S] = Put(s, l, b, g, S)
  BY <1>0, <1>1 DEF FillingUpto
<1>4. ASSUME NEW S \in SUBSET (1..k + 1) PROVE Put(s, l, b, g, S) = Put(s, l, b, h, S)
  <2>1. CASE S = {}
    BY <2>1 DEF Put
  <2>2. CASE S # {}
    <3> DEFINE u == S \ {MaxOf(S)}
    <3>1. u \in SUBSET (1..k)
      <4>1. k \in 0..n
        OBVIOUS
      <4> QED
        BY <2>2, <4>1, TopLeaves
    <3>2. u \in SUBSET (1..n)
      BY <3>1
    <3>3. h[u] = g[u]
      BY <1>1, <3>1, <3>2
    <3> QED
      BY <2>2, <3>3 DEF Put
  <2> QED
    BY <2>1, <2>2
<1> QED
  BY <1>2, <1>3, <1>4 DEF FillingUpto

LEMMA FillingExists ==
    ASSUME NEW s, NEW l, NEW b, NEW n \in Nat
    PROVE  \E g : Filling(s, l, b, 1..n, g)
<1> DEFINE bad == {k \in 0..n : ~\E g : FillingUpto(s, l, b, n, g, k)}
<1>1. 0 \notin bad
  <2> DEFINE g == [S \in SUBSET (1..n) |-> Zeros(BlockBytes)]
  <2>1. ASSUME NEW S \in SUBSET (1..0) PROVE g[S] = Put(s, l, b, g, S)
    <3>1. S = {} /\ S \in SUBSET (1..n)
      OBVIOUS
    <3> QED
      BY <3>1 DEF Put
  <2>2. g = [S \in SUBSET (1..n) |-> g[S]]
    OBVIOUS
  <2> HIDE DEF g
  <2>3. FillingUpto(s, l, b, n, g, 0)
    BY <2>1, <2>2 DEF FillingUpto
  <2> QED
    BY <2>3
<1>2. ASSUME NEW k \in bad, \A y \in bad : k <= y PROVE FALSE
  <2>1. k \in Nat /\ k # 0 /\ k - 1 \in Nat /\ k - 1 < n /\ k - 1 \notin bad /\ k - 1 \in 0..n
    BY <1>1, <1>2
  <2>2. PICK g : FillingUpto(s, l, b, n, g, k - 1)
    BY <2>1
  <2>3. \E h : FillingUpto(s, l, b, n, h, (k - 1) + 1)
    BY <2>1, <2>2, FillingMore
  <2>4. (k - 1) + 1 = k
    BY <2>1
  <2> QED
    BY <2>3, <2>4
<1>3. bad = {}
  <2>1. bad \in SUBSET Nat
    OBVIOUS
  <2> HIDE DEF bad
  <2> QED
    BY <1>2, <2>1, Smallest
<1>4. PICK g : FillingUpto(s, l, b, n, g, n)
  BY <1>3
<1> HIDE DEF bad
<1>5. g = [S \in SUBSET (1..n) |-> g[S]] /\ \A S \in SUBSET (1..n) : g[S] = Put(s, l, b, g, S)
  BY <1>4 DEF FillingUpto
<1>6. [S \in SUBSET (1..n) |-> g[S]] = [S \in SUBSET (1..n) |-> Put(s, l, b, g, S)]
  BY <1>5, Zenon
<1>7. Filling(s, l, b, 1..n, g)
  BY <1>5, <1>6, Zenon DEF Filling
<1> QED
  BY <1>7

LEMMA FillingFacts ==
    ASSUME NEW s, NEW l, NEW b, NEW Z, NEW g, Filling(s, l, b, Z, g)
    PROVE  \A S \in SUBSET Z : g[S] = Put(s, l, b, g, S)
<1> TAKE S \in SUBSET Z
<1>1. [u \in SUBSET Z |-> Put(s, l, b, g, u)][S] = Put(s, l, b, g, S)
  OBVIOUS
<1> QED
  BY <1>1, Zenon DEF Filling

(* After some words, a bytes, those stand before the place where the key   *)
(* ends.                                                                   *)
Entered(r, F, l, a) ==
    /\ r \in Seq(Int) /\ Len(r) = BlockBytes
    /\ \A p \in 1..BlockBytes : r[p] = IF p > l - a /\ p <= l THEN F[p - (l - a)] ELSE 0

NextIn(word, F, a, b) == \A i \in 1..b : word[i] = F[a + i]

LEMMA EnteredMore ==
    ASSUME NEW k1, NEW word, NEW F, NEW l \in Nat, l <= BlockBytes, NEW a \in Nat, NEW b \in Nat,
           a + b <= l, NEW c, c = a + b, NEW r,
           Entered(k1, F, l, a), NextIn(word, F, a, b), ShiftedTo(r, k1, word, l, b)
    PROVE  Entered(r, F, l, c)
<1>0. BlockBytes \in Nat
  BY BlockFacts
<1>1. ASSUME NEW p \in 1..BlockBytes
      PROVE  r[p] = IF p > l - c /\ p <= l THEN F[p - (l - c)] ELSE 0
  <2>1. r[p] = IF p > l - b /\ p <= l THEN word[p - (l - b)]
               ELSE IF p <= BlockBytes - b THEN k1[p + b] ELSE 0
    BY DEF ShiftedTo
  <2>2. CASE p > l - b /\ p <= l
    <3>1. p - (l - b) \in 1..b /\ a + (p - (l - b)) = p - (l - c) /\ p > l - c
      BY <1>0, <2>2
    <3>2. word[p - (l - b)] = F[a + (p - (l - b))]
      BY <3>1 DEF NextIn
    <3> QED
      BY <2>1, <2>2, <3>1, <3>2
  <2>3. CASE ~(p > l - b /\ p <= l) /\ p <= BlockBytes - b
    <3>1. p + b \in 1..BlockBytes
      BY <1>0, <2>3
    <3>2. k1[p + b] = IF p + b > l - a /\ p + b <= l THEN F[(p + b) - (l - a)] ELSE 0
      BY <3>1 DEF Entered
    <3>3. /\ (p + b > l - a /\ p + b <= l) <=> (p > l - c /\ p <= l)
          /\ (p + b) - (l - a) = p - (l - c)
      BY <1>0, <2>3
    <3> QED
      BY <2>1, <2>3, <3>2, <3>3
  <2>4. CASE ~(p > l - b /\ p <= l) /\ ~(p <= BlockBytes - b)
    <3>1. ~(p <= l)
      BY <1>0, <2>4
    <3> QED
      BY <2>1, <2>4, <3>1
  <2> QED
    BY <2>2, <2>3, <2>4
<1> QED
  BY <1>1 DEF Entered, ShiftedTo

Holds(g, n, X, b) == g[1..n] = FlattenSeq(Wire(UpTo(X, BlockBytes), b))

LEMMA ShortKey ==
    ASSUME NEW b \in {4, 8}, NEW n \in Nat, NEW l, WholeWord(l, n, b), l <= BlockBytes,
           NEW X \in Seq(Int), Len(X) = l, NEW g, Filling(Wire(X, b), l, b, 1..n, g)
    PROVE  Holds(g, n, X, b)
<1> DEFINE s == Wire(X, b)
           F == FlattenSeq(s)
<1>0. b \in Nat /\ b > 0 /\ l \in Nat /\ Len(X) = l /\ l <= BlockBytes /\ BlockBytes \in Nat /\ l = n * b
  BY BlockFacts DEF WholeWord
<1>1. s \in Seq(Seq(Int)) /\ Len(s) = n /\ \A k \in 1..n : s[k] \in Seq(Int) /\ Len(s[k]) = b
  <2>1. Words(Len(X), b) = n
    BY <1>0, WholeWords
  <2>2. /\ Wire(X, b) \in Seq(Seq(Int)) /\ Len(Wire(X, b)) = Words(Len(X), b)
        /\ \A k \in 1..Words(Len(X), b) : Wire(X, b)[k] \in Seq(Int) /\ Len(Wire(X, b)[k]) = b
    BY WireFacts
  <2> QED
    BY <2>1, <2>2
<1>2. Filling(s, l, b, 1..n, g)
  OBVIOUS
<1> HIDE DEF s
<1>3. F \in Seq(Int) /\ Evenly(s, n, b)
  <2>1. \A m \in 1..Len(s) : Len(s[m]) = b
    BY <1>1
  <2> QED
    BY <1>0, <1>1, <2>1, FlattenEven
<1>4. \A S \in SUBSET (1..n) : g[S] = Put(s, l, b, g, S)
  <2> DEFINE Z == 1..n
  <2>1. Filling(s, l, b, Z, g)
    BY <1>2
  <2> HIDE DEF Z
  <2>2. \A S \in SUBSET Z : g[S] = Put(s, l, b, g, S)
    BY <2>1, FillingFacts
  <2> QED
    BY <2>2 DEF Z
<1> DEFINE bad == {k \in 0..n : ~Entered(g[1..k], F, l, k * b)}
<1>5. 0 \notin bad
  <2>1. 1..0 = {} /\ {} \in SUBSET (1..n)
    OBVIOUS
  <2>2. g[1..0] = Zeros(BlockBytes)
    BY <1>4, <2>1 DEF Put
  <2>3. Zeros(BlockBytes) \in Seq(Int) /\ Len(Zeros(BlockBytes)) = BlockBytes
        /\ \A i \in 1..BlockBytes : Zeros(BlockBytes)[i] = 0
    BY <1>0, ZerosFacts
  <2>4. 0 * b = 0
    BY <1>0
  <2> HIDE DEF F
  <2>5. Entered(g[1..0], F, l, 0)
    BY <1>0, <2>2, <2>3 DEF Entered
  <2> QED
    BY <2>4, <2>5
<1>6. ASSUME NEW k \in bad, \A y \in bad : k <= y PROVE FALSE
  <2> DEFINE j == k - 1
             a == j * b
  <2>1. j \in Nat /\ j + 1 = k /\ j \in 0..n /\ j \notin bad /\ k \in 1..n
    BY <1>5, <1>6
  <2>2. Entered(g[1..j], F, l, a)
    BY <2>1
  <2>3. a \in Nat /\ k * b = a + b /\ a + b <= l
    <3>1. (n - k) * b \in Nat /\ (k - 1) * b \in Nat
      BY <1>0, <2>1
    <3>2. n * b = (n - k) * b + k * b /\ k * b = (k - 1) * b + b
      BY <1>0, <2>1
    <3> QED
      BY <1>0, <3>1, <3>2
  <2>4. MaxOf(1..k) = k /\ (1..k) \ {k} = 1..j /\ 1..k # {} /\ (1..k) \in SUBSET (1..n)
    <3>1. MaxOf(1..j + 1) = j + 1 /\ (1..j + 1) \ {j + 1} = 1..j
      <4> HIDE DEF j
      <4> QED
        BY <2>1, TopOf
    <3>2. 1..k # {} /\ (1..k) \in SUBSET (1..n)
      <4>1. k \in 1..k /\ \A i \in 1..k : i \in 1..n
        BY <2>1
      <4> QED
        BY <4>1
    <3> QED
      BY <2>1, <3>1, <3>2
  <2>5. g[1..k] = Shifted(g[1..j], s[k], l, b)
    BY <1>4, <2>4 DEF Put
  <2>6. \A i \in 1..b : s[k][i] = F[a + i]
    BY <1>3, <2>1 DEF Evenly
  <2>7. k * b = a + b /\ ~Entered(g[1..k], F, l, k * b)
    BY <2>3
  <2> DEFINE k1 == g[1..j]
             word == s[k]
             r == g[1..k]
             c == k * b
  <2>8. k1 \in Seq(Int) /\ Len(k1) = BlockBytes
    BY <2>2 DEF Entered
  <2>9. word \in Seq(Int) /\ Len(word) = b
    BY <1>1, <2>1
  <2>10. b <= l
    BY <1>0, <2>3
  <2> HIDE DEF a, F, j, k1, word, r, c
  <2>11. ShiftedTo(Shifted(k1, word, l, b), k1, word, l, b)
    BY <1>0, <2>8, <2>9, <2>10, ShiftedFacts
  <2>12. r = Shifted(k1, word, l, b)
    BY <2>5 DEF r, k1, word
  <2>13. Entered(k1, F, l, a) /\ NextIn(word, F, a, b) /\ c = a + b
    BY <2>2, <2>3, <2>6 DEF k1, word, c, NextIn
  <2>14. Entered(r, F, l, c)
    BY <1>0, <2>3, <2>11, <2>12, <2>13, EnteredMore
  <2> QED
    BY <2>7, <2>14 DEF r, c
<1>7. bad = {}
  <2>1. bad \in SUBSET Nat
    OBVIOUS
  <2> HIDE DEF bad
  <2> QED
    BY <1>6, <2>1, Smallest
<1>8. Entered(g[1..n], F, l, l)
  BY <1>0, <1>7
<1> DEFINE k1 == g[1..n]
<1>9. InFront(k1, F, l)
  <2> HIDE DEF k1, F, bad
  <2>1. k1 \in Seq(Int) /\ Len(k1) = BlockBytes
        /\ \A p \in 1..BlockBytes : k1[p] = IF p > l - l /\ p <= l THEN F[p - (l - l)] ELSE 0
    BY <1>8 DEF Entered, k1
  <2>2. \A p \in 1..BlockBytes : p > l - l /\ p - (l - l) = p
    BY <1>0
  <2> QED
    BY <2>1, <2>2 DEF InFront
<1> HIDE DEF k1
<1>10. k1 = FlattenSeq(Wire(UpTo(X, BlockBytes), b))
  <2>1. WholeWord(Len(X), n, b) /\ Len(X) <= BlockBytes /\ InFront(k1, FlattenSeq(Wire(X, b)), Len(X))
    BY <1>0, <1>9 DEF s
  <2> QED
    BY <2>1, FilledKey
<1> QED
  BY <1>10 DEF k1, Holds

-----------------------------------------------------------------------------
(***************************************************************************)
(* The network is deterministic: what goes through a FIFO in a whole call  *)
(* is known beforehand, and a state is known by how much of it each        *)
(* process has read and written.                                           *)
(***************************************************************************)

Count == Len(call.lens)
PadWords == BlockBytes \div call.w

(* The m-th message of a unit.                                             *)
TextOf(u, m) ==
    CASE u = "key" -> Key(m)
      [] u = "msg" -> Ipad(PaddedKey(m)) \o Message(m)
      [] u = "res" -> Opad(PaddedKey(m)) \o Digest("msg", m)

(* The lengths of a unit's messages, their words and their blocks; the     *)
(* words of the caller's messages, and the key as it goes into the pads.   *)
Lengths == [u \in Units |-> [m \in Messages |-> Len(TextOf(u, m))]]
Worded == [u \in Units |-> [m \in Messages |-> Wire(TextOf(u, m), call.w)]]
Blocked == [u \in Units |-> [m \in Messages |-> Padded(TextOf(u, m))]]
Bodies == [m \in Messages |-> Wire(Message(m), call.w)]
Keys == [m \in Messages |-> FlattenSeq(Wire(PaddedKey(m), call.w))]

StreamOf(c) ==
    CASE c[2] \in {"e", "eHash", "eKipad"} -> Flags(Count)
      [] c = <<"in", "len">>               -> call.lens
      [] c = <<"in", "msg">>               -> FlattenSeq(Bodies)
      [] c[2] = "kipad"                    -> [m \in Messages |-> Ipad(Keys[m])]
      [] c[2] \in {"kopad", "kopad2"}      -> [m \in Messages |-> Opad(Keys[m])]
      [] c[1] \in Units /\ c[2] = "len"    -> Lengths[c[1]]
      [] c[1] \in Units /\ c[2] = "word"   -> FlattenSeq(Worded[c[1]])
      [] c[1] \in Units /\ c[2] = "nblk"   ->
            Append([m \in Messages |-> BlkNum(Lengths[c[1]][m])], NoBlocks)
      [] c[1] \in Units /\ c[2] = "blk"    -> FlattenSeq(Blocked[c[1]])
      [] c[1] \in Units /\ c[2] = "hash"   -> [m \in Messages |-> Digest(c[1], m)]
Streams == [c \in Chans |-> StreamOf(c)]

IsStream(t) == \E S : t \in Seq(S)

(* Each FIFO holds what has been written, w, and not been read, r.         *)
Fifo(s, t, r, w) == r <= w /\ w <= Len(t) /\ s = SubSeq(t, r + 1, w)
Flow(Q, T, r, w) == \A c \in Chans : Fifo(Q[c], T[c], r[c], w[c])

(* Where each process is, by the elements it has read and written.         *)
PreAt(L, P, Q, b, n, p, e, len, word, nblk, blk) ==
    /\ p = [pc |-> p.pc, len |-> p.len, j |-> p.j, buf |-> p.buf]
    /\ p.pc \in {"flag", "block", "done"}
    /\ p.pc = "flag" => /\ e \in 0..n /\ len = e /\ nblk = e
                        /\ word = Upto(P, e) /\ blk = Upto(Q, e)
    /\ p.pc = "done" => /\ e = n + 1 /\ len = n /\ nblk = n + 1
                        /\ word = Upto(P, n) /\ blk = Upto(Q, n)
    /\ p.pc = "block" =>
          /\ e \in 1..n /\ len = e /\ nblk = e
          /\ p.len = L[e] /\ p.j \in 0..Len(Q[e]) - 1
          /\ Len(p.buf) \in 0..WordsOf(p.len, b, p.j)
          /\ p.buf = SubSeq(P[e], Start(p.len, b, p.j) + 1, Start(p.len, b, p.j) + Len(p.buf))
          /\ word = Upto(P, e - 1) + Start(p.len, b, p.j) + Len(p.buf)
          /\ blk = Upto(Q, e - 1) + p.j

DigAt(Q, n, p, h, nblk, blk, hash, eHash) ==
    /\ p = [pc |-> p.pc, n |-> p.n, got |-> p.got] /\ IsStream(h)
    /\ p.pc \in {"flag", "blocks", "done"}
    /\ Len(h) \in 0..n /\ (\A k \in 1..Len(h) : h[k] = Q[k]) /\ hash = Len(h)
    /\ p.pc = "flag" => nblk = Len(h) /\ eHash = nblk /\ blk = Upto(Q, nblk)
    /\ p.pc = "done" => nblk = n + 1 /\ Len(h) = n /\ eHash = n + 1 /\ blk = Upto(Q, n)
    /\ p.pc = "blocks" =>
          /\ nblk \in 1..n /\ Len(h) = nblk - 1 /\ eHash = nblk - 1
          /\ p.n = Len(Q[nblk]) /\ Len(p.got) \in 0..p.n
          /\ p.got = SubSeq(Q[nblk], 1, Len(p.got))
          /\ blk = Upto(Q, nblk - 1) + Len(p.got)

MkAt(P, R, c, n, p, eKipad, len, kipad, kopad, msg, e, ml, word, kopad2) ==
    /\ p = [pc |-> p.pc, pad |-> p.pad, words |-> p.words]
    /\ p.pc \in {"flag", "pad", "msg", "done"}
    /\ p.pc # "done" => kipad = eKipad
    /\ p.pc = "flag" => /\ eKipad \in 0..n /\ kopad = eKipad
                        /\ word = Upto(P, eKipad) /\ msg = Upto(R, eKipad)
    /\ p.pc = "pad" => /\ eKipad \in 1..n /\ kopad = eKipad - 1
                       /\ Len(p.pad) \in 0..c /\ p.pad = SubSeq(P[eKipad], c - Len(p.pad) + 1, c)
                       /\ p.words = Len(R[eKipad])
                       /\ word = Upto(P, eKipad - 1) + c - Len(p.pad)
                       /\ msg = Upto(R, eKipad - 1)
    /\ p.pc = "msg" => /\ eKipad \in 1..n /\ kopad = eKipad
                       /\ p.words \in 1..Len(R[eKipad])
                       /\ word + p.words = Upto(P, eKipad)
                       /\ msg + p.words = Upto(R, eKipad)
    /\ p.pc = "done" => /\ eKipad = n + 1 /\ kipad = n /\ kopad = n
                        /\ word = Upto(P, n) /\ msg = Upto(R, n)
    /\ len = kipad /\ ml = kipad /\ e = eKipad /\ kopad2 = kopad

MoAt(P, n, p, eHash, hash, kopad2, e, len, word) ==
    /\ p = [pc |-> p.pc, words |-> p.words]
    /\ p.pc \in {"flag", "words", "done"}
    /\ p.pc = "flag" => eHash \in 0..n /\ hash = eHash /\ word = Upto(P, eHash)
    /\ p.pc = "words" =>
          /\ eHash \in 1..n /\ hash = eHash
          /\ Len(p.words) \in 1..Len(P[eHash])
          /\ p.words = SubSeq(P[eHash], Len(P[eHash]) - Len(p.words) + 1, Len(P[eHash]))
          /\ word + Len(p.words) = Upto(P, eHash)
    /\ p.pc = "done" => eHash = n + 1 /\ hash = n /\ word = Upto(P, n)
    /\ kopad2 = hash /\ len = hash /\ e = eHash

OutAt(n, o, eHash, hash) ==
    /\ o = [hashes |-> o.hashes, ended |-> o.ended] /\ o.ended \in BOOLEAN /\ IsStream(o.hashes)
    /\ Len(o.hashes) = hash /\ (\A m \in 1..hash : o.hashes[m] = Digest("res", m)) /\ hash \in 0..n
    /\ eHash = IF o.ended THEN n + 1 ELSE hash
    /\ o.ended => hash = n

(* With a short key kpad reads its words, with a long one its hashes.      *)
KpAt(P, n, long, p, inE, keyWord, keyHash, keyEHash, keyE, keyLen, eKipad, kipad, kopad) ==
    /\ p = [expand |-> p.expand, pad |-> p.pad] /\ p.expand \in BOOLEAN /\ p.pad \in BOOLEAN
    /\ kipad \in 0..n /\ kopad = kipad
    /\ eKipad = IF p.pad THEN kipad ELSE n + 1
    /\ ~p.pad => kipad = n
    /\ long => /\ keyHash = kipad /\ keyEHash = eKipad
               /\ keyLen \in 0..n /\ keyE = inE
               /\ inE = IF p.expand THEN keyLen ELSE n + 1
               /\ ~p.expand => keyLen = n
    /\ ~long => /\ inE = eKipad /\ keyWord = Upto(P, kipad)
                /\ ~p.expand /\ keyE = 0 /\ keyLen = 0

KpIn(n, long, P, r, w, p) ==
    KpAt(P["key"], n, long, p, r[<<"in", "e">>], IF long THEN 0 ELSE r[<<"key", "word">>],
         r[<<"key", "hash">>], r[<<"key", "eHash">>], w[<<"key", "e">>], w[<<"key", "len">>],
         w[<<"kpad", "eKipad">>], w[<<"kpad", "kipad">>], w[<<"kpad", "kopad">>])
MkIn(n, c, P, R, r, w, p) ==
    MkAt(P["msg"], R, c, n, p, r[<<"kpad", "eKipad">>], r[<<"in", "len">>],
         r[<<"kpad", "kipad">>], r[<<"kpad", "kopad">>], r[<<"in", "msg">>],
         w[<<"msg", "e">>], w[<<"msg", "len">>], w[<<"msg", "word">>], w[<<"merge", "kopad2">>])
MoIn(n, P, r, w, p) ==
    MoAt(P["res"], n, p, r[<<"msg", "eHash">>], r[<<"msg", "hash">>], r[<<"merge", "kopad2">>],
         w[<<"res", "e">>], w[<<"res", "len">>], w[<<"res", "word">>])
PreIn(u, n, b, long, L, P, Q, r, w, p) ==
    PreAt(L[u], P[u], Q[u], b, n, p, r[<<u, "e">>], r[<<u, "len">>],
          IF u = "key" /\ ~long THEN 0 ELSE r[<<u, "word">>], w[<<u, "nblk">>], w[<<u, "blk">>])
DigIn(u, n, Q, r, w, p, h) ==
    DigAt(Q[u], n, p, h, r[<<u, "nblk">>], r[<<u, "blk">>], w[<<u, "hash">>], w[<<u, "eHash">>])
OutIn(n, r, o) == OutAt(n, o, r[<<"res", "eHash">>], r[<<"res", "hash">>])

Network(n, b, c, long, L, P, Q, R, r, w, kpp, mkp, mop, prep, digp, h, o) ==
    /\ KpIn(n, long, P, r, w, kpp) /\ MkIn(n, c, P, R, r, w, mkp) /\ MoIn(n, P, r, w, mop)
    /\ \A u \in Units : PreIn(u, n, b, long, L, P, Q, r, w, prep[u]) /\ DigIn(u, n, Q, r, w, digp[u], h[u])
    /\ OutIn(n, r, o)

(* The caller has written its inputs before the network starts.            *)
Given == {<<"in", "e">>, <<"in", "len">>, <<"in", "msg">>, <<"key", "word">>}

(* Beside the FIFOs of a long key, nothing uses those of the unit for it.  *)
Reached(r, w) ==
    /\ pre = [u \in Units |-> pre[u]] /\ dig = [u \in Units |-> dig[u]]
    /\ hashed = [u \in Units |-> hashed[u]]
    /\ Flow(q, Streams, r, w)
    /\ \A c \in Given : w[c] = Len(Streams[c])
    /\ Network(Count, call.w, PadWords, LongKey, Lengths, Worded, Blocked, Bodies, r, w,
               kp, mk, mo, pre, dig, hashed, out)

IInv == call \in Calls /\ \E r, w \in [Chans -> Nat] : Reached(r, w)

-----------------------------------------------------------------------------
(***************************************************************************)
(* What the data of a call is like; the processes are reasoned about from  *)
(* this alone.                                                             *)
(***************************************************************************)
Flagged(t, n) == Len(t) = n + 1 /\ (\A i \in 1..n : t[i] = FALSE) /\ t[n + 1] = TRUE

(* The parts of a stream and where they end.                               *)
Sums(P, n) ==
    /\ Upto(P, 0) = 0 /\ \A m \in 0..n : Upto(P, m) \in Nat
    /\ \A m \in 1..n : IsStream(P[m]) /\ Len(P[m]) \in Nat /\ Upto(P, m) = Upto(P, m - 1) + Len(P[m])

Carries(t, P, n) ==
    /\ Sums(P, n) /\ IsStream(t) /\ Len(t) = Upto(P, n) /\ \A m \in 0..n : Upto(P, m) <= Len(t)
    /\ \A m \in 1..n : \A k \in 1..Len(P[m]) : t[Upto(P, m - 1) + k] = P[m][k]

(* Block after block the words of a message are taken, and what is sent is *)
(* the message as the standard pads it.                                    *)
Blockwise(len, ws, bs, b) ==
    /\ len \in Nat /\ Len(bs) \in Nat \ {0} /\ BlkNum(len) = Len(bs) /\ BlocksSent(len) = Len(bs)
    /\ Start(len, b, 0) = 0 /\ Start(len, b, Len(bs)) = Len(ws)
    /\ \A j \in 0..Len(bs) - 1 :
          /\ Start(len, b, j) \in Nat /\ WordsOf(len, b, j) \in Nat
          /\ Start(len, b, j) + WordsOf(len, b, j) = Start(len, b, j + 1)
          /\ Start(len, b, j + 1) <= Len(ws)
          /\ Block(len, j, SubSeq(ws, Start(len, b, j) + 1, Start(len, b, j) + WordsOf(len, b, j)))
                = bs[j + 1]

LEMMA BlockwiseRight ==
    ASSUME NEW X \in Seq(Int), NEW b \in {4, 8}
    PROVE  Blockwise(Len(X), Wire(X, b), Padded(X), b)
<1> DEFINE len == Len(X)
           N == BlocksSent(len)
           ws == Wire(X, b)
           bs == Padded(X)
<1>1. len \in Nat
  OBVIOUS
<1>2. N \in Nat \ {0} /\ Len(bs) = N
  BY PaddedFacts
<1>3. BlkNum(len) = N
  <2>1. PICK a, t : Split(len, a, t)
    BY <1>1, SplitLen
  <2> QED
    BY <1>1, <2>1, BlockCount
<1>4. Len(ws) = Words(len, b)
  BY WireFacts
<1>5. /\ Start(len, b, 0) = 0 /\ Start(len, b, N) = Words(len, b)
      /\ \A j \in 0..N - 1 :
            /\ Start(len, b, j) \in Nat /\ WordsOf(len, b, j) \in Nat
            /\ Start(len, b, j) + WordsOf(len, b, j) = Start(len, b, j + 1)
            /\ Start(len, b, j + 1) <= Words(len, b)
  <2> HIDE DEF len
  <2> QED
    BY <1>1, StartFacts
<1>6. ASSUME NEW j \in 0..N - 1
      PROVE  Block(len, j, SubSeq(ws, Start(len, b, j) + 1, Start(len, b, j) + WordsOf(len, b, j))) = bs[j + 1]
  BY BlockRight
<1> HIDE DEF len, N, ws, bs
<1>7. Blockwise(len, ws, bs, b)
  BY <1>1, <1>2, <1>3, <1>4, <1>5, <1>6 DEF Blockwise, N
<1> QED
  BY <1>7 DEF len, ws, bs

LEMMA CarriesRight ==
    ASSUME NEW S, NEW n \in Nat, NEW P, P = [m \in 1..n |-> P[m]], \A m \in 1..n : P[m] \in Seq(S)
    PROVE  Carries(FlattenSeq(P), P, n)
<1>1. P \in Seq(Seq(S)) /\ Len(P) = n
  <2> DEFINE Z == Seq(S)
  <2>1. \A m \in 1..n : P[m] \in Z
    OBVIOUS
  <2> HIDE DEF Z
  <2>2. P \in Seq(Z) /\ Len(P) = n
    BY <2>1, Listed
  <2> QED
    BY <2>2 DEF Z
<1>2. /\ FlattenSeq(P) \in Seq(S)
      /\ \A m \in 0..Len(P) : Upto(P, m) \in Nat /\ Upto(P, m) <= Len(FlattenSeq(P))
      /\ Upto(P, 0) = 0 /\ Upto(P, Len(P)) = Len(FlattenSeq(P))
      /\ \A m \in 1..Len(P) : Upto(P, m) = Upto(P, m - 1) + Len(P[m])
      /\ \A m \in 1..Len(P) : \A k \in 1..Len(P[m]) : FlattenSeq(P)[Upto(P, m - 1) + k] = P[m][k]
  BY <1>1, FlattenFacts
<1>3. \A m \in 1..n : IsStream(P[m]) /\ Len(P[m]) \in Nat
  BY DEF IsStream
<1>4. IsStream(FlattenSeq(P))
  BY <1>2 DEF IsStream
<1>5. Sums(P, n)
  BY <1>1, <1>2, <1>3 DEF Sums
<1> QED
  BY <1>1, <1>2, <1>4, <1>5 DEF Carries

(* The words of a unit's messages and their blocks.                        *)
UnitData(L, P, Q, n, b) ==
    /\ Carries(FlattenSeq(P), P, n) /\ Carries(FlattenSeq(Q), Q, n)
    /\ \A m \in 1..n : Blockwise(L[m], P[m], Q[m], b)

LEMMA UnitRight ==
    ASSUME NEW n \in Nat, NEW b \in {4, 8}, NEW X, \A m \in 1..n : X[m] \in Seq(Int)
    PROVE  UnitData([m \in 1..n |-> Len(X[m])], [m \in 1..n |-> Wire(X[m], b)],
                    [m \in 1..n |-> Padded(X[m])], n, b)
<1> DEFINE L == [m \in 1..n |-> Len(X[m])]
           P == [m \in 1..n |-> Wire(X[m], b)]
           Q == [m \in 1..n |-> Padded(X[m])]
           S == Seq(Int)
<1>1. \A m \in 1..n : L[m] = Len(X[m]) /\ P[m] = Wire(X[m], b) /\ Q[m] = Padded(X[m])
  OBVIOUS
<1>2. P = [m \in 1..n |-> P[m]] /\ Q = [m \in 1..n |-> Q[m]]
  OBVIOUS
<1> HIDE DEF L, P, Q
<1>3. \A m \in 1..n : P[m] \in Seq(S) /\ Q[m] \in Seq(S)
  BY <1>1, WireFacts, PaddedFacts
<1> HIDE DEF S
<1>4. Carries(FlattenSeq(P), P, n)
  BY <1>2, <1>3, CarriesRight
<1>5. Carries(FlattenSeq(Q), Q, n)
  BY <1>2, <1>3, CarriesRight
<1>6. \A m \in 1..n : Blockwise(L[m], P[m], Q[m], b)
  BY <1>1, BlockwiseRight
<1> QED
  BY <1>4, <1>5, <1>6 DEF UnitData, L, P, Q

(* A pad in words and what stands behind it.                               *)
Headed(ws, pad, body, c) ==
    /\ c \in Nat \ {0} /\ IsStream(ws) /\ Len(pad) = c /\ Len(body) \in Nat /\ Len(ws) = c + Len(body)
    /\ pad = SubSeq(ws, 1, c) /\ (\A k \in 1..Len(body) : ws[c + k] = body[k]) /\ ws = pad \o body

LEMMA HeadedJoin ==
    ASSUME NEW S, NEW v \in Seq(S), NEW u \in Seq(S), NEW c \in Nat \ {0}, Len(v) = c
    PROVE  Headed(v \o u, v, u, c)
<1> DEFINE z == v \o u
           d == Len(u)
<1>1. d \in Nat /\ Behind(S, z, v, u)
  BY JoinedBehind
<1> HIDE DEF z, d
<1>2. z \in Seq(S) /\ Len(z) = c + d /\ \A k \in 1..c + d : z[k] = IF k <= c THEN v[k] ELSE u[k - c]
  BY <1>1 DEF Behind, d
<1>3. v = SubSeq(z, 1, c)
  <2> DEFINE none == 0
             y == SubSeq(z, none + 1, c)
  <2>1. none \in Nat /\ none <= c /\ c <= Len(z) /\ c - none = c
    BY <1>1, <1>2
  <2> HIDE DEF none
  <2>2. y \in Seq(S) /\ Len(y) = c - none /\ \A i \in 1..c - none : y[i] = z[none + i]
    BY <1>2, <2>1, SliceFacts
  <2> HIDE DEF y
  <2>3. Len(y) = Len(v) /\ \A i \in 1..Len(v) : y[i] = v[i]
    <3>1. \A i \in 1..c : i \in 1..c + d /\ i <= c /\ none + i = i
      BY <1>1 DEF none
    <3> QED
      BY <1>2, <2>1, <2>2, <3>1
  <2>4. y = v
    BY <2>2, <2>3, SliceSame
  <2> QED
    BY <2>4 DEF y, none
<1>4. \A k \in 1..d : z[c + k] = u[k]
  <2> TAKE k \in 1..d
  <2>1. c + k \in 1..c + d /\ ~(c + k <= c) /\ (c + k) - c = k
    BY <1>1
  <2> QED
    BY <1>2, <2>1
<1>5. IsStream(z)
  BY <1>2 DEF IsStream
<1>6. Headed(z, v, u, c)
  BY <1>1, <1>2, <1>3, <1>4, <1>5 DEF Headed, d, z
<1> QED
  BY <1>6 DEF z

PadIs(f, K, Y, g, b) ==
    /\ K \o Y \in Seq(Int) /\ Len(K \o Y) = BlockBytes + Len(Y)
    /\ Headed(Wire(K \o Y, b), Cut(g, b), Wire(Y, b), BlockBytes \div b)

LEMMA PadRight ==
    ASSUME NEW b \in {4, 8}, NEW K \in Seq(Int), Len(K) = BlockBytes, NEW Y \in Seq(Int),
           NEW f, f = FlattenSeq(Wire(K, b))
    PROVE  PadIs(f, Ipad(K), Y, Ipad(f), b) /\ PadIs(f, Opad(K), Y, Opad(f), b)
<1> DEFINE c == BlockBytes \div b
           B == c * b
<1>1. b \in Nat /\ b > 0 /\ c \in Nat \ {0} /\ B = BlockBytes
  <2>1. /\ b \in Nat /\ b > 0
        /\ BlockBytes \div b \in Nat /\ BlockBytes \div b > 0 /\ (BlockBytes \div b) * b = BlockBytes
    BY BlockWords
  <2>2. c \in Nat /\ c > 0 /\ B = BlockBytes
    BY <2>1
  <2> HIDE DEF c, B
  <2> QED
    BY <2>1, <2>2
<1> HIDE DEF c
<1>2. Flipped(f, K, c, b)
  BY <1>1, WireFlipped
<1>3. Flipped(Ipad(f), Ipad(K), c, b) /\ Flipped(Opad(f), Opad(K), c, b)
  BY <1>1, <1>2, PadFlipped
<1>4. /\ Ipad(K) \in Seq(Int) /\ Len(Ipad(K)) = BlockBytes
      /\ Opad(K) \in Seq(Int) /\ Len(Opad(K)) = BlockBytes
  BY PadBytes
<1>5. ASSUME NEW g, NEW P \in Seq(Int), Len(P) = BlockBytes, Flipped(g, P, c, b)
      PROVE  PadIs(f, P, Y, g, b)
  <2>1. /\ Wire(P \o Y, b) = Cut(g, b) \o Wire(Y, b)
        /\ Cut(g, b) \in Seq(Seq(Int)) /\ Len(Cut(g, b)) = c
        /\ P \o Y \in Seq(Int) /\ Len(P \o Y) = Len(P) + Len(Y)
        /\ Wire(Y, b) \in Seq(Seq(Int)) /\ Len(Wire(Y, b)) = Words(Len(Y), b)
    <3>1. Len(P) = c * b
      BY <1>1, <1>5
    <3> QED
      BY <1>1, <1>5, <3>1, PadThenText
  <2>2. Headed(Cut(g, b) \o Wire(Y, b), Cut(g, b), Wire(Y, b), c)
    BY <1>1, <2>1, HeadedJoin
  <2> QED
    BY <1>5, <2>1, <2>2 DEF PadIs, c
<1> QED
  BY <1>3, <1>4, <1>5

-----------------------------------------------------------------------------
(* The streams of the network.                                             *)
Streamed(T, n, L, P, Q, R, W) ==
    /\ \A c \in Chans : IsStream(T[c])
    /\ Flagged(T[<<"in", "e">>], n) /\ Flagged(T[<<"kpad", "eKipad">>], n)
    /\ Len(T[<<"in", "len">>]) = n /\ Carries(T[<<"in", "msg">>], R, n)
    /\ Len(T[<<"kpad", "kipad">>]) = n /\ \A m \in 1..n : T[<<"kpad", "kipad">>][m] = Ipad(W[m])
    /\ T[<<"kpad", "kopad">>] = T[<<"merge", "kopad2">>]
    /\ Len(T[<<"merge", "kopad2">>]) = n /\ \A m \in 1..n : T[<<"merge", "kopad2">>][m] = Opad(W[m])
    /\ \A u \in Units :
          /\ Flagged(T[<<u, "e">>], n) /\ Flagged(T[<<u, "eHash">>], n)
          /\ Len(T[<<u, "len">>]) = n /\ \A m \in 1..n : T[<<u, "len">>][m] = L[u][m]
          /\ Carries(T[<<u, "word">>], P[u], n) /\ Carries(T[<<u, "blk">>], Q[u], n)
          /\ Len(T[<<u, "nblk">>]) = n + 1 /\ T[<<u, "nblk">>][n + 1] = NoBlocks
          /\ \A m \in 1..n : T[<<u, "nblk">>][m] = BlkNum(L[u][m])
          /\ Len(T[<<u, "hash">>]) = n /\ \A m \in 1..n : T[<<u, "hash">>][m] = Digest(u, m)

(* The messages of the inner and of the outer hash; a long key and its     *)
(* hash.                                                                   *)
Merged(T, n, b, c, l, L, P, R, W) ==
    \A m \in 1..n :
       /\ Headed(P["msg"][m], Cut(Ipad(W[m]), b), R[m], c)
       /\ T[<<"in", "len">>][m] \in Nat /\ L["msg"][m] = T[<<"in", "len">>][m] + BlockBytes
       /\ Len(R[m]) = Words(T[<<"in", "len">>][m], b)
       /\ Headed(P["res"][m], Cut(Opad(W[m]), b), Wire(Digest("msg", m), b), c)
       /\ L["res"][m] = BlockBytes + HashBytes /\ L["key"][m] = l

NetData(T, n, b, c, l, L, P, Q, R, W) ==
    /\ n \in Nat /\ \A u \in Units : UnitData(L[u], P[u], Q[u], n, b)
    /\ Streamed(T, n, L, P, Q, R, W) /\ Merged(T, n, b, c, l, L, P, R, W)

LEMMA CallFacts ==
    ASSUME call \in Calls
    PROVE  /\ Count \in Nat /\ call.w \in {4, 8} /\ call.keyLen \in Nat \ {0}
           /\ call.lens \in Seq(Nat) /\ Len(call.lens) = Count /\ Messages = 1..Count
           /\ \A m \in 1..Count : call.lens[m] \in Nat
           /\ HashBytes \in Nat /\ HashBytes % 8 = 0 /\ HashBytes <= BlockBytes
           /\ ~LongKey => call.keyLen <= BlockBytes /\ call.keyLen % call.w = 0
           /\ LongKey \in BOOLEAN
<1>1. call \in [w : {4, 8}, keyLen : Nat \ {0}, lens : Seq(Nat)]
  BY HmacAssumption
<1>2. call.keyLen <= BlockBytes => call.keyLen % call.w = 0
  BY HmacAssumption
<1>3. ~LongKey => call.keyLen <= BlockBytes
  <2>1. call.keyLen \in Nat /\ BlockBytes \in Nat
    BY <1>1, BlockFacts
  <2> QED
    BY <2>1 DEF LongKey
<1>4. HashBytes \in Nat /\ HashBytes % 8 = 0 /\ HashBytes <= BlockBytes
  BY HmacAssumption
<1>5. LongKey \in BOOLEAN
  BY DEF LongKey
<1> QED
  BY <1>1, <1>2, <1>3, <1>4, <1>5 DEF Count, Messages

LEMMA DigestFacts ==
    ASSUME HashBytes \in Nat, NEW u \in Units, NEW m \in Nat
    PROVE  Digest(u, m) \in Seq(Int) /\ Len(Digest(u, m)) = HashBytes
<1>1. UnitBase(u) \in Int
  BY DEF UnitBase, Units
<1>2. \A i \in 1..HashBytes : UnitBase(u) + 100 * m + i \in Int
  BY <1>1
<1> DEFINE f == Digest(u, m)
<1>3. f = [i \in 1..HashBytes |-> f[i]] /\ \A i \in 1..HashBytes : f[i] \in Int
  BY <1>2 DEF Digest
<1> HIDE DEF f
<1>4. f \in Seq(Int) /\ Len(f) = HashBytes
  BY <1>3, Listed
<1> QED
  BY <1>4 DEF f

LEMMA TextFacts ==
    ASSUME call \in Calls
    PROVE  \A m \in Messages :
              /\ Key(m) \in Seq(Int) /\ Len(Key(m)) = call.keyLen
              /\ Message(m) \in Seq(Int) /\ Len(Message(m)) = call.lens[m]
              /\ PaddedKey(m) \in Seq(Int) /\ Len(PaddedKey(m)) = BlockBytes
              /\ Digest("key", m) \in Seq(Int) /\ Len(Digest("key", m)) = HashBytes
              /\ Digest("msg", m) \in Seq(Int) /\ Len(Digest("msg", m)) = HashBytes
<1> TAKE m \in Messages
<1>1. /\ call.keyLen \in Nat /\ call.lens[m] \in Nat /\ m \in Nat /\ BlockBytes \in Nat
      /\ HashBytes \in Nat /\ HashBytes <= BlockBytes
      /\ ~LongKey => call.keyLen <= BlockBytes
  BY CallFacts, BlockFacts
<1>2. Key(m) \in Seq(Int) /\ Len(Key(m)) = call.keyLen
  <2> DEFINE f == Key(m)
             l == call.keyLen
  <2>1. \A i \in 1..l : KeyByte(m, i) \in Int
    BY <1>1 DEF KeyByte
  <2>2. f = [i \in 1..l |-> f[i]] /\ \A i \in 1..l : f[i] \in Int
    BY <2>1 DEF Key
  <2>3. l \in Nat
    BY <1>1
  <2> HIDE DEF f, l
  <2>4. f \in Seq(Int) /\ Len(f) = l
    BY <2>2, <2>3, Listed
  <2> QED
    BY <2>4 DEF f, l
<1>3. Message(m) \in Seq(Int) /\ Len(Message(m)) = call.lens[m]
  <2> DEFINE f == Message(m)
             l == call.lens[m]
  <2>1. \A i \in 1..l : MsgByte(m, i) \in Int
    BY <1>1 DEF MsgByte
  <2>2. f = [i \in 1..l |-> f[i]] /\ \A i \in 1..l : f[i] \in Int
    BY <2>1 DEF Message
  <2>3. l \in Nat
    BY <1>1
  <2> HIDE DEF f, l
  <2>4. f \in Seq(Int) /\ Len(f) = l
    BY <2>2, <2>3, Listed
  <2> QED
    BY <2>4 DEF f, l
<1>4. /\ Digest("key", m) \in Seq(Int) /\ Len(Digest("key", m)) = HashBytes
      /\ Digest("msg", m) \in Seq(Int) /\ Len(Digest("msg", m)) = HashBytes
  <2>1. \A u \in Units : Digest(u, m) \in Seq(Int) /\ Len(Digest(u, m)) = HashBytes
    BY <1>1, DigestFacts
  <2>2. "key" \in Units /\ "msg" \in Units
    BY DEF Units
  <2> QED
    BY <2>1, <2>2
<1>5. PaddedKey(m) \in Seq(Int) /\ Len(PaddedKey(m)) = BlockBytes
  <2> DEFINE X == IF LongKey THEN Digest("key", m) ELSE Key(m)
  <2>1. X \in Seq(Int) /\ Len(X) <= BlockBytes
    BY <1>1, <1>2, <1>4
  <2>2. PaddedKey(m) = UpTo(X, BlockBytes)
    BY DEF PaddedKey
  <2> HIDE DEF X
  <2>3. UpTo(X, BlockBytes) \in Seq(Int) /\ Len(UpTo(X, BlockBytes)) = BlockBytes
    BY <1>1, <2>1, UpToFacts
  <2> QED
    BY <2>2, <2>3
<1> QED
  BY <1>2, <1>3, <1>4, <1>5

(* The messages of the units.                                              *)
LEMMA TextsRight ==
    ASSUME call \in Calls
    PROVE  \A m \in Messages :
              /\ TextOf("key", m) = Key(m)
              /\ TextOf("msg", m) = Ipad(PaddedKey(m)) \o Message(m)
              /\ TextOf("res", m) = Opad(PaddedKey(m)) \o Digest("msg", m)
              /\ PadIs(Keys[m], Ipad(PaddedKey(m)), Message(m), Ipad(Keys[m]), call.w)
              /\ PadIs(Keys[m], Opad(PaddedKey(m)), Digest("msg", m), Opad(Keys[m]), call.w)
              /\ \A u \in Units : TextOf(u, m) \in Seq(Int)
<1> TAKE m \in Messages
<1>1. /\ TextOf("key", m) = Key(m)
      /\ TextOf("msg", m) = Ipad(PaddedKey(m)) \o Message(m)
      /\ TextOf("res", m) = Opad(PaddedKey(m)) \o Digest("msg", m)
  BY DEF TextOf
<1> DEFINE K == PaddedKey(m)
           b == call.w
           f == Keys[m]
           Y == Message(m)
           D == Digest("msg", m)
<1>2. /\ K \in Seq(Int) /\ Len(K) = BlockBytes /\ Y \in Seq(Int) /\ D \in Seq(Int)
      /\ b \in {4, 8} /\ f = FlattenSeq(Wire(K, b)) /\ Key(m) \in Seq(Int)
  BY TextFacts, CallFacts DEF Keys
<1> HIDE DEF K, b, f, Y, D
<1>3. PadIs(f, Ipad(K), Y, Ipad(f), b) /\ PadIs(f, Opad(K), D, Opad(f), b)
  BY <1>2, PadRight
<1>4. Ipad(K) \o Y \in Seq(Int) /\ Opad(K) \o D \in Seq(Int)
  BY <1>3 DEF PadIs
<1>5. \A u \in Units : TextOf(u, m) \in Seq(Int)
  BY <1>1, <1>2, <1>4 DEF Units, K, Y, D
<1> QED
  BY <1>1, <1>3, <1>5 DEF K, b, f, Y, D

LEMMA FlagsFacts ==
    ASSUME NEW n \in Nat
    PROVE  IsStream(Flags(n)) /\ Flagged(Flags(n), n)
<1> DEFINE f == [m \in 1..n |-> FALSE]
<1>1. f \in Seq(BOOLEAN) /\ Len(f) = n /\ \A m \in 1..n : f[m] = FALSE
  <2>1. f = [m \in 1..n |-> f[m]] /\ \A m \in 1..n : f[m] \in BOOLEAN /\ f[m] = FALSE
    OBVIOUS
  <2> HIDE DEF f
  <2>2. f \in Seq(BOOLEAN) /\ Len(f) = n
    BY <2>1, Listed
  <2> QED
    BY <2>1, <2>2
<1>2. Flags(n) = Append(f, TRUE)
  BY DEF Flags
<1> HIDE DEF f
<1>3. /\ Append(f, TRUE) \in Seq(BOOLEAN) /\ Len(Append(f, TRUE)) = n + 1
      /\ (\A m \in 1..n : Append(f, TRUE)[m] = FALSE) /\ Append(f, TRUE)[n + 1] = TRUE
  BY <1>1
<1> QED
  BY <1>2, <1>3 DEF IsStream, Flagged

(* A function on the numbers of the messages is a stream.                  *)
Listing(f, n) == IsStream(f) /\ Len(f) = n

LEMMA ListingRight ==
    ASSUME NEW n \in Nat, NEW f, f = [m \in 1..n |-> f[m]]
    PROVE  Listing(f, n)
<1> DEFINE S == {f[m] : m \in 1..n}
<1>1. \A m \in 1..n : f[m] \in S
  OBVIOUS
<1> HIDE DEF S
<1>2. f \in Seq(S) /\ Len(f) = n
  BY <1>1, Listed
<1> QED
  BY <1>2 DEF Listing, IsStream

Extends(t, f, x, n) ==
    IsStream(t) /\ Len(t) = n + 1 /\ t[n + 1] = x /\ \A m \in 1..n : t[m] = f[m]

LEMMA NblkFacts ==
    ASSUME NEW n \in Nat, NEW f, f = [m \in 1..n |-> f[m]], NEW x, NEW t, t = Append(f, x)
    PROVE  Extends(t, f, x, n)
<1> DEFINE S == {f[m] : m \in 1..n} \cup {x}
<1>1. x \in S /\ \A m \in 1..n : f[m] \in S
  OBVIOUS
<1> HIDE DEF S
<1>2. f \in Seq(S) /\ Len(f) = n
  BY <1>1, Listed
<1>3. t \in Seq(S) /\ Len(t) = n + 1 /\ t[n + 1] = x /\ \A m \in 1..n : t[m] = f[m]
  BY <1>1, <1>2
<1> QED
  BY <1>3 DEF IsStream, Extends

(* The streams, one kind after the other.                                  *)
LEMMA StreamKinds ==
    /\ Streams[<<"in", "e">>] = Flags(Count) /\ Streams[<<"kpad", "eKipad">>] = Flags(Count)
    /\ Streams[<<"in", "len">>] = call.lens /\ Streams[<<"in", "msg">>] = FlattenSeq(Bodies)
    /\ Streams[<<"kpad", "kipad">>] = [m \in Messages |-> Ipad(Keys[m])]
    /\ Streams[<<"kpad", "kopad">>] = [m \in Messages |-> Opad(Keys[m])]
    /\ Streams[<<"merge", "kopad2">>] = [m \in Messages |-> Opad(Keys[m])]
    /\ \A u \in Units :
          /\ Streams[<<u, "e">>] = Flags(Count) /\ Streams[<<u, "eHash">>] = Flags(Count)
          /\ Streams[<<u, "len">>] = Lengths[u] /\ Streams[<<u, "word">>] = FlattenSeq(Worded[u])
          /\ Streams[<<u, "nblk">>] = Append([m \in Messages |-> BlkNum(Lengths[u][m])], NoBlocks)
          /\ Streams[<<u, "blk">>] = FlattenSeq(Blocked[u])
          /\ Streams[<<u, "hash">>] = [m \in Messages |-> Digest(u, m)]
<1>1. \A c \in Chans : Streams[c] = StreamOf(c)
  BY DEF Streams
<1>2. /\ <<"in", "e">> \in Chans /\ <<"kpad", "eKipad">> \in Chans /\ <<"in", "len">> \in Chans
      /\ <<"in", "msg">> \in Chans /\ <<"kpad", "kipad">> \in Chans /\ <<"kpad", "kopad">> \in Chans
      /\ <<"merge", "kopad2">> \in Chans
      /\ \A u \in Units : /\ <<u, "e">> \in Chans /\ <<u, "eHash">> \in Chans /\ <<u, "len">> \in Chans
                          /\ <<u, "word">> \in Chans /\ <<u, "nblk">> \in Chans
                          /\ <<u, "blk">> \in Chans /\ <<u, "hash">> \in Chans
  BY DEF Chans
<1>3. StreamOf(<<"in", "e">>) = Flags(Count) /\ StreamOf(<<"kpad", "eKipad">>) = Flags(Count)
  BY DEF StreamOf
<1>4. StreamOf(<<"in", "len">>) = call.lens /\ StreamOf(<<"in", "msg">>) = FlattenSeq(Bodies)
  <2>1. "in" \notin Units
    BY DEF Units
  <2> QED
    BY <2>1 DEF StreamOf
<1>5. /\ StreamOf(<<"kpad", "kipad">>) = [m \in Messages |-> Ipad(Keys[m])]
      /\ StreamOf(<<"kpad", "kopad">>) = [m \in Messages |-> Opad(Keys[m])]
      /\ StreamOf(<<"merge", "kopad2">>) = [m \in Messages |-> Opad(Keys[m])]
  BY DEF StreamOf
<1>6. ASSUME NEW u \in Units
      PROVE  /\ StreamOf(<<u, "e">>) = Flags(Count) /\ StreamOf(<<u, "eHash">>) = Flags(Count)
             /\ StreamOf(<<u, "len">>) = Lengths[u] /\ StreamOf(<<u, "word">>) = FlattenSeq(Worded[u])
             /\ StreamOf(<<u, "nblk">>) = Append([m \in Messages |-> BlkNum(Lengths[u][m])], NoBlocks)
             /\ StreamOf(<<u, "blk">>) = FlattenSeq(Blocked[u])
             /\ StreamOf(<<u, "hash">>) = [m \in Messages |-> Digest(u, m)]
  <2>1. u # "in"
    BY DEF Units
  <2> QED
    BY <2>1 DEF StreamOf
<1>7. ASSUME NEW u \in Units
      PROVE  /\ Streams[<<u, "e">>] = Flags(Count) /\ Streams[<<u, "eHash">>] = Flags(Count)
             /\ Streams[<<u, "len">>] = Lengths[u] /\ Streams[<<u, "word">>] = FlattenSeq(Worded[u])
             /\ Streams[<<u, "nblk">>] = Append([m \in Messages |-> BlkNum(Lengths[u][m])], NoBlocks)
             /\ Streams[<<u, "blk">>] = FlattenSeq(Blocked[u])
             /\ Streams[<<u, "hash">>] = [m \in Messages |-> Digest(u, m)]
  <2>1. /\ <<u, "e">> \in Chans /\ <<u, "eHash">> \in Chans /\ <<u, "len">> \in Chans
        /\ <<u, "word">> \in Chans /\ <<u, "nblk">> \in Chans
        /\ <<u, "blk">> \in Chans /\ <<u, "hash">> \in Chans
    BY <1>2
  <2>2. /\ Streams[<<u, "e">>] = StreamOf(<<u, "e">>) /\ Streams[<<u, "eHash">>] = StreamOf(<<u, "eHash">>)
        /\ Streams[<<u, "len">>] = StreamOf(<<u, "len">>)
        /\ Streams[<<u, "word">>] = StreamOf(<<u, "word">>)
        /\ Streams[<<u, "nblk">>] = StreamOf(<<u, "nblk">>)
        /\ Streams[<<u, "blk">>] = StreamOf(<<u, "blk">>) /\ Streams[<<u, "hash">>] = StreamOf(<<u, "hash">>)
    BY <1>1, <2>1
  <2> QED
    BY <1>6, <2>2
<1>8. /\ Streams[<<"in", "e">>] = Flags(Count) /\ Streams[<<"kpad", "eKipad">>] = Flags(Count)
      /\ Streams[<<"in", "len">>] = call.lens /\ Streams[<<"in", "msg">>] = FlattenSeq(Bodies)
      /\ Streams[<<"kpad", "kipad">>] = [m \in Messages |-> Ipad(Keys[m])]
      /\ Streams[<<"kpad", "kopad">>] = [m \in Messages |-> Opad(Keys[m])]
      /\ Streams[<<"merge", "kopad2">>] = [m \in Messages |-> Opad(Keys[m])]
  BY <1>1, <1>2, <1>3, <1>4, <1>5
<1> QED
  BY <1>7, <1>8

LEMMA UnitsRight ==
    ASSUME call \in Calls
    PROVE  \A u \in Units : /\ UnitData(Lengths[u], Worded[u], Blocked[u], Count, call.w)
                            /\ Lengths[u] = [m \in 1..Count |-> Lengths[u][m]]
                            /\ \A m \in 1..Count : /\ Lengths[u][m] = Len(TextOf(u, m))
                                                   /\ Worded[u][m] = Wire(TextOf(u, m), call.w)
                                                   /\ Blocked[u][m] = Padded(TextOf(u, m))
<1> TAKE u \in Units
<1> DEFINE X == [m \in 1..Count |-> TextOf(u, m)]
           n == Count
           b == call.w
<1>1. n \in Nat /\ b \in {4, 8} /\ Messages = 1..n
  BY CallFacts
<1>2. \A m \in 1..n : X[m] = TextOf(u, m) /\ X[m] \in Seq(Int)
  BY <1>1, TextsRight
<1>3. /\ Lengths[u] = [m \in 1..n |-> Len(TextOf(u, m))]
      /\ Worded[u] = [m \in 1..n |-> Wire(TextOf(u, m), b)]
      /\ Blocked[u] = [m \in 1..n |-> Padded(TextOf(u, m))]
  BY <1>1 DEF Lengths, Worded, Blocked
<1> HIDE DEF X, n, b
<1>4. /\ [m \in 1..n |-> Len(TextOf(u, m))] = [m \in 1..n |-> Len(X[m])]
      /\ [m \in 1..n |-> Wire(TextOf(u, m), b)] = [m \in 1..n |-> Wire(X[m], b)]
      /\ [m \in 1..n |-> Padded(TextOf(u, m))] = [m \in 1..n |-> Padded(X[m])]
  BY <1>2
<1>5. UnitData([m \in 1..n |-> Len(X[m])], [m \in 1..n |-> Wire(X[m], b)],
               [m \in 1..n |-> Padded(X[m])], n, b)
  BY <1>1, <1>2, UnitRight
<1>6. UnitData(Lengths[u], Worded[u], Blocked[u], n, b)
  BY <1>3, <1>4, <1>5
<1> QED
  BY <1>3, <1>6 DEF n, b

LEMMA BodiesRight ==
    ASSUME call \in Calls
    PROVE  Carries(FlattenSeq(Bodies), Bodies, Count)
<1> DEFINE n == Count
           P == Bodies
           S == Seq(Int)
<1>1. n \in Nat /\ Messages = 1..n /\ call.w \in {4, 8}
  BY CallFacts
<1>2. P = [m \in 1..n |-> P[m]] /\ \A m \in 1..n : P[m] = Wire(Message(m), call.w)
  BY <1>1 DEF Bodies
<1>3. \A m \in 1..n : P[m] \in Seq(S)
  <2> TAKE m \in 1..n
  <2> DEFINE X == Message(m)
             b == call.w
  <2>1. X \in Seq(Int) /\ b \in {4, 8}
    BY <1>1, TextFacts
  <2> HIDE DEF X, b
  <2>2. Wire(X, b) \in Seq(Seq(Int))
    BY <2>1, WireFacts
  <2> QED
    BY <1>2, <2>2 DEF X, b
<1> HIDE DEF n, P, S
<1>4. Carries(FlattenSeq(P), P, n)
  BY <1>1, <1>2, <1>3, CarriesRight
<1> QED
  BY <1>4 DEF P, n

LEMMA StreamsRight ==
    ASSUME call \in Calls
    PROVE  Streamed(Streams, Count, Lengths, Worded, Blocked, Bodies, Keys)
<1> DEFINE n == Count
           T == Streams
<1>0. n \in Nat /\ Messages = 1..n /\ call.lens \in Seq(Nat) /\ Len(call.lens) = n
  BY CallFacts
<1>1. IsStream(Flags(n)) /\ Flagged(Flags(n), n)
  BY <1>0, FlagsFacts
<1>2. Carries(T[<<"in", "msg">>], Bodies, n)
  BY BodiesRight, StreamKinds
<1>3. Len(T[<<"in", "len">>]) = n /\ IsStream(T[<<"in", "len">>])
  BY <1>0, StreamKinds DEF IsStream
<1>4. /\ Listing(T[<<"kpad", "kipad">>], n) /\ \A m \in 1..n : T[<<"kpad", "kipad">>][m] = Ipad(Keys[m])
      /\ Listing(T[<<"merge", "kopad2">>], n)
      /\ \A m \in 1..n : T[<<"merge", "kopad2">>][m] = Opad(Keys[m])
      /\ T[<<"kpad", "kopad">>] = T[<<"merge", "kopad2">>]
  <2> DEFINE f == [m \in 1..n |-> Ipad(Keys[m])]
             g == [m \in 1..n |-> Opad(Keys[m])]
  <2>1. /\ f = [m \in 1..n |-> f[m]] /\ g = [m \in 1..n |-> g[m]]
        /\ \A m \in 1..n : f[m] = Ipad(Keys[m]) /\ g[m] = Opad(Keys[m])
    OBVIOUS
  <2>2. /\ T[<<"kpad", "kipad">>] = f /\ T[<<"kpad", "kopad">>] = g /\ T[<<"merge", "kopad2">>] = g
    BY <1>0, StreamKinds
  <2> HIDE DEF f, g, n, T
  <2>3. Listing(f, n) /\ Listing(g, n)
    BY <1>0, <2>1, ListingRight
  <2> QED
    BY <2>1, <2>2, <2>3
<1>5. ASSUME NEW u \in Units
      PROVE  /\ T[<<u, "e">>] = Flags(n) /\ T[<<u, "eHash">>] = Flags(n)
             /\ Listing(T[<<u, "len">>], n) /\ \A m \in 1..n : T[<<u, "len">>][m] = Lengths[u][m]
             /\ Carries(T[<<u, "word">>], Worded[u], n) /\ Carries(T[<<u, "blk">>], Blocked[u], n)
             /\ IsStream(T[<<u, "nblk">>])
             /\ Len(T[<<u, "nblk">>]) = n + 1 /\ T[<<u, "nblk">>][n + 1] = NoBlocks
             /\ \A m \in 1..n : T[<<u, "nblk">>][m] = BlkNum(Lengths[u][m])
             /\ Listing(T[<<u, "hash">>], n) /\ \A m \in 1..n : T[<<u, "hash">>][m] = Digest(u, m)
  <2>1. /\ T[<<u, "e">>] = Flags(n) /\ T[<<u, "eHash">>] = Flags(n)
        /\ T[<<u, "len">>] = Lengths[u] /\ T[<<u, "word">>] = FlattenSeq(Worded[u])
        /\ T[<<u, "nblk">>] = Append([m \in 1..n |-> BlkNum(Lengths[u][m])], NoBlocks)
        /\ T[<<u, "blk">>] = FlattenSeq(Blocked[u])
        /\ T[<<u, "hash">>] = [m \in 1..n |-> Digest(u, m)]
    BY <1>0, StreamKinds
  <2>2. /\ Carries(FlattenSeq(Worded[u]), Worded[u], n) /\ Carries(FlattenSeq(Blocked[u]), Blocked[u], n)
        /\ Lengths[u] = [m \in 1..n |-> Lengths[u][m]]
    BY UnitsRight DEF UnitData
  <2> DEFINE f == Lengths[u]
             g == [m \in 1..n |-> Digest(u, m)]
             h == [m \in 1..n |-> BlkNum(Lengths[u][m])]
             t == T[<<u, "nblk">>]
             x == NoBlocks
  <2>3. /\ f = [m \in 1..n |-> f[m]] /\ g = [m \in 1..n |-> g[m]] /\ h = [m \in 1..n |-> h[m]]
        /\ \A m \in 1..n : g[m] = Digest(u, m) /\ h[m] = BlkNum(f[m])
    BY <2>2
  <2>4. t = Append(h, x)
    BY <2>1
  <2>8. h = [m \in 1..n |-> h[m]]
    OBVIOUS
  <2>5. T[<<u, "len">>] = f /\ T[<<u, "hash">>] = g
    BY <2>1
  <2> HIDE DEF f, g, h, t, x, n, T
  <2>6. Listing(f, n) /\ Listing(g, n)
    BY <1>0, <2>3, ListingRight
  <2>7. Extends(t, h, x, n)
    BY <1>0, <2>4, <2>8, NblkFacts
  <2> QED
    BY <2>1, <2>2, <2>3, <2>5, <2>6, <2>7 DEF t, f, x, Extends
<1>6. T[<<"in", "e">>] = Flags(n) /\ T[<<"kpad", "eKipad">>] = Flags(n)
  BY StreamKinds
<1> HIDE DEF T, n
<1>7. ASSUME NEW c \in Chans PROVE IsStream(T[c])
  <2>1. CASE c \in Units \X {"word", "len", "e", "nblk", "blk", "hash", "eHash"}
    <3>1. PICK u \in Units : c \in {<<u, "word">>, <<u, "len">>, <<u, "e">>, <<u, "nblk">>, <<u, "blk">>,
                                    <<u, "hash">>, <<u, "eHash">>}
      BY <2>1
    <3> QED
      BY <1>1, <1>5, <3>1 DEF Listing, Carries
  <2>2. CASE c \in {"in"} \X {"e", "len", "msg"}
    <3>1. c \in {<<"in", "e">>, <<"in", "len">>, <<"in", "msg">>}
      BY <2>2
    <3> QED
      BY <1>1, <1>2, <1>3, <1>6, <3>1 DEF Carries
  <2>3. CASE c \in {"kpad"} \X {"kipad", "kopad", "eKipad"} \cup {<<"merge", "kopad2">>}
    <3>1. c \in {<<"kpad", "kipad">>, <<"kpad", "kopad">>, <<"kpad", "eKipad">>, <<"merge", "kopad2">>}
      BY <2>3
    <3> QED
      BY <1>1, <1>4, <1>6, <3>1 DEF Listing
  <2> QED
    BY <2>1, <2>2, <2>3 DEF Chans
<1>8. Streamed(T, n, Lengths, Worded, Blocked, Bodies, Keys)
  BY <1>1, <1>2, <1>3, <1>4, <1>5, <1>6, <1>7 DEF Streamed, Listing
<1> QED
  BY <1>8 DEF T, n

LEMMA MergedRight ==
    ASSUME call \in Calls
    PROVE  Merged(Streams, Count, call.w, PadWords, call.keyLen, Lengths, Worded, Bodies, Keys)
<1> DEFINE n == Count
           b == call.w
<1>0. /\ n \in Nat /\ Messages = 1..n /\ Streams[<<"in", "len">>] = call.lens
      /\ b \in {4, 8} /\ BlockBytes \in Nat /\ HashBytes \in Nat
  BY CallFacts, StreamKinds, BlockFacts
<1>1. ASSUME NEW m \in 1..n
      PROVE  /\ Headed(Worded["msg"][m], Cut(Ipad(Keys[m]), b), Bodies[m], PadWords)
             /\ call.lens[m] \in Nat /\ Lengths["msg"][m] = call.lens[m] + BlockBytes
             /\ Len(Bodies[m]) = Words(call.lens[m], b)
             /\ Headed(Worded["res"][m], Cut(Opad(Keys[m]), b), Wire(Digest("msg", m), b), PadWords)
             /\ Lengths["res"][m] = BlockBytes + HashBytes /\ Lengths["key"][m] = call.keyLen
  <2> DEFINE K == PaddedKey(m)
             Y == Message(m)
             D == Digest("msg", m)
             f == Keys[m]
             l == call.lens[m]
  <2>1. /\ TextOf("key", m) = Key(m) /\ TextOf("msg", m) = Ipad(K) \o Y /\ TextOf("res", m) = Opad(K) \o D
        /\ PadIs(f, Ipad(K), Y, Ipad(f), b) /\ PadIs(f, Opad(K), D, Opad(f), b)
    BY <1>0, TextsRight
  <2>2. /\ Len(Key(m)) = call.keyLen /\ Y \in Seq(Int) /\ Len(Y) = l /\ D \in Seq(Int) /\ Len(D) = HashBytes
    BY <1>0, TextFacts
  <2>3. l \in Nat
    BY <1>0, CallFacts
  <2>4. /\ "key" \in Units /\ "msg" \in Units /\ "res" \in Units
    BY DEF Units
  <2>5. /\ Lengths["key"][m] = Len(Key(m)) /\ Lengths["msg"][m] = Len(Ipad(K) \o Y)
        /\ Lengths["res"][m] = Len(Opad(K) \o D)
        /\ Worded["msg"][m] = Wire(Ipad(K) \o Y, b) /\ Worded["res"][m] = Wire(Opad(K) \o D, b)
    <3>1. ASSUME NEW u \in Units
          PROVE  Lengths[u][m] = Len(TextOf(u, m)) /\ Worded[u][m] = Wire(TextOf(u, m), b)
      BY <1>0, UnitsRight
    <3>2. /\ Lengths["key"][m] = Len(TextOf("key", m)) /\ Lengths["msg"][m] = Len(TextOf("msg", m))
          /\ Lengths["res"][m] = Len(TextOf("res", m))
          /\ Worded["msg"][m] = Wire(TextOf("msg", m), b) /\ Worded["res"][m] = Wire(TextOf("res", m), b)
      BY <2>4, <3>1
    <3> HIDE DEF K, Y, D, f, l, b, n
    <3> QED
      BY <2>1, <3>2
  <2>6. Bodies[m] = Wire(Y, b)
    BY <1>0 DEF Bodies
  <2>7. PadWords = BlockBytes \div b
    BY DEF PadWords
  <2> HIDE DEF K, Y, D, f, l, b, n
  <2>8. Len(Wire(Y, b)) = Words(Len(Y), b)
    BY <1>0, <2>2, WireFacts
  <2>9. Headed(Worded["msg"][m], Cut(Ipad(f), b), Bodies[m], PadWords)
    BY <2>1, <2>5, <2>6, <2>7 DEF PadIs
  <2>10. Headed(Worded["res"][m], Cut(Opad(f), b), Wire(D, b), PadWords)
    BY <2>1, <2>5, <2>7 DEF PadIs
  <2>11. Lengths["msg"][m] = l + BlockBytes /\ Lengths["res"][m] = BlockBytes + HashBytes
    <3>1. Len(Ipad(K) \o Y) = BlockBytes + Len(Y) /\ Len(Opad(K) \o D) = BlockBytes + Len(D)
      BY <2>1 DEF PadIs
    <3> QED
      BY <1>0, <2>2, <2>3, <2>5, <3>1
  <2>12. Len(Bodies[m]) = Words(l, b)
    BY <2>2, <2>6, <2>8
  <2> QED
    BY <2>2, <2>3, <2>5, <2>9, <2>10, <2>11, <2>12 DEF f, D, l
<1> QED
  BY <1>0, <1>1 DEF Merged

LEMMA NetDataRight ==
    ASSUME call \in Calls
    PROVE  NetData(Streams, Count, call.w, PadWords, call.keyLen, Lengths, Worded, Blocked, Bodies, Keys)
BY CallFacts, UnitsRight, StreamsRight, MergedRight DEF NetData

(* genPad builds the key of the pads from the hash of a long key, in front *)
(* and with zeros behind ...                                               *)
LongPad(h, b) == FlattenSeq(Wire(h, b)) \o Zeros(BlockBytes - HashBytes)

LEMMA LongPadIs ==
    ASSUME NEW b \in {4, 8}, NEW m \in Nat, NEW X \in Seq(Int), Len(X) = m * b, m * b = HashBytes,
           HashBytes \in Nat, HashBytes <= BlockBytes
    PROVE  LongPad(X, b) = FlattenSeq(Wire(UpTo(X, BlockBytes), b))
<1> DEFINE f == FlattenSeq(Wire(X, b))
           d == BlockBytes - HashBytes
           z == Zeros(d)
           k1 == f \o z
           h == HashBytes
<1>1. BlockBytes \in Nat /\ d \in Nat /\ h \in Nat /\ h + d = BlockBytes /\ m * b = h
  BY BlockFacts
<1>2. f \in Seq(Int) /\ Len(f) = h
  BY WireFlipped DEF Flipped
<1> HIDE DEF f, d
<1>3. z \in Seq(Int) /\ Len(z) = d /\ \A i \in 1..d : z[i] = 0
  BY <1>1, ZerosFacts
<1> HIDE DEF z
<1>4. Behind(Int, k1, f, z)
  BY <1>2, <1>3, JoinedBehind
<1> HIDE DEF k1, h
<1>5. k1 \in Seq(Int) /\ Len(k1) = BlockBytes /\ \A p \in 1..BlockBytes : k1[p] = IF p <= h THEN f[p] ELSE 0
  <2>1. k1 \in Seq(Int) /\ Len(k1) = BlockBytes
    BY <1>1, <1>2, <1>3, <1>4 DEF Behind
  <2>2. ASSUME NEW p \in 1..BlockBytes PROVE k1[p] = IF p <= h THEN f[p] ELSE 0
    <3>1. k1[p] = IF p <= h THEN f[p] ELSE z[p - h]
      BY <1>2, <1>4, <2>1 DEF Behind
    <3>2. CASE ~(p <= h)
      <4>1. p - h \in 1..d
        BY <1>1, <3>2
      <4> QED
        BY <1>3, <3>1, <3>2, <4>1
    <3> QED
      BY <3>1, <3>2
  <2> QED
    BY <2>1, <2>2
<1>6. InFront(k1, FlattenSeq(Wire(X, b)), Len(X))
  BY <1>1, <1>5 DEF f, InFront, h
<1>7. Len(X) <= BlockBytes /\ WholeWord(Len(X), m, b)
  BY <1>1 DEF WholeWord, h
<1>8. k1 = FlattenSeq(Wire(UpTo(X, BlockBytes), b))
  BY <1>6, <1>7, FilledKey
<1> QED
  BY <1>8 DEF k1, f, z, d, LongPad

(* With a long key, k1 is the padded key from the wire, the last byte      *)
(* first in each word, as the pads expect it.                              *)
THEOREM LongKeyRight ==
    ASSUME call \in Calls, LongKey
    PROVE  \A m \in Messages : LongPad(Digest("key", m), call.w) = Keys[m]
<1> TAKE m \in Messages
<1> DEFINE b == call.w
           X == Digest("key", m)
           k == HashBytes \div b
<1>1. b \in {4, 8} /\ HashBytes \in Nat /\ HashBytes % 8 = 0 /\ HashBytes <= BlockBytes
  BY CallFacts
<1>2. X \in Seq(Int) /\ Len(X) = HashBytes
  BY TextFacts
<1>3. Keys[m] = FlattenSeq(Wire(UpTo(X, BlockBytes), b))
  BY DEF Keys, PaddedKey
<1>4. k \in Nat /\ k * b = HashBytes
  <2>1. CASE b = 4
    BY <1>1, <2>1
  <2>2. CASE b = 8
    BY <1>1, <2>2
  <2> QED
    BY <1>1, <2>1, <2>2
<1> HIDE DEF b, X, k
<1>5. LongPad(X, b) = FlattenSeq(Wire(UpTo(X, BlockBytes), b))
  BY <1>1, <1>2, <1>4, LongPadIs
<1> QED
  BY <1>3, <1>5 DEF X, b

(* ... and from the words of a short one: shifting them in at the place    *)
(* where the key ends puts the key in front, for a key of whole words.     *)
THEOREM ShortKeyRight ==
    ASSUME call \in Calls, ~LongKey
    PROVE  \A m \in Messages : FoldLeft(ShiftIn, Zeros(BlockBytes), Wire(Key(m), call.w)) = Keys[m]
<1> TAKE m \in Messages
<1> DEFINE b == call.w
           l == call.keyLen
           X == Key(m)
           n == l \div b
           s == Wire(X, b)
           g == CHOOSE f : Filling(s, l, b, DOMAIN s, f)
<1>1. b \in {4, 8} /\ l \in Nat /\ l <= BlockBytes /\ l % b = 0
  BY CallFacts
<1>2. X \in Seq(Int) /\ Len(X) = l
  BY TextFacts
<1>3. n \in Nat /\ n * b = l
  <2>1. CASE b = 4
    BY <1>1, <2>1
  <2>2. CASE b = 8
    BY <1>1, <2>2
  <2> QED
    BY <1>1, <2>1, <2>2
<1>4. FoldLeft(ShiftIn, Zeros(BlockBytes), s) = g[DOMAIN s]
  BY DEF FoldLeft, MapThenFoldSet, Max, Filling, Put, MaxOf, ShiftIn, Shifted
<1>5. DOMAIN s = 1..n
  <2> HIDE DEF b, l, X, n
  <2>1. Words(Len(X), b) = n
    BY <1>1, <1>2, <1>3, WholeWords
  <2>2. s \in Seq(Seq(Int)) /\ Len(s) = n
    BY <1>1, <1>2, <2>1, WireFacts
  <2> QED
    BY <2>2
<1>6. Filling(s, l, b, 1..n, g)
  <2> HIDE DEF s, l, b, n
  <2>1. \E f : Filling(s, l, b, 1..n, f)
    BY <1>3, FillingExists
  <2> QED
    BY <1>5, <2>1
<1>7. Keys[m] = FlattenSeq(Wire(UpTo(X, BlockBytes), b))
  BY DEF Keys, PaddedKey
<1> HIDE DEF b, l, X, n, g
<1>8. Holds(g, n, X, b)
  <2>1. WholeWord(l, n, b) /\ Len(X) = l
    BY <1>2, <1>3 DEF WholeWord
  <2>2. Filling(Wire(X, b), l, b, 1..n, g)
    BY <1>6
  <2> QED
    BY <1>1, <1>2, <1>3, <2>1, <2>2, ShortKey
<1> QED
  BY <1>4, <1>5, <1>7, <1>8 DEF X, b, Holds

-----------------------------------------------------------------------------
(* FIFOs.                                                                  *)

LEMMA StreamLen == ASSUME NEW t, IsStream(t) PROVE Len(t) \in Nat
BY DEF IsStream

LEMMA FifoFacts ==
    ASSUME NEW t, IsStream(t), NEW r \in Nat, NEW w \in Nat, NEW s, Fifo(s, t, r, w)
    PROVE  /\ IsStream(s) /\ Len(s) = w - r /\ \A k \in 1..w - r : s[k] = t[r + k]
           /\ s # << >> => r < w /\ Head(s) = t[r + 1] /\ Fifo(Tail(s), t, r + 1, w)
           /\ s = << >> => r = w
           /\ w < Len(t) => Fifo(Append(s, t[w + 1]), t, r, w + 1)
<1>1. PICK S : t \in Seq(S)
  BY DEF IsStream
<1>2. r <= w /\ w <= Len(t) /\ s = SubSeq(t, r + 1, w) /\ Len(t) \in Nat
  BY <1>1 DEF Fifo
<1>3. s \in Seq(S) /\ Len(s) = w - r /\ \A k \in 1..w - r : s[k] = t[r + k]
  BY <1>1, <1>2, SliceFacts
<1>4. ASSUME s # << >> PROVE r < w /\ Head(s) = t[r + 1] /\ Fifo(Tail(s), t, r + 1, w)
  <2>1. r < w
    <3>1. Len(s) # 0
      BY <1>3, <1>4
    <3> QED
      BY <1>2, <1>3, <3>1
  <2>2. Head(s) = t[r + 1] /\ Tail(s) = SubSeq(t, (r + 1) + 1, w)
    BY <1>1, <1>2, <2>1, SliceHead
  <2>3. r + 1 <= w
    BY <2>1
  <2> QED
    BY <1>2, <2>1, <2>2, <2>3 DEF Fifo
<1>5. ASSUME s = << >> PROVE r = w
  BY <1>2, <1>3, <1>5
<1>6. ASSUME w < Len(t) PROVE Fifo(Append(s, t[w + 1]), t, r, w + 1)
  <2>1. Append(s, t[w + 1]) = SubSeq(t, r + 1, w + 1)
    BY <1>1, <1>2, <1>6, SliceAppend
  <2>2. r <= w + 1 /\ w + 1 <= Len(t)
    BY <1>2, <1>6
  <2> QED
    BY <2>1, <2>2 DEF Fifo
<1>7. IsStream(s)
  BY <1>3 DEF IsStream
<1> QED
  BY <1>3, <1>4, <1>5, <1>6, <1>7

Bump(f, cs) == [c \in Chans |-> IF c \in cs THEN f[c] + 1 ELSE f[c]]

(* One element from each of gets, the next of its stream to each of puts.  *)
Stepped(Q2, Q, T, w, gets, puts) ==
    /\ \A c \in gets : Q[c] # << >> /\ Q2[c] = Tail(Q[c])
    /\ \A c \in puts : w[c] < Len(T[c]) /\ Q2[c] = Append(Q[c], T[c][w[c] + 1])
    /\ \A c \in Chans \ (gets \cup puts) : Q2[c] = Q[c]

(* The same, as one fact about one FIFO.                                   *)
FifoAt(s, t, r, w) == IsStream(t) /\ r \in Nat /\ w \in Nat /\ Fifo(s, t, r, w)

FifoView(s, t, r, w) ==
    /\ IsStream(s) /\ Len(s) = w - r /\ \A k \in 1..w - r : s[k] = t[r + k]
    /\ s # << >> => r < w /\ Head(s) = t[r + 1] /\ Fifo(Tail(s), t, r + 1, w)
    /\ s = << >> => r = w
    /\ w < Len(t) => Fifo(Append(s, t[w + 1]), t, r, w + 1)

LEMMA FifoSeen ==
    ASSUME NEW s, NEW t, NEW r, NEW w, FifoAt(s, t, r, w)
    PROVE  FifoView(s, t, r, w)
BY FifoFacts DEF FifoAt, FifoView

LEMMA BumpFacts ==
    ASSUME NEW f \in [Chans -> Nat], NEW cs
    PROVE  /\ Bump(f, cs) \in [Chans -> Nat]
           /\ \A c \in Chans : Bump(f, cs)[c] = IF c \in cs THEN f[c] + 1 ELSE f[c]
BY DEF Bump

LEMMA FlowMoves ==
    ASSUME NEW T, \A c \in Chans : IsStream(T[c]),
           NEW r \in [Chans -> Nat], NEW w \in [Chans -> Nat], NEW Q, Flow(Q, T, r, w),
           NEW gets, NEW puts, gets \cap puts = {}, NEW Q2, Stepped(Q2, Q, T, w, gets, puts)
    PROVE  Flow(Q2, T, Bump(r, gets), Bump(w, puts))
<1> SUFFICES ASSUME NEW c \in Chans PROVE Fifo(Q2[c], T[c], Bump(r, gets)[c], Bump(w, puts)[c])
  BY DEF Flow
<1>1. IsStream(T[c]) /\ r[c] \in Nat /\ w[c] \in Nat /\ Fifo(Q[c], T[c], r[c], w[c])
  BY DEF Flow
<1>2. CASE c \in gets
  <2>1. Bump(r, gets)[c] = r[c] + 1 /\ Bump(w, puts)[c] = w[c]
    BY <1>2, BumpFacts
  <2>2. Q[c] # << >> /\ Q2[c] = Tail(Q[c])
    BY <1>2 DEF Stepped
  <2>3. Fifo(Tail(Q[c]), T[c], r[c] + 1, w[c])
    BY <1>1, <2>2, FifoFacts
  <2> QED
    BY <2>1, <2>2, <2>3
<1>3. CASE c \in puts
  <2>1. Bump(r, gets)[c] = r[c] /\ Bump(w, puts)[c] = w[c] + 1
    BY <1>3, BumpFacts
  <2>2. w[c] < Len(T[c]) /\ Q2[c] = Append(Q[c], T[c][w[c] + 1])
    BY <1>3 DEF Stepped
  <2>3. Fifo(Append(Q[c], T[c][w[c] + 1]), T[c], r[c], w[c] + 1)
    BY <1>1, <2>2, FifoFacts
  <2> QED
    BY <2>1, <2>2, <2>3
<1>4. CASE c \notin gets \cup puts
  <2>1. Bump(r, gets)[c] = r[c] /\ Bump(w, puts)[c] = w[c]
    BY <1>4, BumpFacts
  <2>2. Q2[c] = Q[c]
    BY <1>4 DEF Stepped
  <2> QED
    BY <1>1, <2>1, <2>2
<1> QED
  BY <1>2, <1>3, <1>4

Legible(T, Q, r, w) ==
    \A c \in Chans :
       /\ r[c] \in Nat /\ w[c] \in Nat /\ Len(T[c]) \in Nat /\ r[c] <= w[c] /\ w[c] <= Len(T[c])
       /\ Q[c] # << >> => r[c] < w[c] /\ Head(Q[c]) = T[c][r[c] + 1]

LEMMA Readable ==
    ASSUME NEW T, \A c \in Chans : IsStream(T[c]),
           NEW r \in [Chans -> Nat], NEW w \in [Chans -> Nat], NEW Q, Flow(Q, T, r, w)
    PROVE  Legible(T, Q, r, w)
<1> SUFFICES ASSUME NEW c \in Chans
             PROVE  /\ r[c] \in Nat /\ w[c] \in Nat /\ Len(T[c]) \in Nat /\ r[c] <= w[c] /\ w[c] <= Len(T[c])
                    /\ Q[c] # << >> => r[c] < w[c] /\ Head(Q[c]) = T[c][r[c] + 1]
  BY DEF Legible
<1>1. IsStream(T[c]) /\ r[c] \in Nat /\ w[c] \in Nat /\ Fifo(Q[c], T[c], r[c], w[c])
  BY DEF Flow
<1>2. Q[c] # << >> => r[c] < w[c] /\ Head(Q[c]) = T[c][r[c] + 1]
  BY <1>1, FifoFacts
<1> QED
  BY <1>1, <1>2, StreamLen DEF Fifo

-----------------------------------------------------------------------------
(* preProcessing, step by step.                                            *)

(* A part of a stream: where it stands, and that it ends inside.           *)
(* Where sequence e of several is in a stream that carries them.           *)
Placing(P, t, e) ==
    /\ Upto(P, e - 1) \in Nat /\ Upto(P, e) \in Nat /\ Len(P[e]) \in Nat /\ IsStream(P[e])
    /\ Upto(P, e) = Upto(P, e - 1) + Len(P[e]) /\ Upto(P, e) <= Len(t) /\ Len(t) \in Nat
    /\ \A k \in 1..Len(P[e]) : t[Upto(P, e - 1) + k] = P[e][k]

LEMMA PartPlace ==
    ASSUME NEW n \in Nat, NEW P, NEW t, Carries(t, P, n), NEW e \in 1..n
    PROVE  /\ Upto(P, e - 1) \in Nat /\ Upto(P, e) \in Nat /\ Len(P[e]) \in Nat /\ IsStream(P[e])
           /\ Upto(P, e) = Upto(P, e - 1) + Len(P[e]) /\ Upto(P, e) <= Len(t) /\ Len(t) \in Nat
           /\ \A k \in 1..Len(P[e]) : t[Upto(P, e - 1) + k] = P[e][k]
<1>1. e \in 0..n /\ e - 1 \in 0..n
  OBVIOUS
<1> QED
  BY <1>1, StreamLen DEF Carries, Sums

LEMMA PlacingOf ==
    ASSUME NEW n \in Nat, NEW P, NEW t, Carries(t, P, n), NEW e \in 1..n
    PROVE  Placing(P, t, e)
BY PartPlace DEF Placing

LEMMA PreFlagAt ==
    ASSUME NEW n \in Nat, NEW b, NEW L, NEW P, NEW Q, UnitData(L, P, Q, n, b),
           NEW p, NEW e, NEW len, NEW word, NEW nblk, NEW blk,
           PreAt(L, P, Q, b, n, p, e, len, word, nblk, blk), p.pc = "flag", e + 1 <= n,
           NEW p2, p2 = [pc |-> "block", len |-> L[e + 1], j |-> 0, buf |-> << >>]
    PROVE  PreAt(L, P, Q, b, n, p2, e + 1, len + 1, word, nblk + 1, blk)
<1>1. e \in 0..n /\ len = e /\ nblk = e /\ word = Upto(P, e) /\ blk = Upto(Q, e)
  BY DEF PreAt
<1> DEFINE d == e + 1
<1>2. d \in 1..n /\ d - 1 = e
  BY <1>1
<1>3. /\ p2.pc = "block" /\ p2.len = L[d] /\ p2.j = 0 /\ p2.buf = << >>
      /\ p2 = [pc |-> p2.pc, len |-> p2.len, j |-> p2.j, buf |-> p2.buf]
  OBVIOUS
<1> HIDE DEF d
<1>4. Blockwise(L[d], P[d], Q[d], b) /\ Carries(FlattenSeq(P), P, n) /\ Carries(FlattenSeq(Q), Q, n)
  BY <1>2 DEF UnitData
<1>5. /\ Len(Q[d]) \in Nat \ {0} /\ Start(L[d], b, 0) = 0
      /\ WordsOf(L[d], b, 0) \in Nat /\ IsStream(P[d]) /\ Upto(P, e) \in Nat /\ Upto(Q, e) \in Nat
  <2>1. /\ Len(Q[d]) \in Nat \ {0} /\ Start(L[d], b, 0) = 0
        /\ \A j \in 0..Len(Q[d]) - 1 : WordsOf(L[d], b, j) \in Nat
    BY <1>4 DEF Blockwise
  <2>2. 0 \in 0..Len(Q[d]) - 1
    BY <2>1
  <2>3. WordsOf(L[d], b, 0) \in Nat
    BY <2>1, <2>2
  <2> QED
    BY <1>2, <1>4, <2>1, <2>3, PartPlace
<1>6. SubSeq(P[d], 0 + 1, 0 + 0) = << >>
  BY <1>5, SliceEmpty DEF IsStream
<1>7. Len(p2.buf) = 0
  BY <1>3
<1> QED
  BY <1>1, <1>2, <1>3, <1>5, <1>6, <1>7 DEF PreAt, d

(* Where preProcessing stands in the block it reads: s words of the        *)
(* message came before the block, k of its m words are here.               *)
Inside(P, Q, s, k, m, l, j, e, word, blk) ==
    /\ j \in 0..Len(Q[e]) - 1 /\ s \in Nat /\ k \in Nat /\ m \in Nat /\ k <= m /\ s + m <= Len(P[e])
    /\ Len(P[e]) \in Nat /\ IsStream(P[e]) /\ Len(Q[e]) \in Nat /\ IsStream(Q[e])
    /\ Upto(P, e - 1) \in Nat /\ word = Upto(P, e - 1) + s + k
    /\ Upto(Q, e - 1) \in Nat /\ blk = Upto(Q, e - 1) + j
    /\ Upto(P, e) = Upto(P, e - 1) + Len(P[e]) /\ Upto(Q, e) = Upto(Q, e - 1) + Len(Q[e])

PreBlocks(L, P, Q, b, n, p, e, len, word, nblk, blk, s, k, m) ==
    /\ e \in 1..n /\ len = e /\ nblk = e /\ p.len = L[e]
    /\ Inside(P, Q, s, k, m, p.len, p.j, e, word, blk)
    /\ s + m = Start(p.len, b, p.j + 1) /\ p.buf = SubSeq(P[e], s + 1, s + k)

LEMMA PreInside ==
    ASSUME NEW n \in Nat, NEW b, NEW L, NEW P, NEW Q, UnitData(L, P, Q, n, b),
           NEW p, NEW e, NEW len, NEW word, NEW nblk, NEW blk,
           PreAt(L, P, Q, b, n, p, e, len, word, nblk, blk), p.pc = "block"
    PROVE  PreBlocks(L, P, Q, b, n, p, e, len, word, nblk, blk,
                     Start(p.len, b, p.j), Len(p.buf), WordsOf(p.len, b, p.j))
<1> DEFINE l == p.len
           j == p.j
           s == Start(l, b, j)
           k == Len(p.buf)
           m == WordsOf(l, b, j)
           ws == P[e]
           bs == Q[e]
<1>1. /\ e \in 1..n /\ len = e /\ nblk = e /\ l = L[e] /\ j \in 0..Len(bs) - 1
      /\ k \in 0..m /\ p.buf = SubSeq(ws, s + 1, s + k)
      /\ word = Upto(P, e - 1) + s + k /\ blk = Upto(Q, e - 1) + j
  BY DEF PreAt
<1>2. Blockwise(L[e], ws, bs, b) /\ Carries(FlattenSeq(P), P, n) /\ Carries(FlattenSeq(Q), Q, n)
  BY <1>1 DEF UnitData
<1> HIDE DEF l, j, ws, bs, k
<1>3. s \in Nat /\ m \in Nat /\ s + m = Start(l, b, j + 1) /\ s + m <= Len(ws)
  BY <1>1, <1>2 DEF Blockwise
<1> USE DEF ws, bs
<1>4. Upto(P, e - 1) \in Nat /\ Len(ws) \in Nat /\ IsStream(ws) /\ Upto(P, e) = Upto(P, e - 1) + Len(ws)
  BY <1>1, <1>2, PartPlace
<1>5. Upto(Q, e - 1) \in Nat /\ Len(bs) \in Nat /\ IsStream(bs) /\ Upto(Q, e) = Upto(Q, e - 1) + Len(bs)
  BY <1>1, <1>2, PartPlace
<1> HIDE DEF s, m, ws, bs
<1>6. k \in Nat /\ k <= m
  BY <1>1, <1>3
<1>7. Inside(P, Q, s, k, m, l, j, e, word, blk)
  BY <1>1, <1>3, <1>4, <1>5, <1>6 DEF Inside, ws, bs
<1>8. PreBlocks(L, P, Q, b, n, p, e, len, word, nblk, blk, s, k, m)
  BY <1>1, <1>3, <1>7 DEF PreBlocks, l, j, ws
<1> QED
  BY <1>8 DEF s, k, m, l, j

(* One more word of a message.                                             *)
OneMore(P, s, k, m, e, word, buf) ==
    /\ buf = SubSeq(P[e], s + 1, s + k) /\ Len(buf) = k /\ k \in 0..m
    /\ word = Upto(P, e - 1) + s + k

Among(n, e, k, m) == n \in Nat /\ e \in 1..n /\ k < m

LEMMA InsideNext ==
    ASSUME NEW P, NEW Q, NEW s, NEW k, NEW m, NEW l, NEW j, NEW e, NEW word, NEW blk, NEW n,
           Inside(P, Q, s, k, m, l, j, e, word, blk), Among(n, e, k, m), NEW t, Carries(t, P, n),
           NEW buf, buf = SubSeq(P[e], s + 1, s + k)
    PROVE  OneMore(P, s, k + 1, m, e, word + 1, Append(buf, t[word + 1]))
<1>0. n \in Nat /\ e \in 1..n /\ k < m
  BY DEF Among
<1> DEFINE x == t[word + 1]
           ws == P[e]
           u == Upto(P, e - 1)
           v == s + k
<1>1. /\ s \in Nat /\ k \in Nat /\ m \in Nat /\ s + m <= Len(ws) /\ Len(ws) \in Nat /\ IsStream(ws)
      /\ u \in Nat /\ word = u + s + k
  BY DEF Inside
<1>2. \A i \in 1..Len(ws) : t[u + i] = ws[i]
  <2>1. Placing(P, t, e)
    BY <1>0, PlacingOf
  <2> QED
    BY <2>1 DEF Placing
<1> HIDE DEF ws, u
<1>3. v \in Nat /\ s <= v /\ v < Len(ws) /\ v - s = k /\ v + 1 \in 1..Len(ws)
      /\ word + 1 = u + (v + 1) /\ v + 1 = s + (k + 1)
  BY <1>0, <1>1
<1>4. x = ws[v + 1]
  BY <1>2, <1>3
<1> HIDE DEF x, v
<1>5. PICK S : ws \in Seq(S)
  BY <1>1 DEF IsStream
<1>6. Append(SubSeq(ws, s + 1, v), ws[v + 1]) = SubSeq(ws, s + 1, v + 1)
  BY <1>1, <1>3, <1>5, SliceAppend
<1>7. SubSeq(ws, s + 1, v) \in Seq(S) /\ Len(SubSeq(ws, s + 1, v)) = v - s
  BY <1>1, <1>3, <1>5, SliceFacts
<1>8. x \in S
  BY <1>3, <1>4, <1>5
<1>9. buf = SubSeq(ws, s + 1, v)
  BY DEF ws, v
<1>10. Append(buf, x) = SubSeq(ws, s + 1, s + (k + 1))
  BY <1>3, <1>4, <1>6, <1>9
<1>11. Len(Append(buf, x)) = k + 1
  <2>1. buf \in Seq(S) /\ Len(buf) = k
    BY <1>3, <1>7, <1>9
  <2> QED
    BY <1>8, <2>1
<1>12. k + 1 \in 0..m /\ word + 1 = u + s + (k + 1)
  BY <1>0, <1>1
<1> QED
  BY <1>10, <1>11, <1>12 DEF x, ws, u, OneMore

LEMMA PreReadAt ==
    ASSUME NEW n \in Nat, NEW b, NEW L, NEW P, NEW Q, UnitData(L, P, Q, n, b),
           NEW p, NEW e, NEW len, NEW word, NEW nblk, NEW blk,
           PreAt(L, P, Q, b, n, p, e, len, word, nblk, blk), p.pc = "block",
           Len(p.buf) < WordsOf(p.len, b, p.j), NEW t, Carries(t, P, n),
           NEW p2, p2 = [pc |-> p.pc, len |-> p.len, j |-> p.j, buf |-> Append(p.buf, t[word + 1])]
    PROVE  PreAt(L, P, Q, b, n, p2, e, len, word + 1, nblk, blk)
<1> DEFINE s == Start(p.len, b, p.j)
           k == Len(p.buf)
           m == WordsOf(p.len, b, p.j)
           x == t[word + 1]
           buf == p.buf
           l == p.len
           j == p.j
           z == Append(buf, x)
<1>0. k < m
  OBVIOUS
<1>1. /\ p2.pc = "block" /\ p2.len = l /\ p2.j = j /\ p2.buf = z
      /\ p2 = [pc |-> p2.pc, len |-> p2.len, j |-> p2.j, buf |-> p2.buf]
  OBVIOUS
<1>2. PreBlocks(L, P, Q, b, n, p, e, len, word, nblk, blk, s, k, m)
  BY PreInside
<1> HIDE DEF s, k, m
<1>3. /\ Inside(P, Q, s, k, m, l, j, e, word, blk) /\ e \in 1..n /\ buf = SubSeq(P[e], s + 1, s + k)
      /\ len = e /\ nblk = e /\ l = L[e]
  BY <1>2 DEF PreBlocks
<1>4. s = Start(l, b, j) /\ m = WordsOf(l, b, j)
  BY DEF s, m
<1> HIDE DEF l, j, buf
<1>5. OneMore(P, s, k + 1, m, e, word + 1, z)
  <2>1. Among(n, e, k, m)
    BY <1>0, <1>3 DEF Among
  <2> HIDE DEF x
  <2> QED
    BY <1>3, <2>1, InsideNext DEF x
<1> HIDE DEF z
<1> DEFINE y == k + 1
<1>6. z = SubSeq(P[e], s + 1, s + y) /\ Len(z) = y /\ y \in 0..m /\ word + 1 = Upto(P, e - 1) + s + y
  BY <1>5 DEF OneMore
<1> HIDE DEF y
<1>7. j \in 0..Len(Q[e]) - 1 /\ blk = Upto(Q, e - 1) + j
  BY <1>3 DEF Inside
<1> QED
  BY <1>1, <1>3, <1>4, <1>6, <1>7 DEF PreAt

(* The words of a block are here, and there is another or there is none.   *)
AllHere(P, Q, l, b, j, e, word, blk, t) ==
    /\ blk < Len(t) /\ t[blk + 1] = Q[e][j + 1]
    /\ j + 1 = BlocksSent(l) => word = Upto(P, e) /\ blk + 1 = Upto(Q, e)
    /\ j + 1 # BlocksSent(l) =>
          /\ j + 1 \in 0..Len(Q[e]) - 1 /\ WordsOf(l, b, j + 1) \in Nat
          /\ SubSeq(P[e], Start(l, b, j + 1) + 1, Start(l, b, j + 1) + 0) = << >>
          /\ word = Upto(P, e - 1) + Start(l, b, j + 1) + 0
          /\ blk + 1 = Upto(Q, e - 1) + (j + 1)

BlockOf(l, b, j, s, m, n, e) ==
    n \in Nat /\ e \in 1..n /\ s = Start(l, b, j) /\ m = WordsOf(l, b, j)

LEMMA InsideLast ==
    ASSUME NEW P, NEW Q, NEW s, NEW m, NEW l, NEW j, NEW e, NEW word, NEW blk, NEW n, NEW b,
           Inside(P, Q, s, m, m, l, j, e, word, blk), BlockOf(l, b, j, s, m, n, e),
           NEW t, Carries(t, Q, n), Blockwise(l, P[e], Q[e], b)
    PROVE  AllHere(P, Q, l, b, j, e, word, blk, t)
<1>0. n \in Nat /\ e \in 1..n /\ s = Start(l, b, j) /\ m = WordsOf(l, b, j)
  BY DEF BlockOf
<1> DEFINE ws == P[e]
           bs == Q[e]
           u == Upto(P, e - 1)
           v == Upto(Q, e - 1)
           f == Start(l, b, j + 1)
           N == Len(bs)
           M == Len(ws)
<1>1. /\ j \in 0..N - 1 /\ s \in Nat /\ m \in Nat /\ M \in Nat /\ N \in Nat /\ IsStream(ws)
      /\ u \in Nat /\ v \in Nat /\ word = u + s + m /\ blk = v + j
      /\ Upto(P, e) = u + M /\ Upto(Q, e) = v + N
  BY DEF Inside
<1>2. /\ BlocksSent(l) = N /\ Start(l, b, N) = M /\ s + m = f
      /\ \A i \in 0..N - 1 : Start(l, b, i) \in Nat /\ WordsOf(l, b, i) \in Nat
      /\ f <= M
  BY <1>0, <1>1 DEF Blockwise
<1>3. (\A i \in 1..N : t[v + i] = bs[i]) /\ v + N <= Len(t) /\ Len(t) \in Nat
  <2>1. /\ \A i \in 1..Len(Q[e]) : t[Upto(Q, e - 1) + i] = Q[e][i]
        /\ Upto(Q, e) <= Len(t) /\ Len(t) \in Nat
    BY <1>0, PartPlace
  <2> QED
    BY <1>1, <2>1
<1> HIDE DEF ws, bs, u, v, N, M
<1>4. blk < Len(t) /\ t[blk + 1] = bs[j + 1]
  <2> DEFINE i == j + 1
  <2>1. i \in 1..N /\ blk + 1 = v + i /\ blk < v + N /\ blk \in Nat
    BY <1>1
  <2> HIDE DEF i
  <2>2. t[blk + 1] = bs[i]
    BY <1>3, <2>1
  <2>3. blk < Len(t)
    BY <1>1, <1>3, <2>1
  <2> QED
    BY <2>2, <2>3 DEF i
<1>5. ASSUME j + 1 = N PROVE word = u + M /\ blk + 1 = v + N
  <2>1. f = M
    BY <1>2, <1>5
  <2> HIDE DEF f
  <2> QED
    BY <1>1, <1>2, <1>5, <2>1
<1>6. ASSUME j + 1 # N
      PROVE  /\ j + 1 \in 0..N - 1 /\ WordsOf(l, b, j + 1) \in Nat
             /\ SubSeq(ws, f + 1, f + 0) = << >> /\ word = u + f + 0 /\ blk + 1 = v + (j + 1)
  <2>1. j + 1 \in 0..N - 1
    BY <1>1, <1>6
  <2>2. f \in Nat /\ WordsOf(l, b, j + 1) \in Nat
    BY <1>2, <2>1
  <2> HIDE DEF f
  <2>3. f + 0 = f /\ word = u + f + 0 /\ blk + 1 = v + (j + 1)
    BY <1>1, <1>2, <2>2
  <2>4. SubSeq(ws, f + 1, f) = << >>
    BY <1>1, <1>2, <2>2, SliceEmpty DEF IsStream, M
  <2> QED
    BY <2>1, <2>2, <2>3, <2>4
<1> QED
  BY <1>1, <1>2, <1>4, <1>5, <1>6 DEF ws, bs, u, v, N, M, f, AllHere

LEMMA PreBlockAt ==
    ASSUME NEW n \in Nat, NEW b, NEW L, NEW P, NEW Q, UnitData(L, P, Q, n, b),
           NEW p, NEW e, NEW len, NEW word, NEW nblk, NEW blk,
           PreAt(L, P, Q, b, n, p, e, len, word, nblk, blk), p.pc = "block",
           Len(p.buf) = WordsOf(p.len, b, p.j), NEW t, Carries(t, Q, n),
           NEW p2, p2 = [pc |-> IF p.j + 1 = BlocksSent(p.len) THEN "flag" ELSE "block",
                         len |-> p.len, j |-> p.j + 1, buf |-> << >>]
    PROVE  /\ PreAt(L, P, Q, b, n, p2, e, len, word, nblk, blk + 1)
           /\ blk < Len(t) /\ Block(p.len, p.j, p.buf) = t[blk + 1]
<1> DEFINE s == Start(p.len, b, p.j)
           k == Len(p.buf)
           m == WordsOf(p.len, b, p.j)
           buf == p.buf
           l == p.len
           j == p.j
           i == j + 1
<1>0. k = m
  OBVIOUS
<1>1. /\ p2.len = l /\ p2.j = i /\ p2.buf = << >>
      /\ p2 = [pc |-> p2.pc, len |-> p2.len, j |-> p2.j, buf |-> p2.buf]
      /\ p2.pc = IF i = BlocksSent(l) THEN "flag" ELSE "block"
  OBVIOUS
<1>2. PreBlocks(L, P, Q, b, n, p, e, len, word, nblk, blk, s, k, m)
  BY PreInside
<1> HIDE DEF k
<1>3. /\ Inside(P, Q, s, m, m, l, j, e, word, blk) /\ e \in 1..n /\ buf = SubSeq(P[e], s + 1, s + m)
      /\ len = e /\ nblk = e /\ l = L[e]
  BY <1>0, <1>2 DEF PreBlocks
<1> HIDE DEF s, m
<1>4. s = Start(l, b, j) /\ m = WordsOf(l, b, j)
  BY DEF s, m
<1> HIDE DEF l, j, buf, i
<1>5. Blockwise(l, P[e], Q[e], b)
  BY <1>3 DEF UnitData
<1>9. AllHere(P, Q, l, b, j, e, word, blk, t)
  <2>1. BlockOf(l, b, j, s, m, n, e)
    BY <1>3, <1>4 DEF BlockOf
  <2> QED
    BY <1>3, <1>5, <2>1, InsideLast
<1>6. /\ blk < Len(t) /\ t[blk + 1] = Q[e][j + 1]
      /\ j + 1 = BlocksSent(l) => word = Upto(P, e) /\ blk + 1 = Upto(Q, e)
      /\ j + 1 # BlocksSent(l) =>
            /\ j + 1 \in 0..Len(Q[e]) - 1 /\ WordsOf(l, b, j + 1) \in Nat
            /\ SubSeq(P[e], Start(l, b, j + 1) + 1, Start(l, b, j + 1) + 0) = << >>
            /\ word = Upto(P, e - 1) + Start(l, b, j + 1) + 0
            /\ blk + 1 = Upto(Q, e - 1) + (j + 1)
  BY <1>9 DEF AllHere
<1>7. Block(l, j, buf) = Q[e][j + 1]
  <2>1. j \in 0..Len(Q[e]) - 1
    BY <1>3 DEF Inside
  <2> QED
    BY <1>3, <1>4, <1>5, <2>1 DEF Blockwise
<1>8. PreAt(L, P, Q, b, n, p2, e, len, word, nblk, blk + 1)
  <2>1. CASE i = BlocksSent(l)
    <3>1. p2.pc = "flag" /\ word = Upto(P, e) /\ blk + 1 = Upto(Q, e)
      BY <1>1, <1>6, <2>1 DEF i
    <3>2. e \in 0..n
      BY <1>3
    <3> QED
      BY <1>1, <1>3, <3>1, <3>2 DEF PreAt
  <2>2. CASE i # BlocksSent(l)
    <3>1. /\ p2.pc = "block" /\ i \in 0..Len(Q[e]) - 1 /\ WordsOf(l, b, i) \in Nat
          /\ SubSeq(P[e], Start(l, b, i) + 1, Start(l, b, i) + 0) = << >>
          /\ word = Upto(P, e - 1) + Start(l, b, i) + 0 /\ blk + 1 = Upto(Q, e - 1) + i
      BY <1>1, <1>6, <2>2 DEF i
    <3>2. Len(p2.buf) = 0 /\ 0 \in 0..WordsOf(l, b, i)
      BY <1>1, <3>1
    <3> QED
      BY <1>1, <1>3, <3>1, <3>2 DEF PreAt
  <2> QED
    BY <2>1, <2>2
<1> QED
  BY <1>6, <1>7, <1>8 DEF l, j, buf

LEMMA PreEndAt ==
    ASSUME NEW n \in Nat, NEW b, NEW L, NEW P, NEW Q,
           NEW p, NEW e, NEW len, NEW word, NEW nblk, NEW blk,
           PreAt(L, P, Q, b, n, p, e, len, word, nblk, blk), p.pc = "flag", e = n,
           NEW p2, p2 = [pc |-> "done", len |-> p.len, j |-> p.j, buf |-> p.buf]
    PROVE  PreAt(L, P, Q, b, n, p2, e + 1, len, word, nblk + 1, blk)
<1>1. len = e /\ nblk = e /\ word = Upto(P, e) /\ blk = Upto(Q, e)
  BY DEF PreAt
<1>2. p2.pc = "done" /\ p2 = [pc |-> p2.pc, len |-> p2.len, j |-> p2.j, buf |-> p2.buf]
  OBVIOUS
<1> QED
  BY <1>1, <1>2 DEF PreAt

-----------------------------------------------------------------------------
(* The digest, step by step.                                               *)
LEMMA SliceWhole ==
    ASSUME NEW t, IsStream(t)
    PROVE  SubSeq(t, 1, Len(t)) = t
<1>1. PICK S : t \in Seq(S)
  BY DEF IsStream
<1> DEFINE none == 0
           z == SubSeq(t, none + 1, Len(t))
<1>2. none \in Nat /\ none <= Len(t) /\ Len(t) - none = Len(t) /\ \A i \in 1..Len(t) : none + i = i
  BY <1>1
<1> HIDE DEF none
<1>3. z \in Seq(S) /\ Len(z) = Len(t) - none /\ \A i \in 1..Len(t) - none : z[i] = t[none + i]
  BY <1>1, <1>2, SliceFacts
<1> HIDE DEF z
<1>4. z = t
  BY <1>1, <1>2, <1>3, SliceSame
<1> QED
  BY <1>4 DEF z, none

LEMMA GrownStream ==
    ASSUME NEW s, IsStream(s), NEW x, NEW k, Len(s) = k
    PROVE  /\ IsStream(Append(s, x)) /\ Len(Append(s, x)) = k + 1 /\ Append(s, x)[k + 1] = x
           /\ \A i \in 1..k : Append(s, x)[i] = s[i]
<1>1. PICK S : s \in Seq(S)
  BY DEF IsStream
<1> DEFINE Z == S \cup {x}
<1>2. x \in Z /\ \A i \in 1..k : s[i] \in Z
  BY <1>1
<1>3. s = [i \in 1..k |-> s[i]] /\ k \in Nat
  BY <1>1
<1> HIDE DEF Z
<1>4. s \in Seq(Z)
  BY <1>2, <1>3, Listed
<1>5. /\ Append(s, x) \in Seq(Z) /\ Len(Append(s, x)) = k + 1 /\ Append(s, x)[k + 1] = x
      /\ \A i \in 1..k : Append(s, x)[i] = s[i]
  BY <1>2, <1>4
<1> QED
  BY <1>5 DEF IsStream

LEMMA DigFlagAt ==
    ASSUME NEW n \in Nat, NEW Q, Sums(Q, n), NEW p, NEW h, NEW nblk, NEW blk, NEW hash, NEW eHash,
           DigAt(Q, n, p, h, nblk, blk, hash, eHash), p.pc = "flag", nblk + 1 <= n,
           NEW p2, p2 = [pc |-> "blocks", n |-> Len(Q[nblk + 1]), got |-> << >>]
    PROVE  DigAt(Q, n, p2, h, nblk + 1, blk, hash, eHash)
<1> DEFINE d == nblk + 1
           k == Len(h)
           N == Len(Q[d])
<1>1. /\ k \in 0..n /\ nblk = k /\ eHash = nblk /\ blk = Upto(Q, nblk)
      /\ IsStream(h) /\ (\A i \in 1..k : h[i] = Q[i]) /\ hash = k
  BY DEF DigAt
<1>2. d \in 1..n /\ d - 1 = nblk /\ k = d - 1
  BY <1>1
<1>3. p2.pc = "blocks" /\ p2.n = N /\ p2.got = << >> /\ p2 = [pc |-> p2.pc, n |-> p2.n, got |-> p2.got]
  OBVIOUS
<1> HIDE DEF d
<1>4. N \in Nat /\ IsStream(Q[d]) /\ Upto(Q, nblk) \in Nat
  <2>1. nblk \in 0..n
    BY <1>1
  <2> QED
    BY <1>2, <2>1 DEF Sums
<1>5. SubSeq(Q[d], 1, 0) = << >>
  BY <1>4 DEF IsStream
<1>6. Len(p2.got) = 0 /\ 0 \in 0..N /\ blk = Upto(Q, d - 1) + 0
  BY <1>1, <1>2, <1>3, <1>4
<1> HIDE DEF N, k
<1> QED
  BY <1>1, <1>2, <1>3, <1>5, <1>6 DEF DigAt, N, k, d

(* The block being digested.                                               *)
Digesting(Q, n, nblk, blk, k, N) ==
    /\ nblk \in 1..n /\ N = Len(Q[nblk]) /\ k \in 0..N /\ N \in Nat /\ IsStream(Q[nblk])
    /\ Upto(Q, nblk - 1) \in Nat /\ blk = Upto(Q, nblk - 1) + k
    /\ Upto(Q, nblk) = Upto(Q, nblk - 1) + N

LEMMA DigInside ==
    ASSUME NEW n \in Nat, NEW Q, Sums(Q, n), NEW p, NEW h, NEW nblk, NEW blk, NEW hash, NEW eHash,
           DigAt(Q, n, p, h, nblk, blk, hash, eHash), p.pc = "blocks"
    PROVE  Digesting(Q, n, nblk, blk, Len(p.got), p.n) /\ p.got = SubSeq(Q[nblk], 1, Len(p.got))
<1>1. /\ nblk \in 1..n /\ p.n = Len(Q[nblk]) /\ Len(p.got) \in 0..p.n
      /\ blk = Upto(Q, nblk - 1) + Len(p.got) /\ p.got = SubSeq(Q[nblk], 1, Len(p.got))
  BY DEF DigAt
<1>2. nblk \in 0..n /\ nblk - 1 \in 0..n
  BY <1>1
<1>3. /\ Upto(Q, nblk - 1) \in Nat /\ IsStream(Q[nblk]) /\ Len(Q[nblk]) \in Nat
      /\ Upto(Q, nblk) = Upto(Q, nblk - 1) + Len(Q[nblk])
  BY <1>1, <1>2 DEF Sums
<1> QED
  BY <1>1, <1>3 DEF Digesting

OneGot(Q, nblk, blk, k, N, got) ==
    Len(got) = k /\ k \in 0..N /\ got = SubSeq(Q[nblk], 1, k) /\ blk = Upto(Q, nblk - 1) + k

LEMMA DigNext ==
    ASSUME NEW n \in Nat, NEW Q, NEW t, Carries(t, Q, n), NEW nblk, NEW blk, NEW k, NEW N, k # N,
           Digesting(Q, n, nblk, blk, k, N), NEW got, got = SubSeq(Q[nblk], 1, k)
    PROVE  OneGot(Q, nblk, blk + 1, k + 1, N, Append(got, t[blk + 1]))
<1> DEFINE bs == Q[nblk]
           u == Upto(Q, nblk - 1)
           x == t[blk + 1]
           none == 0
           i == k + 1
<1>1. /\ nblk \in 1..n /\ N = Len(bs) /\ k \in 0..N /\ N \in Nat /\ IsStream(bs) /\ u \in Nat
      /\ blk = u + k
  BY DEF Digesting
<1>2. \A j \in 1..Len(bs) : t[u + j] = bs[j]
  BY <1>1, PartPlace
<1> HIDE DEF bs, u
<1>3. i \in 1..N /\ i \in 0..N /\ blk + 1 = u + i /\ k \in Nat /\ k < N
  BY <1>1
<1> HIDE DEF i
<1>4. x = bs[i]
  BY <1>1, <1>2, <1>3
<1> HIDE DEF x
<1>5. PICK S : bs \in Seq(S)
  BY <1>1 DEF IsStream
<1>6. none \in Nat /\ none <= k /\ k - none = k
  BY <1>3
<1> HIDE DEF none
<1>7. Append(SubSeq(bs, none + 1, k), bs[k + 1]) = SubSeq(bs, none + 1, k + 1)
  BY <1>1, <1>3, <1>5, <1>6, SliceAppend
<1>8. SubSeq(bs, none + 1, k) \in Seq(S) /\ Len(SubSeq(bs, none + 1, k)) = k - none
  BY <1>1, <1>3, <1>5, <1>6, SliceFacts
<1>9. got = SubSeq(bs, none + 1, k) /\ none + 1 = 1
  BY DEF bs, none
<1>10. Append(got, x) = SubSeq(bs, 1, i)
  BY <1>4, <1>7, <1>9 DEF i
<1>11. Len(Append(got, x)) = i
  <2>1. got \in Seq(S) /\ Len(got) = k
    BY <1>6, <1>8, <1>9
  <2>2. x \in S
    BY <1>1, <1>3, <1>4, <1>5
  <2> QED
    BY <2>1, <2>2 DEF i
<1> QED
  BY <1>3, <1>10, <1>11 DEF x, bs, u, i, OneGot

LEMMA DigBlockAt ==
    ASSUME NEW n \in Nat, NEW Q, NEW t, Carries(t, Q, n),
           NEW p, NEW h, NEW nblk, NEW blk, NEW hash, NEW eHash,
           DigAt(Q, n, p, h, nblk, blk, hash, eHash), p.pc = "blocks", Len(p.got) # p.n,
           NEW p2, p2 = [pc |-> p.pc, n |-> p.n, got |-> Append(p.got, t[blk + 1])]
    PROVE  DigAt(Q, n, p2, h, nblk, blk + 1, hash, eHash)
<1> DEFINE k == Len(p.got)
           N == p.n
           got == p.got
           x == t[blk + 1]
           z == Append(got, x)
<1>0. k # N
  OBVIOUS
<1>1. p2.pc = "blocks" /\ p2.n = N /\ p2.got = z /\ p2 = [pc |-> p2.pc, n |-> p2.n, got |-> p2.got]
  OBVIOUS
<1>2. Digesting(Q, n, nblk, blk, k, N) /\ got = SubSeq(Q[nblk], 1, k)
  <2>1. Sums(Q, n)
    BY DEF Carries
  <2> QED
    BY <2>1, DigInside
<1>3. /\ Len(h) \in 0..n /\ IsStream(h) /\ (\A i \in 1..Len(h) : h[i] = Q[i]) /\ hash = Len(h)
      /\ Len(h) = nblk - 1 /\ eHash = nblk - 1
  BY DEF DigAt
<1> HIDE DEF k, N, got
<1>4. OneGot(Q, nblk, blk + 1, k + 1, N, z)
  BY <1>0, <1>2, DigNext
<1> HIDE DEF z
<1> DEFINE y == k + 1
<1>5. Len(z) = y /\ y \in 0..N /\ z = SubSeq(Q[nblk], 1, y) /\ blk + 1 = Upto(Q, nblk - 1) + y
  BY <1>4 DEF OneGot
<1> HIDE DEF y
<1>6. nblk \in 1..n /\ N = Len(Q[nblk])
  BY <1>2 DEF Digesting
<1> QED
  BY <1>1, <1>3, <1>5, <1>6 DEF DigAt

LEMMA DigEmitAt ==
    ASSUME NEW n \in Nat, NEW Q, Sums(Q, n), NEW p, NEW h, NEW nblk, NEW blk, NEW hash, NEW eHash,
           DigAt(Q, n, p, h, nblk, blk, hash, eHash), p.pc = "blocks", Len(p.got) = p.n,
           NEW p2, p2 = [pc |-> "flag", n |-> p.n, got |-> << >>],
           NEW h2, h2 = Append(h, p.got)
    PROVE  /\ DigAt(Q, n, p2, h2, nblk, blk, hash + 1, eHash + 1)
           /\ hash + 1 \in 1..n /\ eHash + 1 \in 1..n /\ Len(h) = hash
<1> DEFINE k == Len(h)
           got == p.got
<1>1. p2.pc = "flag" /\ p2 = [pc |-> p2.pc, n |-> p2.n, got |-> p2.got]
  OBVIOUS
<1>2. Digesting(Q, n, nblk, blk, p.n, p.n) /\ got = SubSeq(Q[nblk], 1, p.n)
  BY DigInside
<1>3. /\ k \in 0..n /\ IsStream(h) /\ (\A i \in 1..k : h[i] = Q[i]) /\ hash = k
      /\ k = nblk - 1 /\ eHash = nblk - 1
  BY DEF DigAt
<1>4. nblk \in 1..n /\ IsStream(Q[nblk]) /\ p.n = Len(Q[nblk]) /\ blk = Upto(Q, nblk)
  BY <1>2 DEF Digesting
<1>5. got = Q[nblk]
  BY <1>2, <1>4, SliceWhole
<1> HIDE DEF k, got
<1>6. h2 = Append(h, got) /\ Len(h) = k
  BY DEF got, k
<1>7. IsStream(h2) /\ Len(h2) = k + 1 /\ h2[k + 1] = got /\ \A i \in 1..k : h2[i] = h[i]
  BY <1>3, <1>6, GrownStream
<1>8. Len(h2) = nblk /\ hash + 1 = nblk /\ eHash + 1 = nblk /\ k + 1 = nblk
  BY <1>3, <1>4, <1>7
<1>9. \A i \in 1..nblk : h2[i] = Q[i]
  <2> TAKE i \in 1..nblk
  <2>1. CASE i = nblk
    BY <1>5, <1>7, <1>8, <2>1
  <2>2. CASE i # nblk
    <3>1. i \in 1..k
      BY <1>3, <1>4, <2>2
    <3> QED
      BY <1>3, <1>7, <3>1
  <2> QED
    BY <2>1, <2>2
<1>10. nblk \in 0..n
  BY <1>4
<1>11. DigAt(Q, n, p2, h2, nblk, blk, hash + 1, eHash + 1)
  BY <1>1, <1>4, <1>7, <1>8, <1>9, <1>10 DEF DigAt
<1> QED
  BY <1>3, <1>4, <1>6, <1>8, <1>11

LEMMA DigEndAt ==
    ASSUME NEW n \in Nat, NEW Q, NEW p, NEW h, NEW nblk, NEW blk, NEW hash, NEW eHash,
           DigAt(Q, n, p, h, nblk, blk, hash, eHash), p.pc = "flag", nblk = n,
           NEW p2, p2 = [pc |-> "done", n |-> p.n, got |-> p.got]
    PROVE  DigAt(Q, n, p2, h, nblk + 1, blk, hash, eHash + 1) /\ eHash = n
<1>1. p2.pc = "done" /\ p2 = [pc |-> p2.pc, n |-> p2.n, got |-> p2.got]
  OBVIOUS
<1>2. nblk = Len(h) /\ eHash = nblk /\ blk = Upto(Q, nblk)
  BY DEF DigAt
<1> QED
  BY <1>1, <1>2 DEF DigAt

-----------------------------------------------------------------------------
(* The merging processes, step by step.                                    *)

(* The last k of the first N elements of a stream are still to be written. *)
Rest(ws, N, k, s) == s = SubSeq(ws, N - k + 1, N) /\ Len(s) = k

Remains(ws, N, k, s) ==
    IsStream(ws) /\ N \in Nat /\ N <= Len(ws) /\ k \in 1..N /\ Rest(ws, N, k, s)
RestGoes(ws, N, k, s) ==
    s # << >> /\ Head(s) = ws[N - k + 1] /\ Rest(ws, N, k - 1, Tail(s))

LEMMA RestNext ==
    ASSUME NEW ws, NEW N, NEW k, NEW s, Remains(ws, N, k, s)
    PROVE  RestGoes(ws, N, k, s)
<1>0. IsStream(ws) /\ N \in Nat /\ N <= Len(ws) /\ k \in 1..N /\ Rest(ws, N, k, s)
  BY DEF Remains
<1> DEFINE r == N - k
           d == k - 1
<1>1. PICK S : ws \in Seq(S)
  BY <1>0 DEF IsStream
<1>2. r \in Nat /\ r < N /\ r + 1 = N - d /\ (r + 1) + 1 = N - d + 1 /\ N - (r + 1) = d
      /\ r + 1 \in Nat /\ r + 1 <= N
  BY <1>0
<1>3. s = SubSeq(ws, r + 1, N)
  BY <1>0 DEF Rest
<1> HIDE DEF r
<1>4. s # << >> /\ Head(s) = ws[r + 1] /\ Tail(s) = SubSeq(ws, (r + 1) + 1, N)
  BY <1>0, <1>1, <1>2, <1>3, SliceHead
<1>5. Len(SubSeq(ws, (r + 1) + 1, N)) = N - (r + 1)
  BY <1>0, <1>1, <1>2, SliceFacts
<1> HIDE DEF d
<1>6. Rest(ws, N, d, Tail(s))
  BY <1>2, <1>4, <1>5 DEF Rest
<1> QED
  BY <1>4, <1>6 DEF r, d, RestGoes

(* Every message of a unit is a pad of c words and the words of a text.    *)
Follows(P, R, c, n) ==
    /\ c \in Nat \ {0}
    /\ \A m \in 1..n : /\ IsStream(P[m]) /\ Len(R[m]) \in Nat /\ Len(P[m]) = c + Len(R[m])
                       /\ \A k \in 1..Len(R[m]) : P[m][c + k] = R[m][k]

LEMMA MkFlagAt ==
    ASSUME NEW n \in Nat, NEW P, Sums(P, n), NEW R, NEW c \in Nat \ {0}, NEW p,
           NEW eKipad, NEW len, NEW kipad, NEW kopad,
           NEW msg, NEW e, NEW ml, NEW word, NEW kopad2,
           MkAt(P, R, c, n, p, eKipad, len, kipad, kopad, msg, e, ml, word, kopad2),
           p.pc = "flag", eKipad + 1 <= n, NEW g, Headed(P[eKipad + 1], g, R[eKipad + 1], c),
           NEW p2, p2 = [pc |-> "pad", pad |-> g, words |-> Len(R[eKipad + 1])]
    PROVE  MkAt(P, R, c, n, p2, eKipad + 1, len + 1, kipad + 1, kopad, msg, e + 1, ml + 1, word, kopad2)
<1> DEFINE d == eKipad + 1
           none == 0
<1>1. /\ eKipad \in 0..n /\ kopad = eKipad /\ kipad = eKipad
      /\ word = Upto(P, eKipad) /\ msg = Upto(R, eKipad)
      /\ len = kipad /\ ml = kipad /\ e = eKipad /\ kopad2 = kopad
  BY DEF MkAt
<1>2. d \in 1..n /\ d - 1 = eKipad
  BY <1>1
<1>3. p2.pc = "pad" /\ p2.pad = g /\ p2.words = Len(R[d])
      /\ p2 = [pc |-> p2.pc, pad |-> p2.pad, words |-> p2.words]
  OBVIOUS
<1>4. Len(g) = c /\ g = SubSeq(P[d], 1, c)
  BY DEF Headed
<1> HIDE DEF d
<1>5. Len(g) \in 0..c /\ c - Len(g) + 1 = 1
  BY <1>4
<1>6. p2.pad = SubSeq(P[d], c - Len(p2.pad) + 1, c)
  BY <1>3, <1>4, <1>5
<1>8. word = Upto(P, d - 1) + c - Len(p2.pad)
  <2>1. Len(p2.pad) = c
    BY <1>3, <1>4
  <2>2. word \in Nat
    BY <1>1 DEF Sums
  <2> QED
    BY <1>1, <1>2, <2>1, <2>2
<1> QED
  BY <1>1, <1>2, <1>3, <1>5, <1>6, <1>8 DEF MkAt, d

(* mergeKipad in front of word i of the message that follows the pad, ...  *)
FollowedBy(P, R, c, d, t, v) ==
    /\ c \in Nat \ {0} /\ Upto(P, d - 1) \in Nat /\ Upto(R, d - 1) \in Nat /\ Len(R[d]) \in Nat
    /\ IsStream(P[d]) /\ Len(P[d]) = c + Len(R[d])
    /\ Upto(P, d) = Upto(P, d - 1) + c + Len(R[d]) /\ Upto(R, d) = Upto(R, d - 1) + Len(R[d])
    /\ Upto(P, d) <= Len(t) /\ Upto(R, d) <= Len(v) /\ Len(t) \in Nat /\ Len(v) \in Nat
    /\ \A k \in 1..c : t[Upto(P, d - 1) + k] = P[d][k]
    /\ \A k \in 1..Len(R[d]) : t[Upto(P, d - 1) + c + k] = v[Upto(R, d - 1) + k]

LEMMA Followed ==
    ASSUME NEW n \in Nat, NEW P, NEW R, NEW c, Follows(P, R, c, n), NEW t, Carries(t, P, n), NEW v,
           Carries(v, R, n), NEW d \in 1..n
    PROVE  FollowedBy(P, R, c, d, t, v)
<1> DEFINE u == Upto(P, d - 1)
           w == Upto(R, d - 1)
           N == Len(P[d])
           M == Len(R[d])
<1>1. /\ u \in Nat /\ N \in Nat /\ IsStream(P[d]) /\ Upto(P, d) = u + N /\ Upto(P, d) <= Len(t)
      /\ Len(t) \in Nat /\ \A k \in 1..N : t[u + k] = P[d][k]
  <2>1. Placing(P, t, d)
    BY PlacingOf
  <2> QED
    BY <2>1 DEF Placing
<1>2. /\ w \in Nat /\ M \in Nat /\ Upto(R, d) = w + M /\ Upto(R, d) <= Len(v)
      /\ Len(v) \in Nat /\ \A k \in 1..M : v[w + k] = R[d][k]
  <2>1. Placing(R, v, d)
    BY PlacingOf
  <2> QED
    BY <2>1 DEF Placing
<1>3. c \in Nat \ {0} /\ N = c + M /\ \A k \in 1..M : P[d][c + k] = R[d][k]
  BY DEF Follows
<1> HIDE DEF u, w, N, M
<1>4. ASSUME NEW k \in 1..c PROVE t[u + k] = P[d][k]
  <2>1. k \in 1..N
    BY <1>2, <1>3
  <2> QED
    BY <1>1, <2>1
<1>5. ASSUME NEW k \in 1..M PROVE t[u + c + k] = v[w + k]
  <2>1. c + k \in 1..N /\ u + (c + k) = u + c + k
    BY <1>1, <1>2, <1>3
  <2>2. t[u + (c + k)] = P[d][c + k]
    BY <1>1, <2>1
  <2> QED
    BY <1>2, <1>3, <2>1, <2>2
<1>6. Upto(P, d) = u + c + M
  BY <1>1, <1>2, <1>3
<1> QED
  BY <1>1, <1>2, <1>3, <1>4, <1>5, <1>6 DEF u, w, N, M, FollowedBy

LEMMA MkPadAt ==
    ASSUME NEW n \in Nat, NEW P, NEW R, NEW c, Follows(P, R, c, n), NEW t, Carries(t, P, n), NEW v,
           Carries(v, R, n), NEW p, NEW eKipad, NEW len, NEW kipad, NEW kopad,
           NEW msg, NEW e, NEW ml, NEW word, NEW kopad2,
           MkAt(P, R, c, n, p, eKipad, len, kipad, kopad, msg, e, ml, word, kopad2),
           p.pc = "pad", p.pad # << >>,
           NEW p2, p2 = [pc |-> p.pc, pad |-> Tail(p.pad), words |-> p.words]
    PROVE  /\ MkAt(P, R, c, n, p2, eKipad, len, kipad, kopad, msg, e, ml, word + 1, kopad2)
           /\ word < Len(t) /\ Head(p.pad) = t[word + 1]
<1> DEFINE d == eKipad
           k == Len(p.pad)
           pad == p.pad
           u == Upto(P, d - 1)
           ws == P[d]
<1>1. /\ d \in 1..n /\ kopad = d - 1 /\ k \in 0..c /\ pad = SubSeq(ws, c - k + 1, c)
      /\ p.words = Len(R[d]) /\ word = u + c - k /\ msg = Upto(R, d - 1) /\ kipad = eKipad
      /\ len = kipad /\ ml = kipad /\ e = eKipad /\ kopad2 = kopad
  BY DEF MkAt
<1>2. p2.pc = "pad" /\ p2.pad = Tail(pad) /\ p2.words = p.words
      /\ p2 = [pc |-> p2.pc, pad |-> p2.pad, words |-> p2.words]
  OBVIOUS
<1>3. /\ c \in Nat \ {0} /\ u \in Nat /\ Len(R[d]) \in Nat /\ IsStream(ws) /\ Len(ws) = c + Len(R[d])
      /\ Upto(P, d) = u + c + Len(R[d]) /\ Upto(P, d) <= Len(t) /\ Len(t) \in Nat
      /\ \A i \in 1..c : t[u + i] = ws[i]
  <2>1. FollowedBy(P, R, c, d, t, v)
    BY <1>1, Followed
  <2> QED
    BY <2>1 DEF FollowedBy
<1>4. pad # << >> /\ Rest(ws, c, k, pad)
  BY <1>1 DEF Rest
<1> HIDE DEF d, k, pad, u, ws
<1>5. k # 0
  <2>1. Len(pad) = k
    BY <1>4 DEF Rest
  <2>2. CASE k = 0
    <3>1. pad = SubSeq(ws, c + 1, c)
      BY <1>1, <1>3, <2>2
    <3>2. SubSeq(ws, c + 1, c) = << >>
      BY <1>3, SliceEmpty DEF IsStream
    <3> QED
      BY <1>4, <3>1, <3>2
  <2> QED
    BY <2>2
<1>6. k \in 1..c /\ c <= Len(ws) /\ c \in Nat
  BY <1>1, <1>3, <1>5
<1>7. Head(pad) = ws[c - k + 1] /\ Rest(ws, c, k - 1, Tail(pad))
  <2>1. Remains(ws, c, k, pad)
    BY <1>3, <1>4, <1>6 DEF Remains
  <2> QED
    BY <2>1, RestNext DEF RestGoes
<1> DEFINE m == k - 1
           i == c - k + 1
<1>8. m \in 0..c /\ word + 1 = u + c - m /\ i \in 1..c /\ word + 1 = u + i /\ word < Len(t)
  <2> DEFINE y == Len(R[d])
             z == Len(t)
  <2>1. y \in Nat /\ z \in Nat /\ u + c + y <= z
    BY <1>3
  <2> HIDE DEF y, z
  <2>2. word < z
    BY <1>1, <1>3, <1>6, <2>1
  <2>3. m \in 0..c /\ i \in 1..c /\ word + 1 = u + c - m /\ word + 1 = u + i
    BY <1>1, <1>3, <1>6
  <2> QED
    BY <2>2, <2>3 DEF z
<1> HIDE DEF m, i
<1>9. Head(pad) = t[word + 1]
  BY <1>3, <1>7, <1>8 DEF i
<1>10. Len(Tail(pad)) = m /\ Tail(pad) = SubSeq(ws, c - m + 1, c)
  BY <1>7 DEF Rest, m
<1>11. MkAt(P, R, c, n, p2, d, len, kipad, kopad, msg, e, ml, word + 1, kopad2)
  BY <1>1, <1>2, <1>8, <1>10 DEF MkAt, u, ws, d
<1> QED
  BY <1>8, <1>9, <1>11 DEF d, pad

LEMMA MkOpadAt ==
    ASSUME NEW n \in Nat, NEW P, NEW R, NEW c, Follows(P, R, c, n), NEW t, Carries(t, P, n), NEW v,
           Carries(v, R, n), NEW p, NEW eKipad, NEW len, NEW kipad, NEW kopad,
           NEW msg, NEW e, NEW ml, NEW word, NEW kopad2,
           MkAt(P, R, c, n, p, eKipad, len, kipad, kopad, msg, e, ml, word, kopad2),
           p.pc = "pad", p.pad = << >>,
           NEW p2, p2 = [pc |-> IF p.words = 0 THEN "flag" ELSE "msg", pad |-> p.pad, words |-> p.words]
    PROVE  /\ MkAt(P, R, c, n, p2, eKipad, len, kipad, kopad + 1, msg, e, ml, word, kopad2 + 1)
           /\ kopad = kopad2 /\ kopad \in Nat /\ kopad < n
<1> DEFINE d == eKipad
           m == p.words
           u == Upto(P, d - 1)
           w == Upto(R, d - 1)
           N == Len(R[d])
<1>1. /\ d \in 1..n /\ kopad = d - 1 /\ m = N /\ word = u + c - Len(p.pad) /\ msg = w /\ kipad = eKipad
      /\ len = kipad /\ ml = kipad /\ e = eKipad /\ kopad2 = kopad
  BY DEF MkAt
<1>2. p2.pc = (IF m = 0 THEN "flag" ELSE "msg") /\ p2.words = m
      /\ p2 = [pc |-> p2.pc, pad |-> p2.pad, words |-> p2.words]
  OBVIOUS
<1>3. /\ c \in Nat \ {0} /\ u \in Nat /\ w \in Nat /\ N \in Nat
      /\ Upto(P, d) = u + c + N /\ Upto(R, d) = w + N
  <2>1. FollowedBy(P, R, c, d, t, v)
    BY <1>1, Followed
  <2> QED
    BY <2>1 DEF FollowedBy
<1>4. Len(p.pad) = 0
  OBVIOUS
<1> HIDE DEF d, m, u, w, N
<1>5. kopad + 1 = d /\ word = u + c /\ d \in 0..n /\ kopad \in Nat /\ kopad < n
  BY <1>1, <1>3, <1>4
<1>6. word + m = Upto(P, d) /\ msg + m = Upto(R, d)
  BY <1>1, <1>3, <1>5
<1>7. CASE m = 0
  <2>1. word = Upto(P, d) /\ msg = Upto(R, d) /\ p2.pc = "flag"
    BY <1>1, <1>2, <1>3, <1>5, <1>6, <1>7
  <2>2. MkAt(P, R, c, n, p2, d, len, kipad, kopad + 1, msg, e, ml, word, kopad2 + 1)
    BY <1>1, <1>2, <1>5, <2>1 DEF MkAt, d
  <2> QED
    BY <1>1, <1>5, <2>2 DEF d
<1>8. CASE m # 0
  <2>1. m \in 1..N /\ p2.pc = "msg"
    BY <1>1, <1>2, <1>3, <1>8
  <2>2. MkAt(P, R, c, n, p2, d, len, kipad, kopad + 1, msg, e, ml, word, kopad2 + 1)
    BY <1>1, <1>2, <1>5, <1>6, <2>1 DEF MkAt, d, N
  <2> QED
    BY <1>1, <1>5, <2>2 DEF d
<1> QED
  BY <1>7, <1>8

LEMMA MkMsgAt ==
    ASSUME NEW n \in Nat, NEW P, NEW R, NEW c, Follows(P, R, c, n), NEW t, Carries(t, P, n), NEW v,
           Carries(v, R, n), NEW p, NEW eKipad, NEW len, NEW kipad, NEW kopad,
           NEW msg, NEW e, NEW ml, NEW word, NEW kopad2,
           MkAt(P, R, c, n, p, eKipad, len, kipad, kopad, msg, e, ml, word, kopad2), p.pc = "msg",
           word \in Nat, msg \in Nat,
           NEW p2, p2 = [pc |-> IF p.words = 1 THEN "flag" ELSE "msg", pad |-> p.pad, words |-> p.words - 1]
    PROVE  /\ MkAt(P, R, c, n, p2, eKipad, len, kipad, kopad, msg + 1, e, ml, word + 1, kopad2)
           /\ word < Len(t) /\ t[word + 1] = v[msg + 1]
<1> DEFINE d == eKipad
           m == p.words
           u == Upto(P, d - 1)
           w == Upto(R, d - 1)
           N == Len(R[d])
           UP == Upto(P, d)
           UR == Upto(R, d)
           g == m - 1
<1>1. /\ d \in 1..n /\ kopad = d /\ m \in 1..N /\ word + m = UP /\ msg + m = UR /\ kipad = eKipad
      /\ len = kipad /\ ml = kipad /\ e = eKipad /\ kopad2 = kopad
  BY DEF MkAt
<1>2. p2.pc = (IF m = 1 THEN "flag" ELSE "msg") /\ p2.words = g
      /\ p2 = [pc |-> p2.pc, pad |-> p2.pad, words |-> p2.words]
  OBVIOUS
<1>3. /\ c \in Nat \ {0} /\ u \in Nat /\ w \in Nat /\ N \in Nat /\ UP = u + c + N /\ UR = w + N
      /\ UP <= Len(t) /\ Len(t) \in Nat
      /\ \A k \in 1..N : t[u + c + k] = v[w + k]
  <2>1. FollowedBy(P, R, c, d, t, v)
    BY <1>1, Followed
  <2> QED
    BY <2>1 DEF FollowedBy
<1> HIDE DEF d, m, u, w, N, UP, UR
<1> DEFINE k == N - m + 1
<1>4. k \in 1..N /\ word + 1 = u + c + k /\ msg + 1 = w + k /\ word < UP /\ UP \in Nat
  BY <1>1, <1>3
<1>5. word < Len(t)
  BY <1>3, <1>4
<1>6. t[word + 1] = v[msg + 1]
  <2> HIDE DEF k
  <2>1. t[u + c + k] = v[w + k]
    BY <1>3, <1>4
  <2> QED
    BY <1>4, <2>1
<1> HIDE DEF k
<1>7. word + 1 + g = UP /\ msg + 1 + g = UR
  BY <1>1, <1>3
<1>8. CASE m = 1
  <2>1. word + 1 = UP /\ msg + 1 = UR /\ p2.pc = "flag" /\ d \in 0..n
    BY <1>1, <1>2, <1>8
  <2>2. MkAt(P, R, c, n, p2, d, len, kipad, kopad, msg + 1, e, ml, word + 1, kopad2)
    BY <1>1, <1>2, <2>1 DEF MkAt, d, UP, UR
  <2> QED
    BY <1>5, <1>6, <2>2 DEF d
<1>9. CASE m # 1
  <2>1. g \in 1..N /\ p2.pc = "msg"
    BY <1>1, <1>2, <1>3, <1>9
  <2> HIDE DEF g
  <2>2. MkAt(P, R, c, n, p2, d, len, kipad, kopad, msg + 1, e, ml, word + 1, kopad2)
    BY <1>1, <1>2, <1>7, <2>1 DEF MkAt, d, N, UP, UR
  <2> QED
    BY <1>5, <1>6, <2>2 DEF d
<1> QED
  BY <1>8, <1>9

LEMMA MkEndAt ==
    ASSUME NEW n \in Nat, NEW P, NEW R, NEW c, NEW p, NEW eKipad, NEW len, NEW kipad, NEW kopad,
           NEW msg, NEW e, NEW ml, NEW word, NEW kopad2,
           MkAt(P, R, c, n, p, eKipad, len, kipad, kopad, msg, e, ml, word, kopad2),
           p.pc = "flag", eKipad = n,
           NEW p2, p2 = [pc |-> "done", pad |-> p.pad, words |-> p.words]
    PROVE  MkAt(P, R, c, n, p2, eKipad + 1, len, kipad, kopad, msg, e + 1, ml, word, kopad2) /\ e = n
<1>1. /\ kopad = eKipad /\ kipad = eKipad /\ word = Upto(P, eKipad) /\ msg = Upto(R, eKipad)
      /\ len = kipad /\ ml = kipad /\ e = eKipad /\ kopad2 = kopad
  BY DEF MkAt
<1>2. p2.pc = "done" /\ p2 = [pc |-> p2.pc, pad |-> p2.pad, words |-> p2.words]
  OBVIOUS
<1> QED
  BY <1>1, <1>2 DEF MkAt

LEMMA MoFlagAt ==
    ASSUME NEW n \in Nat, NEW P, Sums(P, n), NEW p, NEW eHash, NEW hash, NEW kopad2, NEW e, NEW len, NEW word,
           MoAt(P, n, p, eHash, hash, kopad2, e, len, word), p.pc = "flag", eHash + 1 <= n,
           Len(P[eHash + 1]) # 0, NEW p2, p2 = [pc |-> "words", words |-> P[eHash + 1]]
    PROVE  MoAt(P, n, p2, eHash + 1, hash + 1, kopad2 + 1, e + 1, len + 1, word)
<1> DEFINE d == eHash + 1
           N == Len(P[d])
<1>1. /\ eHash \in 0..n /\ hash = eHash /\ word = Upto(P, eHash) /\ kopad2 = hash /\ len = hash /\ e = eHash
  BY DEF MoAt
<1>2. d \in 1..n /\ d - 1 = eHash
  BY <1>1
<1>3. N # 0 /\ p2.pc = "words" /\ p2.words = P[d] /\ p2 = [pc |-> p2.pc, words |-> p2.words]
  OBVIOUS
<1> HIDE DEF d
<1>4. IsStream(P[d]) /\ N \in Nat /\ Upto(P, d) = Upto(P, d - 1) + N
  BY <1>2 DEF Sums
<1>5. N \in 1..N /\ N - N + 1 = 1
  BY <1>3, <1>4
<1>6. P[d] = SubSeq(P[d], N - N + 1, N)
  BY <1>4, <1>5, SliceWhole
<1>7. word + N = Upto(P, d)
  BY <1>1, <1>2, <1>4
<1> HIDE DEF N
<1>8. Len(p2.words) = N /\ Len(P[d]) = N
  BY <1>3 DEF N
<1> QED
  BY <1>1, <1>2, <1>3, <1>5, <1>6, <1>7, <1>8 DEF MoAt, d

LEMMA MoWordAt ==
    ASSUME NEW n \in Nat, NEW P, NEW t, Carries(t, P, n),
           NEW p, NEW eHash, NEW hash, NEW kopad2, NEW e, NEW len, NEW word, word \in Nat,
           MoAt(P, n, p, eHash, hash, kopad2, e, len, word), p.pc = "words",
           NEW p2, p2 = [pc |-> IF Len(p.words) = 1 THEN "flag" ELSE "words", words |-> Tail(p.words)]
    PROVE  /\ MoAt(P, n, p2, eHash, hash, kopad2, e, len, word + 1)
           /\ word < Len(t) /\ Head(p.words) = t[word + 1]
<1> DEFINE d == eHash
           s == p.words
           k == Len(s)
           ws == P[d]
           N == Len(ws)
           u == Upto(P, d - 1)
           UP == Upto(P, d)
           m == k - 1
           i == N - k + 1
<1>1. /\ d \in 1..n /\ hash = eHash /\ kopad2 = hash /\ len = hash /\ e = eHash
      /\ k \in 1..N /\ s = SubSeq(ws, N - k + 1, N) /\ word + k = UP
  BY DEF MoAt
<1>2. p2.pc = (IF k = 1 THEN "flag" ELSE "words") /\ p2.words = Tail(s)
      /\ p2 = [pc |-> p2.pc, words |-> p2.words]
  OBVIOUS
<1>3. /\ u \in Nat /\ N \in Nat /\ IsStream(ws) /\ UP = u + N /\ UP <= Len(t) /\ Len(t) \in Nat
      /\ \A j \in 1..N : t[u + j] = ws[j]
  <2> HIDE DEF d
  <2>1. /\ Upto(P, d - 1) \in Nat /\ Len(P[d]) \in Nat /\ IsStream(P[d])
        /\ Upto(P, d) = Upto(P, d - 1) + Len(P[d]) /\ Upto(P, d) <= Len(t) /\ Len(t) \in Nat
        /\ \A j \in 1..Len(P[d]) : t[Upto(P, d - 1) + j] = P[d][j]
    BY <1>1, PartPlace
  <2> QED
    BY <2>1
<1>4. Rest(ws, N, k, s) /\ N <= Len(ws)
  <2> HIDE DEF ws, u, UP
  <2>1. Rest(ws, N, k, s)
    BY <1>1 DEF Rest
  <2>2. N <= Len(ws)
    BY <1>3
  <2> QED
    BY <2>1, <2>2
<1> HIDE DEF d, s, k, ws, N, u, UP
<1>5. RestGoes(ws, N, k, s)
  <2>1. Remains(ws, N, k, s)
    BY <1>1, <1>3, <1>4 DEF Remains
  <2> QED
    BY <2>1, RestNext
<1>6. Head(s) = ws[i] /\ Rest(ws, N, m, Tail(s))
  BY <1>5 DEF RestGoes
<1>7. i \in 1..N /\ word + 1 = u + i /\ word + 1 + m = UP /\ word < UP /\ UP \in Nat
  BY <1>1, <1>3
<1>8. word < Len(t)
  BY <1>3, <1>7
<1> HIDE DEF i
<1>9. Head(s) = t[word + 1]
  BY <1>3, <1>6, <1>7
<1>10. Len(Tail(s)) = m /\ Tail(s) = SubSeq(ws, N - m + 1, N)
  BY <1>6 DEF Rest
<1>11. MoAt(P, n, p2, d, hash, kopad2, e, len, word + 1)
  <2>1. CASE k = 1
    <3>1. word + 1 = UP /\ p2.pc = "flag" /\ d \in 0..n
      BY <1>1, <1>2, <2>1
    <3> QED
      BY <1>1, <1>2, <3>1 DEF MoAt, d, UP
  <2>2. CASE k # 1
    <3>1. m \in 1..N
      BY <1>1, <1>3, <2>2
    <3>2. p2.pc = "words"
      BY <1>2, <2>2
    <3> HIDE DEF m
    <3> QED
      BY <1>1, <1>2, <1>7, <1>10, <3>1, <3>2 DEF MoAt, d, UP, N, ws
  <2> QED
    BY <2>1, <2>2
<1> QED
  BY <1>8, <1>9, <1>11 DEF d, s

LEMMA MoEndAt ==
    ASSUME NEW n \in Nat, NEW P, NEW p, NEW eHash, NEW hash, NEW kopad2, NEW e, NEW len, NEW word,
           MoAt(P, n, p, eHash, hash, kopad2, e, len, word), p.pc = "flag", eHash = n,
           NEW p2, p2 = [pc |-> "done", words |-> p.words]
    PROVE  MoAt(P, n, p2, eHash + 1, hash, kopad2, e + 1, len, word) /\ e = n
<1>1. hash = eHash /\ word = Upto(P, eHash) /\ kopad2 = hash /\ len = hash /\ e = eHash
  BY DEF MoAt
<1>2. p2.pc = "done" /\ p2 = [pc |-> p2.pc, words |-> p2.words]
  OBVIOUS
<1> QED
  BY <1>1, <1>2 DEF MoAt

(* The caller takes a MAC, or the end.                                     *)
LEMMA TakeMacAt ==
    ASSUME NEW n \in Nat, NEW o, NEW eHash, NEW hash, OutAt(n, o, eHash, hash), ~o.ended, eHash + 1 <= n,
           NEW o2, o2 = [hashes |-> Append(o.hashes, Digest("res", hash + 1)), ended |-> o.ended]
    PROVE  OutAt(n, o2, eHash + 1, hash + 1)
<1> DEFINE s == o.hashes
           x == Digest("res", hash + 1)
           d == hash + 1
<1>1. IsStream(s) /\ Len(s) = hash /\ (\A m \in 1..hash : s[m] = Digest("res", m)) /\ hash \in 0..n /\ eHash = hash
  BY DEF OutAt
<1>2. o2.hashes = Append(s, x) /\ o2.ended = FALSE /\ o2 = [hashes |-> o2.hashes, ended |-> o2.ended]
  BY DEF OutAt
<1> HIDE DEF s
<1>3. IsStream(o2.hashes) /\ Len(o2.hashes) = d /\ o2.hashes[d] = Digest("res", d)
      /\ \A m \in 1..hash : o2.hashes[m] = s[m]
  <2> HIDE DEF x, d
  <2>1. /\ IsStream(Append(s, x)) /\ Len(Append(s, x)) = hash + 1 /\ Append(s, x)[hash + 1] = x
        /\ \A m \in 1..hash : Append(s, x)[m] = s[m]
    BY <1>1, GrownStream
  <2>2. d = hash + 1 /\ x = Digest("res", d)
    BY DEF d, x
  <2> QED
    BY <1>2, <2>1, <2>2
<1>4. \A m \in 1..d : o2.hashes[m] = Digest("res", m)
  <2> TAKE m \in 1..d
  <2>1. CASE m = d
    BY <1>3, <2>1
  <2>2. CASE m # d
    <3>1. m \in 1..hash
      BY <1>1, <2>2
    <3> QED
      BY <1>1, <1>3, <3>1
  <2> QED
    BY <2>1, <2>2
<1>5. d \in 0..n /\ eHash + 1 = d
  BY <1>1
<1> QED
  BY <1>2, <1>3, <1>4, <1>5 DEF OutAt

LEMMA TakeEndAt ==
    ASSUME NEW n \in Nat, NEW o, NEW eHash, NEW hash, OutAt(n, o, eHash, hash), ~o.ended, eHash = n,
           NEW o2, o2 = [hashes |-> o.hashes, ended |-> TRUE]
    PROVE  OutAt(n, o2, eHash + 1, hash)
BY DEF OutAt

(* kpad, step by step.                                                     *)
LEMMA KpShortAt ==
    ASSUME NEW n \in Nat, NEW P, Sums(P, n), NEW long, ~long, NEW p, NEW inE, NEW keyWord, NEW keyHash, NEW keyEHash,
           NEW keyE, NEW keyLen, NEW eKipad, NEW kipad, NEW kopad, inE \in Nat, inE + 1 <= n,
           KpAt(P, n, long, p, inE, keyWord, keyHash, keyEHash, keyE, keyLen, eKipad, kipad, kopad)
    PROVE  /\ KpAt(P, n, long, p, inE + 1, keyWord + Len(P[inE + 1]), keyHash, keyEHash, keyE, keyLen,
                   eKipad + 1, kipad + 1, kopad + 1)
           /\ keyWord = Upto(P, inE) /\ eKipad = inE /\ kipad = inE /\ kopad = inE
<1>1. /\ kipad \in 0..n /\ kopad = kipad /\ eKipad = (IF p.pad THEN kipad ELSE n + 1)
      /\ inE = eKipad /\ keyWord = Upto(P, kipad) /\ ~p.expand /\ keyE = 0 /\ keyLen = 0
      /\ p = [expand |-> p.expand, pad |-> p.pad] /\ p.expand \in BOOLEAN /\ p.pad \in BOOLEAN
  BY DEF KpAt
<1> DEFINE d == inE + 1
<1>2. p.pad /\ kipad = inE /\ d \in 1..n /\ d - 1 = inE /\ kipad + 1 = d
  BY <1>1
<1> HIDE DEF d
<1>3. Upto(P, d) = Upto(P, inE) + Len(P[d])
  BY <1>2 DEF Sums
<1>4. d \in 0..n
  BY <1>2
<1> QED
  BY <1>1, <1>2, <1>3, <1>4 DEF KpAt, d

LEMMA KpExpandAt ==
    ASSUME NEW n \in Nat, NEW P, NEW long, NEW p, NEW inE, NEW keyWord, NEW keyHash, NEW keyEHash,
           NEW keyE, NEW keyLen, NEW eKipad, NEW kipad, NEW kopad, p.expand, inE + 1 <= n,
           KpAt(P, n, long, p, inE, keyWord, keyHash, keyEHash, keyE, keyLen, eKipad, kipad, kopad)
    PROVE  /\ KpAt(P, n, long, p, inE + 1, keyWord, keyHash, keyEHash, keyE + 1, keyLen + 1,
                   eKipad, kipad, kopad)
           /\ long /\ keyE = inE /\ keyLen = inE
BY DEF KpAt

LEMMA KpExpandEndAt ==
    ASSUME NEW n \in Nat, NEW P, NEW long, NEW p, NEW inE, NEW keyWord, NEW keyHash, NEW keyEHash,
           NEW keyE, NEW keyLen, NEW eKipad, NEW kipad, NEW kopad, p.expand, inE = n,
           KpAt(P, n, long, p, inE, keyWord, keyHash, keyEHash, keyE, keyLen, eKipad, kipad, kopad),
           NEW p2, p2 = [expand |-> FALSE, pad |-> p.pad]
    PROVE  /\ KpAt(P, n, long, p2, inE + 1, keyWord, keyHash, keyEHash, keyE + 1, keyLen,
                   eKipad, kipad, kopad)
           /\ long /\ keyE = n
BY DEF KpAt

LEMMA KpGenAt ==
    ASSUME NEW n \in Nat, NEW P, NEW long, long, NEW p, NEW inE, NEW keyWord, NEW keyHash, NEW keyEHash,
           NEW keyE, NEW keyLen, NEW eKipad, NEW kipad, NEW kopad, keyEHash + 1 <= n, keyEHash \in Nat,
           KpAt(P, n, long, p, inE, keyWord, keyHash, keyEHash, keyE, keyLen, eKipad, kipad, kopad)
    PROVE  /\ KpAt(P, n, long, p, inE, keyWord, keyHash + 1, keyEHash + 1, keyE, keyLen,
                   eKipad + 1, kipad + 1, kopad + 1)
           /\ keyHash = keyEHash /\ eKipad = keyEHash /\ kipad = keyEHash /\ kopad = keyEHash
BY DEF KpAt

LEMMA KpEndAt ==
    ASSUME NEW n \in Nat, NEW P, NEW long \in BOOLEAN, NEW p, NEW inE, NEW keyWord, NEW keyHash, NEW keyEHash,
           NEW keyE, NEW keyLen, NEW eKipad, NEW kipad, NEW kopad, p.pad,
           (IF long THEN keyEHash ELSE inE) = n,
           KpAt(P, n, long, p, inE, keyWord, keyHash, keyEHash, keyE, keyLen, eKipad, kipad, kopad),
           NEW p2, p2 = [expand |-> p.expand, pad |-> FALSE]
    PROVE  /\ KpAt(P, n, long, p2, IF long THEN inE ELSE inE + 1, keyWord, keyHash,
                   IF long THEN keyEHash + 1 ELSE keyEHash, keyE, keyLen, eKipad + 1, kipad, kopad)
           /\ eKipad = n
<1>1. CASE long
  BY <1>1 DEF KpAt
<1>2. CASE ~long
  BY <1>2 DEF KpAt
<1> QED
  BY <1>1, <1>2

-----------------------------------------------------------------------------
(***************************************************************************)
(* Steps of the network: each process has FIFOs of its own to read and to  *)
(* write, and leaves what the others have read and written alone.          *)
(***************************************************************************)
KpGets(long) == {<<"in", "e">>, <<"key", "hash">>, <<"key", "eHash">>}
                \cup (IF long THEN {} ELSE {<<"key", "word">>})
KpPuts == {<<"key", "e">>, <<"key", "len">>, <<"kpad", "eKipad">>, <<"kpad", "kipad">>, <<"kpad", "kopad">>}
MkGets == {<<"kpad", "eKipad">>, <<"in", "len">>, <<"kpad", "kipad">>, <<"kpad", "kopad">>, <<"in", "msg">>}
MkPuts == {<<"msg", "e">>, <<"msg", "len">>, <<"msg", "word">>, <<"merge", "kopad2">>}
MoGets == {<<"msg", "eHash">>, <<"msg", "hash">>, <<"merge", "kopad2">>}
MoPuts == {<<"res", "e">>, <<"res", "len">>, <<"res", "word">>}
PreGets(u, long) == {<<u, "e">>, <<u, "len">>} \cup (IF u = "key" /\ ~long THEN {} ELSE {<<u, "word">>})
PrePuts(u) == {<<u, "nblk">>, <<u, "blk">>}
DigGets(u) == {<<u, "nblk">>, <<u, "blk">>}
DigPuts(u) == {<<u, "hash">>, <<u, "eHash">>}
OutGets == {<<"res", "eHash">>, <<"res", "hash">>}

Agree(f2, f, cs) == \A c \in cs : f2[c] = f[c]

LEMMA KpFrame ==
    ASSUME NEW n, NEW long, NEW P, NEW r, NEW w, NEW p, NEW r2, NEW w2,
           Agree(r2, r, KpGets(long)), Agree(w2, w, KpPuts), KpIn(n, long, P, r, w, p)
    PROVE  KpIn(n, long, P, r2, w2, p)
BY DEF Agree, KpGets, KpPuts, KpIn

LEMMA MkFrame ==
    ASSUME NEW n, NEW c, NEW P, NEW R, NEW r, NEW w, NEW p, NEW r2, NEW w2,
           Agree(r2, r, MkGets), Agree(w2, w, MkPuts), MkIn(n, c, P, R, r, w, p)
    PROVE  MkIn(n, c, P, R, r2, w2, p)
BY DEF Agree, MkGets, MkPuts, MkIn

LEMMA MoFrame ==
    ASSUME NEW n, NEW P, NEW r, NEW w, NEW p, NEW r2, NEW w2,
           Agree(r2, r, MoGets), Agree(w2, w, MoPuts), MoIn(n, P, r, w, p)
    PROVE  MoIn(n, P, r2, w2, p)
BY DEF Agree, MoGets, MoPuts, MoIn

LEMMA PreFrame ==
    ASSUME NEW u, NEW n, NEW b, NEW long, NEW L, NEW P, NEW Q, NEW r, NEW w, NEW p, NEW r2, NEW w2,
           Agree(r2, r, PreGets(u, long)), Agree(w2, w, PrePuts(u)), PreIn(u, n, b, long, L, P, Q, r, w, p)
    PROVE  PreIn(u, n, b, long, L, P, Q, r2, w2, p)
BY DEF Agree, PreGets, PrePuts, PreIn

LEMMA DigFrame ==
    ASSUME NEW u, NEW n, NEW Q, NEW r, NEW w, NEW p, NEW h, NEW r2, NEW w2,
           Agree(r2, r, DigGets(u)), Agree(w2, w, DigPuts(u)), DigIn(u, n, Q, r, w, p, h)
    PROVE  DigIn(u, n, Q, r2, w2, p, h)
BY DEF Agree, DigGets, DigPuts, DigIn

LEMMA OutFrame ==
    ASSUME NEW n, NEW r, NEW o, NEW r2, Agree(r2, r, OutGets), OutIn(n, r, o)
    PROVE  OutIn(n, r2, o)
BY DEF Agree, OutGets, OutIn

(* No FIFO has two readers or two writers.                                 *)
LEMMA WiringOfGets ==
    ASSUME NEW long \in BOOLEAN
    PROVE  /\ KpGets(long) \subseteq Chans \ (MkGets \cup MoGets \cup OutGets)
           /\ MkGets \subseteq Chans \ (KpGets(long) \cup MoGets \cup OutGets)
           /\ MoGets \subseteq Chans \ (KpGets(long) \cup MkGets \cup OutGets)
           /\ OutGets \subseteq Chans \ (KpGets(long) \cup MkGets \cup MoGets)
           /\ \A u \in Units :
                 /\ PreGets(u, long) \subseteq Chans \ (KpGets(long) \cup MkGets \cup MoGets \cup OutGets)
                 /\ DigGets(u) \subseteq Chans \ (KpGets(long) \cup MkGets \cup MoGets \cup OutGets)
                 /\ KpGets(long) \subseteq Chans \ (PreGets(u, long) \cup DigGets(u))
                 /\ MkGets \subseteq Chans \ (PreGets(u, long) \cup DigGets(u))
                 /\ MoGets \subseteq Chans \ (PreGets(u, long) \cup DigGets(u))
                 /\ OutGets \subseteq Chans \ (PreGets(u, long) \cup DigGets(u))
                 /\ \A v \in Units :
                       /\ DigGets(u) \subseteq Chans \ PreGets(v, long)
                       /\ PreGets(u, long) \subseteq Chans \ DigGets(v)
                       /\ u # v => DigGets(u) \subseteq Chans \ DigGets(v)
                       /\ u # v => PreGets(u, long) \subseteq Chans \ PreGets(v, long)
<1> USE DEF Chans, Units, KpGets, MkGets, MoGets, OutGets
<1>1. /\ KpGets(long) \subseteq Chans \ (MkGets \cup MoGets \cup OutGets)
      /\ MkGets \subseteq Chans \ (KpGets(long) \cup MoGets \cup OutGets)
  OBVIOUS
<1>2. /\ MoGets \subseteq Chans \ (KpGets(long) \cup MkGets \cup OutGets)
      /\ OutGets \subseteq Chans \ (KpGets(long) \cup MkGets \cup MoGets)
  OBVIOUS
<1>3. ASSUME NEW u \in Units
      PROVE  /\ PreGets(u, long) \subseteq Chans \ (KpGets(long) \cup MkGets \cup MoGets \cup OutGets)
             /\ DigGets(u) \subseteq Chans \ (KpGets(long) \cup MkGets \cup MoGets \cup OutGets)
             /\ KpGets(long) \subseteq Chans \ (PreGets(u, long) \cup DigGets(u))
             /\ MkGets \subseteq Chans \ (PreGets(u, long) \cup DigGets(u))
             /\ MoGets \subseteq Chans \ (PreGets(u, long) \cup DigGets(u))
             /\ OutGets \subseteq Chans \ (PreGets(u, long) \cup DigGets(u))
  <2>1. PreGets(u, long) \subseteq Chans \ (KpGets(long) \cup MkGets \cup MoGets \cup OutGets)
    BY DEF PreGets
  <2>2. DigGets(u) \subseteq Chans \ (KpGets(long) \cup MkGets \cup MoGets \cup OutGets)
    BY DEF DigGets
  <2>3. KpGets(long) \subseteq Chans /\ MkGets \subseteq Chans /\ MoGets \subseteq Chans /\ OutGets \subseteq Chans
    OBVIOUS
  <2> HIDE DEF Chans, Units, KpGets, MkGets, MoGets, OutGets
  <2> QED
    BY <2>1, <2>2, <2>3
<1>4. ASSUME NEW u \in Units, NEW v \in Units
      PROVE  /\ DigGets(u) \subseteq Chans \ PreGets(v, long)
             /\ PreGets(u, long) \subseteq Chans \ DigGets(v)
             /\ u # v => DigGets(u) \subseteq Chans \ DigGets(v)
             /\ u # v => PreGets(u, long) \subseteq Chans \ PreGets(v, long)
  BY DEF PreGets, DigGets
<1> HIDE DEF Chans, Units, KpGets, MkGets, MoGets, OutGets
<1> QED
  BY <1>1, <1>2, <1>3, <1>4

LEMMA WiringOfPuts ==
    /\ KpPuts \subseteq Chans \ (MkPuts \cup MoPuts)
    /\ MkPuts \subseteq Chans \ (KpPuts \cup MoPuts)
    /\ MoPuts \subseteq Chans \ (KpPuts \cup MkPuts)
    /\ Given \subseteq Chans \ (KpPuts \cup MkPuts \cup MoPuts)
    /\ \A u \in Units :
          /\ PrePuts(u) \subseteq Chans \ (KpPuts \cup MkPuts \cup MoPuts)
          /\ DigPuts(u) \subseteq Chans \ (KpPuts \cup MkPuts \cup MoPuts)
          /\ KpPuts \subseteq Chans \ (PrePuts(u) \cup DigPuts(u))
          /\ MkPuts \subseteq Chans \ (PrePuts(u) \cup DigPuts(u))
          /\ MoPuts \subseteq Chans \ (PrePuts(u) \cup DigPuts(u))
          /\ Given \subseteq Chans \ (PrePuts(u) \cup DigPuts(u))
          /\ \A v \in Units :
                /\ DigPuts(u) \subseteq Chans \ PrePuts(v)
                /\ PrePuts(u) \subseteq Chans \ DigPuts(v)
                /\ u # v => DigPuts(u) \subseteq Chans \ DigPuts(v)
                /\ u # v => PrePuts(u) \subseteq Chans \ PrePuts(v)
<1> USE DEF Chans, Units, KpPuts, MkPuts, MoPuts, Given
<1>1. /\ KpPuts \subseteq Chans \ (MkPuts \cup MoPuts)
      /\ MkPuts \subseteq Chans \ (KpPuts \cup MoPuts)
      /\ MoPuts \subseteq Chans \ (KpPuts \cup MkPuts)
      /\ Given \subseteq Chans \ (KpPuts \cup MkPuts \cup MoPuts)
  OBVIOUS
<1>2. ASSUME NEW u \in Units
      PROVE  /\ PrePuts(u) \subseteq Chans \ (KpPuts \cup MkPuts \cup MoPuts \cup Given)
             /\ DigPuts(u) \subseteq Chans \ (KpPuts \cup MkPuts \cup MoPuts \cup Given)
             /\ KpPuts \subseteq Chans /\ MkPuts \subseteq Chans /\ MoPuts \subseteq Chans /\ Given \subseteq Chans
  BY DEF PrePuts, DigPuts
<1>3. ASSUME NEW u \in Units, NEW v \in Units
      PROVE  /\ DigPuts(u) \subseteq Chans \ PrePuts(v)
             /\ PrePuts(u) \subseteq Chans \ DigPuts(v)
             /\ u # v => DigPuts(u) \subseteq Chans \ DigPuts(v)
             /\ u # v => PrePuts(u) \subseteq Chans \ PrePuts(v)
  BY DEF PrePuts, DigPuts
<1> HIDE DEF Chans, Units, KpPuts, MkPuts, MoPuts, Given
<1> QED
  BY <1>1, <1>2, <1>3

(* A state reached by reading r and writing w.                             *)
Now(r, w) == call \in Calls /\ r \in [Chans -> Nat] /\ w \in [Chans -> Nat] /\ Reached(r, w)

(* What a step of a process, which reads of gets and writes to puts, has   *)
(* to show.                                                                *)
Onward(r, w, r2, w2, gets, puts) ==
    /\ call' = call /\ r2 \in [Chans -> Nat] /\ w2 \in [Chans -> Nat]
    /\ Agree(r2, r, Chans \ gets) /\ Agree(w2, w, Chans \ puts)
    /\ Flow(q', Streams, r2, w2)

Shaped(f) == f = [u \in Units |-> f[u]]

LEMMA Arrive ==
    ASSUME NEW r, NEW w, Now(r, w), NEW r2, NEW w2, NEW gets, NEW puts, Onward(r, w, r2, w2, gets, puts),
           Given \subseteq Chans \ puts, Shaped(pre'), Shaped(dig'), Shaped(hashed'),
           Network(Count, call.w, PadWords, LongKey, Lengths, Worded, Blocked, Bodies, r2, w2,
                   kp', mk', mo', pre', dig', hashed', out')
    PROVE  IInv'
<1>1. call' = call /\ r2 \in [Chans -> Nat] /\ w2 \in [Chans -> Nat] /\ Flow(q', Streams, r2, w2)
  BY DEF Onward
<1>2. call \in Calls /\ call' \in Calls
  BY <1>1 DEF Now
<1>3. /\ Count' = Count /\ PadWords' = PadWords /\ LongKey' = LongKey /\ Messages' = Messages
      /\ Lengths' = Lengths /\ Worded' = Worded /\ Blocked' = Blocked /\ Bodies' = Bodies /\ Streams' = Streams
  <2>1. Messages' = Messages /\ LongKey' = LongKey /\ Count' = Count /\ PadWords' = PadWords
    BY <1>1 DEF Messages, LongKey, Count, PadWords
  <2>2. ASSUME NEW u, NEW m PROVE TextOf(u, m)' = TextOf(u, m)
    BY <1>1 DEF TextOf, Key, Message, PaddedKey, LongKey
  <2>3. ASSUME NEW m PROVE PaddedKey(m)' = PaddedKey(m) /\ Message(m)' = Message(m)
    BY <1>1 DEF PaddedKey, LongKey, Key, Message
  <2>4. Lengths' = Lengths
    BY <2>1, <2>2, Zenon DEF Lengths
  <2>5. Worded' = Worded
    BY <1>1, <2>1, <2>2, Zenon DEF Worded
  <2>6. Blocked' = Blocked
    BY <2>1, <2>2, Zenon DEF Blocked
  <2>7. Bodies' = Bodies
    BY <1>1, <2>1, <2>3, Zenon DEF Bodies
  <2>8. Keys' = Keys
    BY <1>1, <2>1, <2>3, Zenon DEF Keys
  <2>9. ASSUME NEW c PROVE StreamOf(c)' = StreamOf(c)
    BY <1>1, <2>1, <2>4, <2>5, <2>6, <2>7, <2>8 DEF StreamOf
  <2>10. Streams' = Streams
    BY <2>9, Zenon DEF Streams
  <2> QED
    BY <2>1, <2>4, <2>5, <2>6, <2>7, <2>10
<1>4. \A c \in Given : w2[c] = Len(Streams[c])
  <2>1. \A c \in Given : w2[c] = w[c] /\ w[c] = Len(Streams[c])
    BY DEF Now, Reached, Onward, Agree
  <2> QED
    BY <2>1
<1>5. Reached(r2, w2)'
  BY <1>1, <1>3, <1>4 DEF Reached, Shaped
<1> QED
  BY <1>1, <1>2, <1>5 DEF IInv

(* A step of one process leaves the others where they were.                *)
LEMMA AgreeLess ==
    ASSUME NEW f2, NEW f, NEW X, NEW Y, Agree(f2, f, Chans \ X), Y \subseteq Chans \ X
    PROVE  Agree(f2, f, Y)
BY DEF Agree

LEMMA NetNow ==
    ASSUME NEW r, NEW w, Now(r, w)
    PROVE  /\ KpIn(Count, LongKey, Worded, r, w, kp) /\ MkIn(Count, PadWords, Worded, Bodies, r, w, mk)
           /\ MoIn(Count, Worded, r, w, mo) /\ OutIn(Count, r, out)
           /\ \A u \in Units :
                 /\ PreIn(u, Count, call.w, LongKey, Lengths, Worded, Blocked, r, w, pre[u])
                 /\ DigIn(u, Count, Blocked, r, w, dig[u], hashed[u])
           /\ Shaped(pre) /\ Shaped(dig) /\ Shaped(hashed) /\ LongKey \in BOOLEAN
BY DEF Now, Reached, Network, Shaped, LongKey

LEMMA KpStep ==
    ASSUME NEW r, NEW w, Now(r, w), NEW r2, NEW w2, Onward(r, w, r2, w2, KpGets(LongKey), KpPuts),
           UNCHANGED <<mk, mo, pre, dig, hashed, out>>, KpIn(Count, LongKey, Worded, r2, w2, kp')
    PROVE  IInv'
<1>1. Agree(r2, r, Chans \ KpGets(LongKey)) /\ Agree(w2, w, Chans \ KpPuts)
  BY DEF Onward
<1>2. MkIn(Count, PadWords, Worded, Bodies, r2, w2, mk')
  <2>1. Agree(r2, r, MkGets) /\ Agree(w2, w, MkPuts)
    <3>1. MkGets \subseteq Chans \ KpGets(LongKey)
      BY NetNow, WiringOfGets
    <3>2. MkPuts \subseteq Chans \ KpPuts
      BY WiringOfPuts
    <3> QED
      BY <1>1, <3>1, <3>2, AgreeLess
  <2> QED
    BY <2>1, NetNow, MkFrame
<1>3. MoIn(Count, Worded, r2, w2, mo')
  <2>1. Agree(r2, r, MoGets) /\ Agree(w2, w, MoPuts)
    <3>1. MoGets \subseteq Chans \ KpGets(LongKey)
      BY NetNow, WiringOfGets
    <3>2. MoPuts \subseteq Chans \ KpPuts
      BY WiringOfPuts
    <3> QED
      BY <1>1, <3>1, <3>2, AgreeLess
  <2> QED
    BY <2>1, NetNow, MoFrame
<1>4. OutIn(Count, r2, out')
  <2>1. Agree(r2, r, OutGets)
    <3>1. OutGets \subseteq Chans \ KpGets(LongKey)
      BY NetNow, WiringOfGets
    <3> QED
      BY <1>1, <3>1, AgreeLess
  <2> QED
    BY <2>1, NetNow, OutFrame
<1>5. ASSUME NEW u \in Units
      PROVE  /\ PreIn(u, Count, call.w, LongKey, Lengths, Worded, Blocked, r2, w2, pre'[u])
             /\ DigIn(u, Count, Blocked, r2, w2, dig'[u], hashed'[u])
  <2>1. /\ Agree(r2, r, PreGets(u, LongKey)) /\ Agree(w2, w, PrePuts(u))
        /\ Agree(r2, r, DigGets(u)) /\ Agree(w2, w, DigPuts(u))
    <3>1. PreGets(u, LongKey) \subseteq Chans \ KpGets(LongKey)
      BY NetNow, WiringOfGets
    <3>2. PrePuts(u) \subseteq Chans \ KpPuts
      BY WiringOfPuts
    <3>3. DigGets(u) \subseteq Chans \ KpGets(LongKey)
      BY NetNow, WiringOfGets
    <3>4. DigPuts(u) \subseteq Chans \ KpPuts
      BY WiringOfPuts
    <3> QED
      BY <1>1, <3>1, <3>2, <3>3, <3>4, AgreeLess
  <2>2. PreIn(u, Count, call.w, LongKey, Lengths, Worded, Blocked, r2, w2, pre[u])
    BY <2>1, NetNow, PreFrame
  <2>3. DigIn(u, Count, Blocked, r2, w2, dig[u], hashed[u])
    BY <2>1, NetNow, DigFrame
  <2> QED
    BY <2>2, <2>3
<1>6. Network(Count, call.w, PadWords, LongKey, Lengths, Worded, Blocked, Bodies, r2, w2,
             kp', mk', mo', pre', dig', hashed', out')
  BY <1>2, <1>3, <1>4, <1>5 DEF Network
<1>7. Given \subseteq Chans \ KpPuts
  BY WiringOfPuts DEF Given, Chans, Units
<1>8. Shaped(pre') /\ Shaped(dig') /\ Shaped(hashed')
  BY NetNow
<1> QED
  BY <1>6, <1>7, <1>8, Arrive

LEMMA MkStep ==
    ASSUME NEW r, NEW w, Now(r, w), NEW r2, NEW w2, Onward(r, w, r2, w2, MkGets, MkPuts),
           UNCHANGED <<kp, mo, pre, dig, hashed, out>>, MkIn(Count, PadWords, Worded, Bodies, r2, w2, mk')
    PROVE  IInv'
<1>1. Agree(r2, r, Chans \ MkGets) /\ Agree(w2, w, Chans \ MkPuts)
  BY DEF Onward
<1>2. KpIn(Count, LongKey, Worded, r2, w2, kp')
  <2>1. Agree(r2, r, KpGets(LongKey)) /\ Agree(w2, w, KpPuts)
    <3>1. KpGets(LongKey) \subseteq Chans \ MkGets
      BY NetNow, WiringOfGets
    <3>2. KpPuts \subseteq Chans \ MkPuts
      BY WiringOfPuts
    <3> QED
      BY <1>1, <3>1, <3>2, AgreeLess
  <2> QED
    BY <2>1, NetNow, KpFrame
<1>3. MoIn(Count, Worded, r2, w2, mo')
  <2>1. Agree(r2, r, MoGets) /\ Agree(w2, w, MoPuts)
    <3>1. MoGets \subseteq Chans \ MkGets
      BY NetNow, WiringOfGets
    <3>2. MoPuts \subseteq Chans \ MkPuts
      BY WiringOfPuts
    <3> QED
      BY <1>1, <3>1, <3>2, AgreeLess
  <2> QED
    BY <2>1, NetNow, MoFrame
<1>4. OutIn(Count, r2, out')
  <2>1. Agree(r2, r, OutGets)
    <3>1. OutGets \subseteq Chans \ MkGets
      BY NetNow, WiringOfGets
    <3> QED
      BY <1>1, <3>1, AgreeLess
  <2> QED
    BY <2>1, NetNow, OutFrame
<1>5. ASSUME NEW u \in Units
      PROVE  /\ PreIn(u, Count, call.w, LongKey, Lengths, Worded, Blocked, r2, w2, pre'[u])
             /\ DigIn(u, Count, Blocked, r2, w2, dig'[u], hashed'[u])
  <2>1. /\ Agree(r2, r, PreGets(u, LongKey)) /\ Agree(w2, w, PrePuts(u))
        /\ Agree(r2, r, DigGets(u)) /\ Agree(w2, w, DigPuts(u))
    <3>1. PreGets(u, LongKey) \subseteq Chans \ MkGets
      BY NetNow, WiringOfGets
    <3>2. PrePuts(u) \subseteq Chans \ MkPuts
      BY WiringOfPuts
    <3>3. DigGets(u) \subseteq Chans \ MkGets
      BY NetNow, WiringOfGets
    <3>4. DigPuts(u) \subseteq Chans \ MkPuts
      BY WiringOfPuts
    <3> QED
      BY <1>1, <3>1, <3>2, <3>3, <3>4, AgreeLess
  <2>2. PreIn(u, Count, call.w, LongKey, Lengths, Worded, Blocked, r2, w2, pre[u])
    BY <2>1, NetNow, PreFrame
  <2>3. DigIn(u, Count, Blocked, r2, w2, dig[u], hashed[u])
    BY <2>1, NetNow, DigFrame
  <2> QED
    BY <2>2, <2>3
<1>6. Network(Count, call.w, PadWords, LongKey, Lengths, Worded, Blocked, Bodies, r2, w2,
             kp', mk', mo', pre', dig', hashed', out')
  BY <1>2, <1>3, <1>4, <1>5 DEF Network
<1>7. Given \subseteq Chans \ MkPuts
  BY WiringOfPuts DEF Given, Chans, Units
<1>8. Shaped(pre') /\ Shaped(dig') /\ Shaped(hashed')
  BY NetNow
<1> QED
  BY <1>6, <1>7, <1>8, Arrive

LEMMA MoStep ==
    ASSUME NEW r, NEW w, Now(r, w), NEW r2, NEW w2, Onward(r, w, r2, w2, MoGets, MoPuts),
           UNCHANGED <<kp, mk, pre, dig, hashed, out>>, MoIn(Count, Worded, r2, w2, mo')
    PROVE  IInv'
<1>1. Agree(r2, r, Chans \ MoGets) /\ Agree(w2, w, Chans \ MoPuts)
  BY DEF Onward
<1>2. KpIn(Count, LongKey, Worded, r2, w2, kp')
  <2>1. Agree(r2, r, KpGets(LongKey)) /\ Agree(w2, w, KpPuts)
    <3>1. KpGets(LongKey) \subseteq Chans \ MoGets
      BY NetNow, WiringOfGets
    <3>2. KpPuts \subseteq Chans \ MoPuts
      BY WiringOfPuts
    <3> QED
      BY <1>1, <3>1, <3>2, AgreeLess
  <2> QED
    BY <2>1, NetNow, KpFrame
<1>3. MkIn(Count, PadWords, Worded, Bodies, r2, w2, mk')
  <2>1. Agree(r2, r, MkGets) /\ Agree(w2, w, MkPuts)
    <3>1. MkGets \subseteq Chans \ MoGets
      BY NetNow, WiringOfGets
    <3>2. MkPuts \subseteq Chans \ MoPuts
      BY WiringOfPuts
    <3> QED
      BY <1>1, <3>1, <3>2, AgreeLess
  <2> QED
    BY <2>1, NetNow, MkFrame
<1>4. OutIn(Count, r2, out')
  <2>1. Agree(r2, r, OutGets)
    <3>1. OutGets \subseteq Chans \ MoGets
      BY NetNow, WiringOfGets
    <3> QED
      BY <1>1, <3>1, AgreeLess
  <2> QED
    BY <2>1, NetNow, OutFrame
<1>5. ASSUME NEW u \in Units
      PROVE  /\ PreIn(u, Count, call.w, LongKey, Lengths, Worded, Blocked, r2, w2, pre'[u])
             /\ DigIn(u, Count, Blocked, r2, w2, dig'[u], hashed'[u])
  <2>1. /\ Agree(r2, r, PreGets(u, LongKey)) /\ Agree(w2, w, PrePuts(u))
        /\ Agree(r2, r, DigGets(u)) /\ Agree(w2, w, DigPuts(u))
    <3>1. PreGets(u, LongKey) \subseteq Chans \ MoGets
      BY NetNow, WiringOfGets
    <3>2. PrePuts(u) \subseteq Chans \ MoPuts
      BY WiringOfPuts
    <3>3. DigGets(u) \subseteq Chans \ MoGets
      BY NetNow, WiringOfGets
    <3>4. DigPuts(u) \subseteq Chans \ MoPuts
      BY WiringOfPuts
    <3> QED
      BY <1>1, <3>1, <3>2, <3>3, <3>4, AgreeLess
  <2>2. PreIn(u, Count, call.w, LongKey, Lengths, Worded, Blocked, r2, w2, pre[u])
    BY <2>1, NetNow, PreFrame
  <2>3. DigIn(u, Count, Blocked, r2, w2, dig[u], hashed[u])
    BY <2>1, NetNow, DigFrame
  <2> QED
    BY <2>2, <2>3
<1>6. Network(Count, call.w, PadWords, LongKey, Lengths, Worded, Blocked, Bodies, r2, w2,
             kp', mk', mo', pre', dig', hashed', out')
  BY <1>2, <1>3, <1>4, <1>5 DEF Network
<1>7. Given \subseteq Chans \ MoPuts
  BY WiringOfPuts DEF Given, Chans, Units
<1>8. Shaped(pre') /\ Shaped(dig') /\ Shaped(hashed')
  BY NetNow
<1> QED
  BY <1>6, <1>7, <1>8, Arrive

LEMMA OutStep ==
    ASSUME NEW r, NEW w, Now(r, w), NEW r2, NEW w2, Onward(r, w, r2, w2, OutGets, {}),
           UNCHANGED <<kp, mk, mo, pre, dig, hashed>>, OutIn(Count, r2, out')
    PROVE  IInv'
<1>1. Agree(r2, r, Chans \ OutGets) /\ Agree(w2, w, Chans \ {})
  BY DEF Onward
<1>2. KpIn(Count, LongKey, Worded, r2, w2, kp')
  <2>1. Agree(r2, r, KpGets(LongKey)) /\ Agree(w2, w, KpPuts)
    <3>1. KpGets(LongKey) \subseteq Chans \ OutGets
      BY NetNow, WiringOfGets
    <3>2. KpPuts \subseteq Chans \ {}
      BY WiringOfPuts
    <3> QED
      BY <1>1, <3>1, <3>2, AgreeLess
  <2> QED
    BY <2>1, NetNow, KpFrame
<1>3. MkIn(Count, PadWords, Worded, Bodies, r2, w2, mk')
  <2>1. Agree(r2, r, MkGets) /\ Agree(w2, w, MkPuts)
    <3>1. MkGets \subseteq Chans \ OutGets
      BY NetNow, WiringOfGets
    <3>2. MkPuts \subseteq Chans \ {}
      BY WiringOfPuts
    <3> QED
      BY <1>1, <3>1, <3>2, AgreeLess
  <2> QED
    BY <2>1, NetNow, MkFrame
<1>4. MoIn(Count, Worded, r2, w2, mo')
  <2>1. Agree(r2, r, MoGets) /\ Agree(w2, w, MoPuts)
    <3>1. MoGets \subseteq Chans \ OutGets
      BY NetNow, WiringOfGets
    <3>2. MoPuts \subseteq Chans \ {}
      BY WiringOfPuts
    <3> QED
      BY <1>1, <3>1, <3>2, AgreeLess
  <2> QED
    BY <2>1, NetNow, MoFrame
<1>5. ASSUME NEW u \in Units
      PROVE  /\ PreIn(u, Count, call.w, LongKey, Lengths, Worded, Blocked, r2, w2, pre'[u])
             /\ DigIn(u, Count, Blocked, r2, w2, dig'[u], hashed'[u])
  <2>1. /\ Agree(r2, r, PreGets(u, LongKey)) /\ Agree(w2, w, PrePuts(u))
        /\ Agree(r2, r, DigGets(u)) /\ Agree(w2, w, DigPuts(u))
    <3>1. PreGets(u, LongKey) \subseteq Chans \ OutGets
      BY NetNow, WiringOfGets
    <3>2. PrePuts(u) \subseteq Chans \ {}
      BY WiringOfPuts
    <3>3. DigGets(u) \subseteq Chans \ OutGets
      BY NetNow, WiringOfGets
    <3>4. DigPuts(u) \subseteq Chans \ {}
      BY WiringOfPuts
    <3> QED
      BY <1>1, <3>1, <3>2, <3>3, <3>4, AgreeLess
  <2>2. PreIn(u, Count, call.w, LongKey, Lengths, Worded, Blocked, r2, w2, pre[u])
    BY <2>1, NetNow, PreFrame
  <2>3. DigIn(u, Count, Blocked, r2, w2, dig[u], hashed[u])
    BY <2>1, NetNow, DigFrame
  <2> QED
    BY <2>2, <2>3
<1>6. Network(Count, call.w, PadWords, LongKey, Lengths, Worded, Blocked, Bodies, r2, w2,
             kp', mk', mo', pre', dig', hashed', out')
  BY <1>2, <1>3, <1>4, <1>5 DEF Network
<1>7. Given \subseteq Chans \ {}
  BY WiringOfPuts DEF Given, Chans, Units
<1>8. Shaped(pre') /\ Shaped(dig') /\ Shaped(hashed')
  BY NetNow
<1> QED
  BY <1>6, <1>7, <1>8, Arrive

LEMMA PreStep ==
    ASSUME NEW u \in Units, NEW r, NEW w, Now(r, w), NEW r2, NEW w2,
           Onward(r, w, r2, w2, PreGets(u, LongKey), PrePuts(u)),
           UNCHANGED <<kp, mk, mo, dig, hashed, out>>, NEW p2, pre' = [pre EXCEPT ![u] = p2],
           PreIn(u, Count, call.w, LongKey, Lengths, Worded, Blocked, r2, w2, p2)
    PROVE  IInv'
<1>1. Agree(r2, r, Chans \ PreGets(u, LongKey)) /\ Agree(w2, w, Chans \ PrePuts(u))
  BY DEF Onward
<1>2. KpIn(Count, LongKey, Worded, r2, w2, kp')
  <2>1. Agree(r2, r, KpGets(LongKey)) /\ Agree(w2, w, KpPuts)
    <3>1. KpGets(LongKey) \subseteq Chans \ PreGets(u, LongKey)
      BY NetNow, WiringOfGets
    <3>2. KpPuts \subseteq Chans \ PrePuts(u)
      BY WiringOfPuts
    <3> QED
      BY <1>1, <3>1, <3>2, AgreeLess
  <2> QED
    BY <2>1, NetNow, KpFrame
<1>3. MkIn(Count, PadWords, Worded, Bodies, r2, w2, mk')
  <2>1. Agree(r2, r, MkGets) /\ Agree(w2, w, MkPuts)
    <3>1. MkGets \subseteq Chans \ PreGets(u, LongKey)
      BY NetNow, WiringOfGets
    <3>2. MkPuts \subseteq Chans \ PrePuts(u)
      BY WiringOfPuts
    <3> QED
      BY <1>1, <3>1, <3>2, AgreeLess
  <2> QED
    BY <2>1, NetNow, MkFrame
<1>4. MoIn(Count, Worded, r2, w2, mo')
  <2>1. Agree(r2, r, MoGets) /\ Agree(w2, w, MoPuts)
    <3>1. MoGets \subseteq Chans \ PreGets(u, LongKey)
      BY NetNow, WiringOfGets
    <3>2. MoPuts \subseteq Chans \ PrePuts(u)
      BY WiringOfPuts
    <3> QED
      BY <1>1, <3>1, <3>2, AgreeLess
  <2> QED
    BY <2>1, NetNow, MoFrame
<1>5. OutIn(Count, r2, out')
  <2>1. Agree(r2, r, OutGets)
    <3>1. OutGets \subseteq Chans \ PreGets(u, LongKey)
      BY NetNow, WiringOfGets
    <3> QED
      BY <1>1, <3>1, AgreeLess
  <2> QED
    BY <2>1, NetNow, OutFrame
<1>6. ASSUME NEW v \in Units
      PROVE  DigIn(v, Count, Blocked, r2, w2, dig'[v], hashed'[v])
  <2>1. Agree(r2, r, DigGets(v)) /\ Agree(w2, w, DigPuts(v))
    <3>1. DigGets(v) \subseteq Chans \ PreGets(u, LongKey)
      BY NetNow, WiringOfGets
    <3>2. DigPuts(v) \subseteq Chans \ PrePuts(u)
      BY WiringOfPuts
    <3> QED
      BY <1>1, <3>1, <3>2, AgreeLess
  <2> QED
    BY <2>1, NetNow, DigFrame
<1>7. ASSUME NEW v \in Units
      PROVE  PreIn(v, Count, call.w, LongKey, Lengths, Worded, Blocked, r2, w2, pre'[v])
  <2>1. pre'[v] = IF v = u THEN p2 ELSE pre[v]
    BY NetNow DEF Shaped
  <2>2. CASE v = u
    BY <2>1, <2>2
  <2>3. CASE v # u
    <3>1. Agree(r2, r, PreGets(v, LongKey)) /\ Agree(w2, w, PrePuts(v))
      <4>1. PreGets(v, LongKey) \subseteq Chans \ PreGets(u, LongKey)
        BY <2>3, NetNow, WiringOfGets
      <4>2. PrePuts(v) \subseteq Chans \ PrePuts(u)
        BY <2>3, WiringOfPuts
      <4> QED
        BY <1>1, <4>1, <4>2, AgreeLess
    <3> QED
      BY <2>1, <2>3, <3>1, NetNow, PreFrame
  <2> QED
    BY <2>2, <2>3
<1>8. Network(Count, call.w, PadWords, LongKey, Lengths, Worded, Blocked, Bodies, r2, w2,
             kp', mk', mo', pre', dig', hashed', out')
  BY <1>2, <1>3, <1>4, <1>5, <1>6, <1>7 DEF Network
<1>9. Given \subseteq Chans \ PrePuts(u)
  BY WiringOfPuts DEF Given, Chans, Units
<1>10. Shaped(pre') /\ Shaped(dig') /\ Shaped(hashed')
  BY NetNow DEF Shaped
<1> QED
  BY <1>8, <1>9, <1>10, Arrive

LEMMA DigStep ==
    ASSUME NEW u \in Units, NEW r, NEW w, Now(r, w), NEW r2, NEW w2,
           Onward(r, w, r2, w2, DigGets(u), DigPuts(u)),
           UNCHANGED <<kp, mk, mo, pre, out>>, NEW p2, dig' = [dig EXCEPT ![u] = p2],
           NEW h2, hashed' = [hashed EXCEPT ![u] = h2], DigIn(u, Count, Blocked, r2, w2, p2, h2)
    PROVE  IInv'
<1>1. Agree(r2, r, Chans \ DigGets(u)) /\ Agree(w2, w, Chans \ DigPuts(u))
  BY DEF Onward
<1>2. KpIn(Count, LongKey, Worded, r2, w2, kp')
  <2>1. Agree(r2, r, KpGets(LongKey)) /\ Agree(w2, w, KpPuts)
    <3>1. KpGets(LongKey) \subseteq Chans \ DigGets(u)
      BY NetNow, WiringOfGets
    <3>2. KpPuts \subseteq Chans \ DigPuts(u)
      BY WiringOfPuts
    <3> QED
      BY <1>1, <3>1, <3>2, AgreeLess
  <2> QED
    BY <2>1, NetNow, KpFrame
<1>3. MkIn(Count, PadWords, Worded, Bodies, r2, w2, mk')
  <2>1. Agree(r2, r, MkGets) /\ Agree(w2, w, MkPuts)
    <3>1. MkGets \subseteq Chans \ DigGets(u)
      BY NetNow, WiringOfGets
    <3>2. MkPuts \subseteq Chans \ DigPuts(u)
      BY WiringOfPuts
    <3> QED
      BY <1>1, <3>1, <3>2, AgreeLess
  <2> QED
    BY <2>1, NetNow, MkFrame
<1>4. MoIn(Count, Worded, r2, w2, mo')
  <2>1. Agree(r2, r, MoGets) /\ Agree(w2, w, MoPuts)
    <3>1. MoGets \subseteq Chans \ DigGets(u)
      BY NetNow, WiringOfGets
    <3>2. MoPuts \subseteq Chans \ DigPuts(u)
      BY WiringOfPuts
    <3> QED
      BY <1>1, <3>1, <3>2, AgreeLess
  <2> QED
    BY <2>1, NetNow, MoFrame
<1>5. OutIn(Count, r2, out')
  <2>1. Agree(r2, r, OutGets)
    <3>1. OutGets \subseteq Chans \ DigGets(u)
      BY NetNow, WiringOfGets
    <3> QED
      BY <1>1, <3>1, AgreeLess
  <2> QED
    BY <2>1, NetNow, OutFrame
<1>6. ASSUME NEW v \in Units
      PROVE  PreIn(v, Count, call.w, LongKey, Lengths, Worded, Blocked, r2, w2, pre'[v])
  <2>1. Agree(r2, r, PreGets(v, LongKey)) /\ Agree(w2, w, PrePuts(v))
    <3>1. PreGets(v, LongKey) \subseteq Chans \ DigGets(u)
      BY NetNow, WiringOfGets
    <3>2. PrePuts(v) \subseteq Chans \ DigPuts(u)
      BY WiringOfPuts
    <3> QED
      BY <1>1, <3>1, <3>2, AgreeLess
  <2> QED
    BY <2>1, NetNow, PreFrame
<1>7. ASSUME NEW v \in Units
      PROVE  DigIn(v, Count, Blocked, r2, w2, dig'[v], hashed'[v])
  <2>1. dig'[v] = (IF v = u THEN p2 ELSE dig[v]) /\ hashed'[v] = (IF v = u THEN h2 ELSE hashed[v])
    BY NetNow DEF Shaped
  <2>2. CASE v = u
    BY <2>1, <2>2
  <2>3. CASE v # u
    <3>1. Agree(r2, r, DigGets(v)) /\ Agree(w2, w, DigPuts(v))
      <4>1. DigGets(v) \subseteq Chans \ DigGets(u)
        BY <2>3, NetNow, WiringOfGets
      <4>2. DigPuts(v) \subseteq Chans \ DigPuts(u)
        BY <2>3, WiringOfPuts
      <4> QED
        BY <1>1, <4>1, <4>2, AgreeLess
    <3> QED
      BY <2>1, <2>3, <3>1, NetNow, DigFrame
  <2> QED
    BY <2>2, <2>3
<1>8. Network(Count, call.w, PadWords, LongKey, Lengths, Worded, Blocked, Bodies, r2, w2,
             kp', mk', mo', pre', dig', hashed', out')
  BY <1>2, <1>3, <1>4, <1>5, <1>6, <1>7 DEF Network
<1>9. Given \subseteq Chans \ DigPuts(u)
  BY WiringOfPuts DEF Given, Chans, Units
<1>10. Shaped(pre') /\ Shaped(dig') /\ Shaped(hashed')
  BY NetNow DEF Shaped
<1> QED
  BY <1>8, <1>9, <1>10, Arrive

-----------------------------------------------------------------------------
(* What a process finds in front of it.                                    *)
LEMMA NowFacts ==
    ASSUME NEW r, NEW w, Now(r, w)
    PROVE  /\ call \in Calls /\ Count \in Nat /\ Flow(q, Streams, r, w)
           /\ r \in [Chans -> Nat] /\ w \in [Chans -> Nat]
           /\ NetData(Streams, Count, call.w, PadWords, call.keyLen, Lengths, Worded, Blocked, Bodies, Keys)
           /\ \A c \in Chans : IsStream(Streams[c])
           /\ \A c \in Chans :
                 /\ r[c] \in Nat /\ w[c] \in Nat /\ Len(Streams[c]) \in Nat
                 /\ r[c] <= w[c] /\ w[c] <= Len(Streams[c])
                 /\ q[c] # << >> => r[c] < w[c] /\ Head(q[c]) = Streams[c][r[c] + 1]
<1>1. call \in Calls /\ Flow(q, Streams, r, w) /\ r \in [Chans -> Nat] /\ w \in [Chans -> Nat]
  BY DEF Now, Reached
<1>2. NetData(Streams, Count, call.w, PadWords, call.keyLen, Lengths, Worded, Blocked, Bodies, Keys)
  BY <1>1, NetDataRight
<1>3. Count \in Nat /\ \A c \in Chans : IsStream(Streams[c])
  BY <1>2 DEF NetData, Streamed
<1>4. \A c \in Chans :
         /\ r[c] \in Nat /\ w[c] \in Nat /\ Len(Streams[c]) \in Nat
         /\ r[c] <= w[c] /\ w[c] <= Len(Streams[c])
         /\ q[c] # << >> => r[c] < w[c] /\ Head(q[c]) = Streams[c][r[c] + 1]
  <2>1. Legible(Streams, q, r, w)
    BY <1>1, <1>3, Readable
  <2> QED
    BY <2>1 DEF Legible
<1> QED
  BY <1>1, <1>2, <1>3, <1>4

FlagChans == ({"in"} \X {"e"}) \cup ({"kpad"} \X {"eKipad"}) \cup (Units \X {"e", "eHash"})

LEMMA FlagsAre ==
    ASSUME NEW r, NEW w, Now(r, w)
    PROVE  \A c \in FlagChans : c \in Chans /\ Flagged(Streams[c], Count)
<1>1. Streamed(Streams, Count, Lengths, Worded, Blocked, Bodies, Keys)
  BY NowFacts DEF NetData
<1>2. /\ Flagged(Streams[<<"in", "e">>], Count) /\ Flagged(Streams[<<"kpad", "eKipad">>], Count)
      /\ \A u \in Units : Flagged(Streams[<<u, "e">>], Count) /\ Flagged(Streams[<<u, "eHash">>], Count)
  BY <1>1 DEF Streamed
<1> QED
  BY <1>2 DEF FlagChans, Chans, Units

(* A flag says whether there is another message.                           *)
LEMMA FlagsTell ==
    ASSUME NEW r, NEW w, Now(r, w), NEW c \in FlagChans
    PROVE  /\ Goes(c) => q[c] # << >> /\ r[c] + 1 <= Count
           /\ Ended(c) => q[c] # << >> /\ r[c] = Count
           /\ w[c] + 1 <= Count => w[c] < Len(Streams[c]) /\ Streams[c][w[c] + 1] = FALSE
           /\ w[c] = Count => w[c] < Len(Streams[c]) /\ Streams[c][w[c] + 1] = TRUE
<1> DEFINE t == Streams[c]
           n == Count
           k == r[c]
           m == w[c]
<1>1. /\ c \in Chans /\ Len(t) = n + 1 /\ (\A i \in 1..n : t[i] = FALSE) /\ t[n + 1] = TRUE
  BY FlagsAre DEF Flagged
<1>2. /\ n \in Nat /\ k \in Nat /\ m \in Nat /\ k <= m /\ m <= Len(t)
      /\ q[c] # << >> => k < m /\ Head(q[c]) = t[k + 1]
  BY <1>1, NowFacts
<1> HIDE DEF t, n, k, m
<1>3. ASSUME Goes(c) PROVE q[c] # << >> /\ k + 1 <= n
  <2>1. q[c] # << >> /\ ~Head(q[c])
    BY <1>3 DEF Goes
  <2>2. k + 1 # n + 1
    BY <1>1, <1>2, <2>1
  <2>3. q[c] # << >> /\ k < m /\ m <= n + 1
    BY <1>1, <1>2, <2>1
  <2> QED
    BY <1>2, <2>2, <2>3
<1>4. ASSUME Ended(c) PROVE q[c] # << >> /\ k = n
  <2>1. q[c] # << >> /\ Head(q[c])
    BY <1>4 DEF Ended
  <2>2. ~(k + 1 \in 1..n)
    BY <1>1, <1>2, <2>1
  <2>3. q[c] # << >> /\ k < m /\ m <= n + 1
    BY <1>1, <1>2, <2>1
  <2> QED
    BY <1>2, <2>2, <2>3
<1>5. ASSUME m + 1 <= n PROVE m < Len(t) /\ t[m + 1] = FALSE
  BY <1>1, <1>2, <1>5
<1>6. ASSUME m = n PROVE m < Len(t) /\ t[m + 1] = TRUE
  BY <1>1, <1>2, <1>6
<1> QED
  BY <1>3, <1>4, <1>5, <1>6 DEF t, n, k, m

LEMMA Advance ==
    ASSUME NEW r, NEW w, Now(r, w), call' = call, NEW gets, NEW puts, NEW X, NEW Y, gets \subseteq X,
           puts \subseteq Y, gets \subseteq Chans, puts \subseteq Chans, gets \cap puts = {},
           Stepped(q', q, Streams, w, gets, puts)
    PROVE  Onward(r, w, Bump(r, gets), Bump(w, puts), X, Y)
<1>1. Flow(q', Streams, Bump(r, gets), Bump(w, puts))
  BY NowFacts, FlowMoves
<1>0. r \in [Chans -> Nat] /\ w \in [Chans -> Nat]
  BY NowFacts
<1>2. /\ Bump(r, gets) \in [Chans -> Nat] /\ Bump(w, puts) \in [Chans -> Nat]
      /\ \A c \in Chans : Bump(r, gets)[c] = IF c \in gets THEN r[c] + 1 ELSE r[c]
      /\ \A c \in Chans : Bump(w, puts)[c] = IF c \in puts THEN w[c] + 1 ELSE w[c]
  BY <1>0 DEF Bump
<1> QED
  BY <1>1, <1>2 DEF Onward, Agree

-----------------------------------------------------------------------------
(* mergeKipad.                                                             *)
LEMMA MkData ==
    ASSUME NEW r, NEW w, Now(r, w)
    PROVE  /\ Carries(Streams[<<"msg", "word">>], Worded["msg"], Count)
           /\ Carries(Streams[<<"in", "msg">>], Bodies, Count)
           /\ Follows(Worded["msg"], Bodies, PadWords, Count)
<1> DEFINE P == Worded["msg"]
           n == Count
           c == PadWords
<1>1. /\ Streamed(Streams, n, Lengths, Worded, Blocked, Bodies, Keys)
      /\ Merged(Streams, n, call.w, c, call.keyLen, Lengths, Worded, Bodies, Keys)
  BY NowFacts DEF NetData
<1>2. Carries(Streams[<<"msg", "word">>], P, n) /\ Carries(Streams[<<"in", "msg">>], Bodies, n)
  <2>1. "msg" \in Units
    BY DEF Units
  <2> QED
    BY <1>1, <2>1 DEF Streamed
<1>3. \A m \in 1..n : Headed(P[m], Cut(Ipad(Keys[m]), call.w), Bodies[m], c)
  BY <1>1 DEF Merged
<1>4. c \in Nat \ {0}
  BY NowFacts, CallFacts, BlockWords DEF PadWords
<1> HIDE DEF P, c, n
<1>5. Follows(P, Bodies, c, n)
  BY <1>3, <1>4 DEF Headed, Follows
<1> QED
  BY <1>2, <1>5 DEF P, c, n

(* The step of one process: what it reads and writes, and where it is then. *)
LEMMA WiringOfProcesses ==
    ASSUME NEW long \in BOOLEAN
    PROVE  /\ KpGets(long) \subseteq Chans /\ KpPuts \subseteq Chans /\ KpGets(long) \cap KpPuts = {}
           /\ MkGets \subseteq Chans /\ MkPuts \subseteq Chans /\ MkGets \cap MkPuts = {}
           /\ MoGets \subseteq Chans /\ MoPuts \subseteq Chans /\ MoGets \cap MoPuts = {}
           /\ OutGets \subseteq Chans
           /\ \A u \in Units :
                 /\ PreGets(u, long) \subseteq Chans /\ PrePuts(u) \subseteq Chans
                 /\ PreGets(u, long) \cap PrePuts(u) = {}
                 /\ DigGets(u) \subseteq Chans /\ DigPuts(u) \subseteq Chans /\ DigGets(u) \cap DigPuts(u) = {}
BY DEF Chans, Units, KpGets, KpPuts, MkGets, MkPuts, MoGets, MoPuts, OutGets, PreGets, PrePuts, DigGets, DigPuts

LEMMA KpMoves ==
    ASSUME NEW r, NEW w, Now(r, w), NEW gets, NEW puts, gets \subseteq KpGets(LongKey), puts \subseteq KpPuts,
           UNCHANGED <<call, mk, mo, pre, dig, hashed, out>>, Stepped(q', q, Streams, w, gets, puts),
           KpIn(Count, LongKey, Worded, Bump(r, gets), Bump(w, puts), kp')
    PROVE  IInv'
<1>1. gets \subseteq Chans /\ puts \subseteq Chans /\ gets \cap puts = {}
  BY NetNow, WiringOfProcesses
<1>2. Onward(r, w, Bump(r, gets), Bump(w, puts), KpGets(LongKey), KpPuts)
  BY <1>1, Advance
<1> QED
  BY <1>2, KpStep

LEMMA MkMoves ==
    ASSUME NEW r, NEW w, Now(r, w), NEW gets, NEW puts, gets \subseteq MkGets, puts \subseteq MkPuts,
           UNCHANGED <<call, kp, mo, pre, dig, hashed, out>>, Stepped(q', q, Streams, w, gets, puts),
           MkIn(Count, PadWords, Worded, Bodies, Bump(r, gets), Bump(w, puts), mk')
    PROVE  IInv'
<1>1. gets \subseteq Chans /\ puts \subseteq Chans /\ gets \cap puts = {}
  BY NetNow, WiringOfProcesses
<1>2. Onward(r, w, Bump(r, gets), Bump(w, puts), MkGets, MkPuts)
  BY <1>1, Advance
<1> QED
  BY <1>2, MkStep

LEMMA MoMoves ==
    ASSUME NEW r, NEW w, Now(r, w), NEW gets, NEW puts, gets \subseteq MoGets, puts \subseteq MoPuts,
           UNCHANGED <<call, kp, mk, pre, dig, hashed, out>>, Stepped(q', q, Streams, w, gets, puts),
           MoIn(Count, Worded, Bump(r, gets), Bump(w, puts), mo')
    PROVE  IInv'
<1>1. gets \subseteq Chans /\ puts \subseteq Chans /\ gets \cap puts = {}
  BY NetNow, WiringOfProcesses
<1>2. Onward(r, w, Bump(r, gets), Bump(w, puts), MoGets, MoPuts)
  BY <1>1, Advance
<1> QED
  BY <1>2, MoStep

LEMMA OutMoves ==
    ASSUME NEW r, NEW w, Now(r, w), NEW gets, NEW puts, gets \subseteq OutGets, puts \subseteq {},
           UNCHANGED <<call, kp, mk, mo, pre, dig, hashed>>, Stepped(q', q, Streams, w, gets, puts),
           OutIn(Count, Bump(r, gets), out')
    PROVE  IInv'
<1>1. gets \subseteq Chans /\ puts \subseteq Chans /\ gets \cap puts = {}
  BY NetNow, WiringOfProcesses
<1>2. Onward(r, w, Bump(r, gets), Bump(w, puts), OutGets, {})
  BY <1>1, Advance
<1> QED
  BY <1>2, OutStep

LEMMA PreMoves ==
    ASSUME NEW u \in Units, NEW r, NEW w, Now(r, w), NEW gets, NEW puts,
           gets \subseteq PreGets(u, LongKey), puts \subseteq PrePuts(u), Stepped(q', q, Streams, w, gets, puts),
           UNCHANGED <<call, kp, mk, mo, dig, hashed, out>>, NEW p2, pre' = [pre EXCEPT ![u] = p2],
           PreIn(u, Count, call.w, LongKey, Lengths, Worded, Blocked, Bump(r, gets), Bump(w, puts), p2)
    PROVE  IInv'
<1>1. gets \subseteq Chans /\ puts \subseteq Chans /\ gets \cap puts = {}
  BY NetNow, WiringOfProcesses
<1>2. Onward(r, w, Bump(r, gets), Bump(w, puts), PreGets(u, LongKey), PrePuts(u))
  BY <1>1, Advance
<1> QED
  BY <1>2, PreStep

LEMMA DigMoves ==
    ASSUME NEW u \in Units, NEW r, NEW w, Now(r, w), NEW gets, NEW puts,
           gets \subseteq DigGets(u), puts \subseteq DigPuts(u), Stepped(q', q, Streams, w, gets, puts),
           UNCHANGED <<call, kp, mk, mo, pre, out>>, NEW p2, dig' = [dig EXCEPT ![u] = p2],
           NEW h2, hashed' = [hashed EXCEPT ![u] = h2],
           DigIn(u, Count, Blocked, Bump(r, gets), Bump(w, puts), p2, h2)
    PROVE  IInv'
<1>1. gets \subseteq Chans /\ puts \subseteq Chans /\ gets \cap puts = {}
  BY NetNow, WiringOfProcesses
<1>2. Onward(r, w, Bump(r, gets), Bump(w, puts), DigGets(u), DigPuts(u))
  BY <1>1, Advance
<1> QED
  BY <1>2, DigStep

-----------------------------------------------------------------------------
(* mergeKipad keeps the invariant.                                         *)

LEMMA EndSteps ==
    ASSUME NEW r, NEW w, Now(r, w), NEW c \in Chans, NEW e \in FlagChans, c # e, EndTo(c, e), w[e] = Count
    PROVE  Stepped(q', q, Streams, w, {c}, {e})
<1>1. e \in Chans /\ w[e] < Len(Streams[e]) /\ Streams[e][w[e] + 1] = TRUE
  BY FlagsAre, FlagsTell
<1>2. /\ q[c] # << >> /\ q'[c] = Tail(q[c]) /\ q'[e] = Append(q[e], TRUE)
      /\ \A x \in Chans \ ({c} \cup {e}) : q'[x] = q[x]
  BY <1>1 DEF EndTo, Move, Can, Moved
<1>3. q'[e] = Append(q[e], Streams[e][w[e] + 1])
  BY <1>1, <1>2, Zenon
<1> QED
  BY <1>1, <1>2, <1>3, Zenon DEF Stepped

LEMMA MkPadKeeps ==
    ASSUME NEW r, NEW w, Now(r, w), MkPad, UNCHANGED <<call, kp, mo, pre, dig, hashed, out>>
    PROVE  IInv'
<1> DEFINE P == Worded["msg"]
           d == PadWords
           p == mk
           p2 == mk'
           n == Count
           eKipad == r[<<"kpad", "eKipad">>]
           len == r[<<"in", "len">>]
           kipad == r[<<"kpad", "kipad">>]
           kopad == r[<<"kpad", "kopad">>]
           msg == r[<<"in", "msg">>]
           e == w[<<"msg", "e">>]
           ml == w[<<"msg", "len">>]
           word == w[<<"msg", "word">>]
           kopad2 == w[<<"merge", "kopad2">>]
           gets == {}
           puts == {<<"msg", "word">>}
           t == Streams[<<"msg", "word">>]
           v == Streams[<<"in", "msg">>]
<1>1. MkAt(P, Bodies, d, n, p, eKipad, len, kipad, kopad, msg, e, ml, word, kopad2) /\ n \in Nat
  BY NetNow, NowFacts DEF MkIn
<1>2. p = [pc |-> p.pc, pad |-> p.pad, words |-> p.words]
  BY <1>1 DEF MkAt
<1>3. /\ Carries(t, P, n) /\ Carries(v, Bodies, n) /\ Follows(P, Bodies, d, n)
  BY MkData
<1>4. p.pc = "pad" /\ p.pad # << >>
  BY DEF MkPad
<1>5. p2 = [pc |-> p.pc, pad |-> Tail(p.pad), words |-> p.words]
  BY <1>2 DEF MkPad
<1>6. Move({}, {<<"msg", "word">>}, LAMBDA c : Head(p.pad))
  BY DEF MkPad
<1>7. MkAt(P, Bodies, d, n, p2, eKipad, len, kipad, kopad, msg, e, ml, word + 1, kopad2)
      /\ word < Len(t) /\ Head(p.pad) = t[word + 1]
  <2> HIDE DEF P, d, p, p2, n, eKipad, len, kipad, kopad, msg, e, ml, word, kopad2, t, v
  <2> QED
    BY <1>1, <1>3, <1>4, <1>5, MkPadAt
<1>8. Stepped(q', q, Streams, w, gets, puts)
  BY <1>6, <1>7 DEF Move, Can, Moved, Stepped, Chans, Units
<1>9. MkIn(n, d, Worded, Bodies, Bump(r, gets), Bump(w, puts), p2)
  BY <1>7 DEF MkIn, Bump, Chans, Units
<1>10. gets \subseteq MkGets /\ puts \subseteq MkPuts
  BY DEF MkGets, MkPuts
<1> QED
  BY <1>8, <1>9, <1>10, MkMoves

LEMMA MkOpadKeeps ==
    ASSUME NEW r, NEW w, Now(r, w), MkOpad, UNCHANGED <<call, kp, mo, pre, dig, hashed, out>>
    PROVE  IInv'
<1> DEFINE P == Worded["msg"]
           d == PadWords
           p == mk
           p2 == mk'
           n == Count
           eKipad == r[<<"kpad", "eKipad">>]
           len == r[<<"in", "len">>]
           kipad == r[<<"kpad", "kipad">>]
           kopad == r[<<"kpad", "kopad">>]
           msg == r[<<"in", "msg">>]
           e == w[<<"msg", "e">>]
           ml == w[<<"msg", "len">>]
           word == w[<<"msg", "word">>]
           kopad2 == w[<<"merge", "kopad2">>]
           gets == {<<"kpad", "kopad">>}
           puts == {<<"merge", "kopad2">>}
           t == Streams[<<"msg", "word">>]
           v == Streams[<<"in", "msg">>]
           x == Streams[<<"kpad", "kopad">>]
           y == Streams[<<"merge", "kopad2">>]
<1>1. MkAt(P, Bodies, d, n, p, eKipad, len, kipad, kopad, msg, e, ml, word, kopad2) /\ n \in Nat
  BY NetNow, NowFacts DEF MkIn
<1>2. p = [pc |-> p.pc, pad |-> p.pad, words |-> p.words]
  BY <1>1 DEF MkAt
<1>3. /\ Carries(t, P, n) /\ Carries(v, Bodies, n) /\ Follows(P, Bodies, d, n)
  BY MkData
<1>4. p.pc = "pad" /\ p.pad = << >>
  BY DEF MkOpad
<1>5. p2 = [pc |-> IF p.words = 0 THEN "flag" ELSE "msg", pad |-> p.pad, words |-> p.words]
  BY <1>2 DEF MkOpad
<1>6. Move({<<"kpad", "kopad">>}, {<<"merge", "kopad2">>}, LAMBDA c : Head(q[<<"kpad", "kopad">>]))
  BY DEF MkOpad
<1>7. x = y /\ Len(y) = n
  BY NowFacts DEF NetData, Streamed
<1>8. q[<<"kpad", "kopad">>] # << >> /\ Head(q[<<"kpad", "kopad">>]) = x[kopad + 1]
  <2>1. q[<<"kpad", "kopad">>] # << >> /\ <<"kpad", "kopad">> \in Chans
    BY <1>6 DEF Move, Can, Chans
  <2> QED
    BY <2>1, NowFacts
<1>9. MkAt(P, Bodies, d, n, p2, eKipad, len, kipad, kopad + 1, msg, e, ml, word, kopad2 + 1)
      /\ kopad = kopad2 /\ kopad \in Nat /\ kopad < n
  <2> HIDE DEF P, d, p, p2, n, eKipad, len, kipad, kopad, msg, e, ml, word, kopad2, t, v, x, y
  <2> QED
    BY <1>1, <1>3, <1>4, <1>5, MkOpadAt
<1>10. Stepped(q', q, Streams, w, gets, puts)
  BY <1>6, <1>7, <1>8, <1>9 DEF Move, Can, Moved, Stepped, Chans, Units
<1>11. MkIn(n, d, Worded, Bodies, Bump(r, gets), Bump(w, puts), p2)
  BY <1>9 DEF MkIn, Bump, Chans, Units
<1>12. gets \subseteq MkGets /\ puts \subseteq MkPuts
  BY DEF MkGets, MkPuts
<1> QED
  BY <1>10, <1>11, <1>12, MkMoves

LEMMA MkMsgKeeps ==
    ASSUME NEW r, NEW w, Now(r, w), MkMsg, UNCHANGED <<call, kp, mo, pre, dig, hashed, out>>
    PROVE  IInv'
<1> DEFINE P == Worded["msg"]
           d == PadWords
           p == mk
           p2 == mk'
           n == Count
           eKipad == r[<<"kpad", "eKipad">>]
           len == r[<<"in", "len">>]
           kipad == r[<<"kpad", "kipad">>]
           kopad == r[<<"kpad", "kopad">>]
           msg == r[<<"in", "msg">>]
           e == w[<<"msg", "e">>]
           ml == w[<<"msg", "len">>]
           word == w[<<"msg", "word">>]
           kopad2 == w[<<"merge", "kopad2">>]
           gets == {<<"in", "msg">>}
           puts == {<<"msg", "word">>}
           t == Streams[<<"msg", "word">>]
           v == Streams[<<"in", "msg">>]
<1>1. MkAt(P, Bodies, d, n, p, eKipad, len, kipad, kopad, msg, e, ml, word, kopad2) /\ n \in Nat
  BY NetNow, NowFacts DEF MkIn
<1>2. p = [pc |-> p.pc, pad |-> p.pad, words |-> p.words]
  BY <1>1 DEF MkAt
<1>3. /\ Carries(t, P, n) /\ Carries(v, Bodies, n) /\ Follows(P, Bodies, d, n)
  BY MkData
<1>4. p.pc = "msg"
  BY DEF MkMsg
<1>5. p2 = [pc |-> IF p.words = 1 THEN "flag" ELSE "msg", pad |-> p.pad, words |-> p.words - 1]
  BY <1>2 DEF MkMsg
<1>6. Move({<<"in", "msg">>}, {<<"msg", "word">>}, LAMBDA c : Head(q[<<"in", "msg">>]))
  BY DEF MkMsg
<1>7. q[<<"in", "msg">>] # << >> /\ Head(q[<<"in", "msg">>]) = v[msg + 1] /\ msg \in Nat /\ word \in Nat
  <2>1. q[<<"in", "msg">>] # << >> /\ <<"in", "msg">> \in Chans /\ <<"msg", "word">> \in Chans
    BY <1>6 DEF Move, Can, Chans, Units
  <2> QED
    BY <2>1, NowFacts
<1>8. MkAt(P, Bodies, d, n, p2, eKipad, len, kipad, kopad, msg + 1, e, ml, word + 1, kopad2)
      /\ word < Len(t) /\ t[word + 1] = v[msg + 1]
  <2> HIDE DEF P, d, p, p2, n, eKipad, len, kipad, kopad, msg, e, ml, word, kopad2, t, v
  <2> QED
    BY <1>1, <1>3, <1>4, <1>5, <1>7, MkMsgAt
<1>9. Stepped(q', q, Streams, w, gets, puts)
  BY <1>6, <1>7, <1>8 DEF Move, Can, Moved, Stepped, Chans, Units
<1>10. MkIn(n, d, Worded, Bodies, Bump(r, gets), Bump(w, puts), p2)
  BY <1>8 DEF MkIn, Bump, Chans, Units
<1>11. gets \subseteq MkGets /\ puts \subseteq MkPuts
  BY DEF MkGets, MkPuts
<1> QED
  BY <1>9, <1>10, <1>11, MkMoves

LEMMA MkEndKeeps ==
    ASSUME NEW r, NEW w, Now(r, w), MkEnd, UNCHANGED <<call, kp, mo, pre, dig, hashed, out>>
    PROVE  IInv'
<1> DEFINE P == Worded["msg"]
           d == PadWords
           p == mk
           p2 == mk'
           n == Count
           eKipad == r[<<"kpad", "eKipad">>]
           len == r[<<"in", "len">>]
           kipad == r[<<"kpad", "kipad">>]
           kopad == r[<<"kpad", "kopad">>]
           msg == r[<<"in", "msg">>]
           e == w[<<"msg", "e">>]
           ml == w[<<"msg", "len">>]
           word == w[<<"msg", "word">>]
           kopad2 == w[<<"merge", "kopad2">>]
           gets == {<<"kpad", "eKipad">>}
           puts == {<<"msg", "e">>}
<1>1. MkAt(P, Bodies, d, n, p, eKipad, len, kipad, kopad, msg, e, ml, word, kopad2) /\ n \in Nat
  BY NetNow, NowFacts DEF MkIn
<1>2. p = [pc |-> p.pc, pad |-> p.pad, words |-> p.words]
  BY <1>1 DEF MkAt
<1>3. p.pc = "flag"
  BY DEF MkEnd
<1>4. p2 = [pc |-> "done", pad |-> p.pad, words |-> p.words]
  BY <1>2 DEF MkEnd
<1>5. Ended(<<"kpad", "eKipad">>) /\ EndTo(<<"kpad", "eKipad">>, <<"msg", "e">>)
  BY DEF MkEnd
<1>6. eKipad = n
  <2>1. <<"kpad", "eKipad">> \in FlagChans
    BY DEF FlagChans
  <2> QED
    BY <1>5, <2>1, FlagsTell
<1>7. MkAt(P, Bodies, d, n, p2, eKipad + 1, len, kipad, kopad, msg, e + 1, ml, word, kopad2) /\ e = n
  <2> HIDE DEF P, d, p, p2, n, eKipad, len, kipad, kopad, msg, e, ml, word, kopad2
  <2> QED
    BY <1>1, <1>3, <1>4, <1>6, MkEndAt
<1>8. Stepped(q', q, Streams, w, gets, puts)
  <2>1. <<"msg", "e">> \in FlagChans /\ <<"kpad", "eKipad">> \in Chans /\ <<"msg", "e">> # <<"kpad", "eKipad">>
    BY DEF FlagChans, Chans, Units
  <2> QED
    BY <1>5, <1>7, <2>1, EndSteps
<1>9. MkIn(n, d, Worded, Bodies, Bump(r, gets), Bump(w, puts), p2)
  BY <1>7 DEF MkIn, Bump, Chans, Units
<1>10. gets \subseteq MkGets /\ puts \subseteq MkPuts
  BY DEF MkGets, MkPuts
<1> QED
  BY <1>8, <1>9, <1>10, MkMoves

LEMMA MkFlagKeeps ==
    ASSUME NEW r, NEW w, Now(r, w), MkFlag, UNCHANGED <<call, kp, mo, pre, dig, hashed, out>>
    PROVE  IInv'
<1> DEFINE P == Worded["msg"]
           d == PadWords
           p == mk
           p2 == mk'
           n == Count
           eKipad == r[<<"kpad", "eKipad">>]
           len == r[<<"in", "len">>]
           kipad == r[<<"kpad", "kipad">>]
           kopad == r[<<"kpad", "kopad">>]
           msg == r[<<"in", "msg">>]
           e == w[<<"msg", "e">>]
           ml == w[<<"msg", "len">>]
           word == w[<<"msg", "word">>]
           kopad2 == w[<<"merge", "kopad2">>]
           gets == {<<"kpad", "eKipad">>, <<"in", "len">>, <<"kpad", "kipad">>}
           puts == {<<"msg", "e">>, <<"msg", "len">>}
           y == eKipad + 1
           g == Cut(Ipad(Keys[y]), call.w)
           inLen == Streams[<<"in", "len">>]
           inPad == Streams[<<"kpad", "kipad">>]
           toE == Streams[<<"msg", "e">>]
           toLen == Streams[<<"msg", "len">>]
<1>1. MkAt(P, Bodies, d, n, p, eKipad, len, kipad, kopad, msg, e, ml, word, kopad2) /\ n \in Nat
  BY NetNow, NowFacts DEF MkIn
<1>2. p = [pc |-> p.pc, pad |-> p.pad, words |-> p.words]
  BY <1>1 DEF MkAt
<1>3. p.pc = "flag" /\ Goes(<<"kpad", "eKipad">>)
  BY DEF MkFlag
<1>4. /\ Move({<<"kpad", "eKipad">>, <<"in", "len">>, <<"kpad", "kipad">>}, {<<"msg", "e">>, <<"msg", "len">>},
              LAMBDA c : IF c[2] = "e" THEN FALSE ELSE Head(q[<<"in", "len">>]) + BlockBytes)
      /\ p2 = [pc |-> "pad", pad |-> Cut(Head(q[<<"kpad", "kipad">>]), call.w),
                words |-> Words(Head(q[<<"in", "len">>]), call.w)]
  BY DEF MkFlag
<1>5. eKipad + 1 <= n
  <2>1. <<"kpad", "eKipad">> \in FlagChans
    BY DEF FlagChans
  <2> QED
    BY <1>3, <2>1, FlagsTell
<1>6. eKipad \in 0..n /\ len = eKipad /\ kipad = eKipad /\ e = eKipad /\ ml = eKipad /\ y \in 1..n
  <2>1. eKipad \in 0..n /\ len = eKipad /\ kipad = eKipad /\ e = eKipad /\ ml = eKipad
    <3> HIDE DEF P, d, p, n, eKipad, len, kipad, kopad, msg, e, ml, word, kopad2
    <3> QED
      BY <1>1, <1>3 DEF MkAt
  <2> HIDE DEF n, eKipad, len, kipad, e, ml
  <2> QED
    BY <1>1, <1>5, <2>1
<1>7. Head(q[<<"in", "len">>]) = inLen[y] /\ Head(q[<<"kpad", "kipad">>]) = inPad[y]
  <2>1. /\ q[<<"in", "len">>] # << >> /\ <<"in", "len">> \in Chans
        /\ q[<<"kpad", "kipad">>] # << >> /\ <<"kpad", "kipad">> \in Chans
    BY <1>4 DEF Move, Can, Chans
  <2>2. Head(q[<<"in", "len">>]) = inLen[len + 1] /\ Head(q[<<"kpad", "kipad">>]) = inPad[kipad + 1]
    BY <2>1, NowFacts
  <2> QED
    BY <1>6, <2>2
<1>8. /\ inPad[y] = Ipad(Keys[y]) /\ Headed(P[y], g, Bodies[y], d)
      /\ Len(Bodies[y]) = Words(inLen[y], call.w)
      /\ Len(toLen) = n /\ toLen[y] = inLen[y] + BlockBytes
  <2>1. /\ Streamed(Streams, n, Lengths, Worded, Blocked, Bodies, Keys)
        /\ Merged(Streams, n, call.w, d, call.keyLen, Lengths, Worded, Bodies, Keys)
    BY NowFacts DEF NetData
  <2> HIDE DEF n, eKipad, y, d
  <2>2. inPad[y] = Ipad(Keys[y])
    BY <1>6, <2>1 DEF Streamed
  <2>3. Len(toLen) = n /\ toLen[y] = Lengths["msg"][y]
    BY <1>6, <2>1 DEF Streamed, Units
  <2>4. /\ Headed(P[y], g, Bodies[y], d) /\ Len(Bodies[y]) = Words(inLen[y], call.w)
        /\ Lengths["msg"][y] = inLen[y] + BlockBytes
    BY <1>6, <2>1 DEF Merged
  <2> QED
    BY <2>2, <2>3, <2>4
<1>9. p2 = [pc |-> "pad", pad |-> g, words |-> Len(Bodies[y])]
  <2> HIDE DEF inLen, inPad, y
  <2> QED
    BY <1>4, <1>7, <1>8
<1>10. Headed(P[eKipad + 1], g, Bodies[eKipad + 1], d) /\ d \in Nat \ {0} /\ Sums(P, n)
  <2>1. Sums(P, n) /\ d \in Nat \ {0}
    BY MkData DEF Carries, Follows
  <2> QED
    BY <1>8, <2>1
<1>11. p2 = [pc |-> "pad", pad |-> g, words |-> Len(Bodies[eKipad + 1])]
  BY <1>9
<1>12. MkAt(P, Bodies, d, n, p2, eKipad + 1, len + 1, kipad + 1, kopad, msg, e + 1, ml + 1, word, kopad2)
  <2> HIDE DEF P, d, p, p2, n, eKipad, len, kipad, kopad, msg, e, ml, word, kopad2, y, g, inLen, inPad, toE, toLen
  <2> QED
    BY <1>1, <1>3, <1>5, <1>10, <1>11, MkFlagAt
<1>13. Stepped(q', q, Streams, w, gets, puts)
  <2>1. e < Len(toE) /\ toE[e + 1] = FALSE
    <3>1. <<"msg", "e">> \in FlagChans
      BY DEF FlagChans, Units
    <3> QED
      BY <1>5, <1>6, <3>1, FlagsTell
  <2>2. ml < Len(toLen) /\ toLen[ml + 1] = Head(q[<<"in", "len">>]) + BlockBytes
    <3> HIDE DEF toLen, inLen
    <3> QED
      BY <1>1, <1>5, <1>6, <1>7, <1>8
  <2>3. q' = [c \in Chans |-> IF c \in gets THEN Tail(q[c])
                         ELSE IF c \in puts
                              THEN Append(q[c], IF c[2] = "e" THEN FALSE ELSE Head(q[<<"in", "len">>]) + BlockBytes)
                              ELSE q[c]]
    BY <1>4 DEF Move, Moved
  <2>5. \A c \in gets : c \in Chans /\ q[c] # << >> /\ q'[c] = Tail(q[c])
    <3>1. gets \subseteq Chans
      BY DEF Chans
    <3>2. \A c \in gets : q[c] # << >>
      BY <1>4 DEF Move, Can
    <3> HIDE DEF gets, puts
    <3> QED
      BY <2>3, <3>1, <3>2
  <2>6. \A c \in Chans \ (gets \cup puts) : q'[c] = q[c]
    BY <2>3
  <2>7. q'[<<"msg", "e">>] = Append(q[<<"msg", "e">>], FALSE)
    BY <2>3 DEF Chans, Units
  <2>8. q'[<<"msg", "len">>] = Append(q[<<"msg", "len">>], Head(q[<<"in", "len">>]) + BlockBytes)
    BY <2>3 DEF Chans, Units
  <2>4. /\ q'[<<"msg", "e">>] = Append(q[<<"msg", "e">>], toE[e + 1])
        /\ q'[<<"msg", "len">>] = Append(q[<<"msg", "len">>], toLen[ml + 1])
    BY <2>1, <2>2, <2>7, <2>8, Zenon
  <2> QED
    BY <2>1, <2>2, <2>4, <2>5, <2>6 DEF Stepped
<1>14. MkIn(n, d, Worded, Bodies, Bump(r, gets), Bump(w, puts), p2)
  BY <1>12 DEF MkIn, Bump, Chans, Units
<1>15. gets \subseteq MkGets /\ puts \subseteq MkPuts
  BY DEF MkGets, MkPuts
<1> QED
  BY <1>13, <1>14, <1>15, MkMoves

-----------------------------------------------------------------------------
(* mergeKopad keeps the invariant.                                         *)
LEMMA MoData ==
    ASSUME NEW r, NEW w, Now(r, w)
    PROVE  /\ Carries(Streams[<<"res", "word">>], Worded["res"], Count)
           /\ Sums(Worded["res"], Count)
           /\ \A m \in 1..Count :
                 /\ Headed(Worded["res"][m], Cut(Opad(Keys[m]), call.w), Wire(Digest("msg", m), call.w), PadWords)
                 /\ Streams[<<"merge", "kopad2">>][m] = Opad(Keys[m])
                 /\ Streams[<<"msg", "hash">>][m] = Digest("msg", m)
                 /\ Streams[<<"res", "len">>][m] = BlockBytes + HashBytes
           /\ Len(Streams[<<"res", "len">>]) = Count
<1> DEFINE n == Count
<1>1. /\ Streamed(Streams, n, Lengths, Worded, Blocked, Bodies, Keys)
      /\ Merged(Streams, n, call.w, PadWords, call.keyLen, Lengths, Worded, Bodies, Keys)
  BY NowFacts DEF NetData
<1>2. "res" \in Units /\ "msg" \in Units
  BY DEF Units
<1> HIDE DEF n
<1>3. Carries(Streams[<<"res", "word">>], Worded["res"], n) /\ Len(Streams[<<"res", "len">>]) = n
  BY <1>1, <1>2 DEF Streamed
<1>4. ASSUME NEW m \in 1..n
      PROVE  /\ Headed(Worded["res"][m], Cut(Opad(Keys[m]), call.w), Wire(Digest("msg", m), call.w), PadWords)
             /\ Streams[<<"merge", "kopad2">>][m] = Opad(Keys[m])
             /\ Streams[<<"msg", "hash">>][m] = Digest("msg", m)
             /\ Streams[<<"res", "len">>][m] = BlockBytes + HashBytes
  <2>1. Streams[<<"merge", "kopad2">>][m] = Opad(Keys[m]) /\ Streams[<<"msg", "hash">>][m] = Digest("msg", m)
        /\ Streams[<<"res", "len">>][m] = Lengths["res"][m]
    BY <1>1, <1>2 DEF Streamed
  <2>2. /\ Headed(Worded["res"][m], Cut(Opad(Keys[m]), call.w), Wire(Digest("msg", m), call.w), PadWords)
        /\ Lengths["res"][m] = BlockBytes + HashBytes
    BY <1>1 DEF Merged
  <2> QED
    BY <2>1, <2>2
<1>5. Sums(Worded["res"], n)
  BY <1>3 DEF Carries
<1> QED
  BY <1>3, <1>4, <1>5 DEF n

LEMMA MoFlagKeeps ==
    ASSUME NEW r, NEW w, Now(r, w), MoFlag, UNCHANGED <<call, kp, mk, pre, dig, hashed, out>>
    PROVE  IInv'
<1> DEFINE P == Worded["res"]
           p == mo
           p2 == mo'
           n == Count
           eHash == r[<<"msg", "eHash">>]
           hash == r[<<"msg", "hash">>]
           kopad2 == r[<<"merge", "kopad2">>]
           e == w[<<"res", "e">>]
           len == w[<<"res", "len">>]
           word == w[<<"res", "word">>]
           gets == {<<"msg", "eHash">>, <<"merge", "kopad2">>, <<"msg", "hash">>}
           puts == {<<"res", "e">>, <<"res", "len">>}
           y == eHash + 1
           pads == Streams[<<"merge", "kopad2">>]
           hs == Streams[<<"msg", "hash">>]
           toE == Streams[<<"res", "e">>]
           toLen == Streams[<<"res", "len">>]
<1>1. MoAt(P, n, p, eHash, hash, kopad2, e, len, word) /\ n \in Nat
  BY NetNow, NowFacts DEF MoIn
<1>2. p = [pc |-> p.pc, words |-> p.words]
  BY <1>1 DEF MoAt
<1>3. p.pc = "flag" /\ Goes(<<"msg", "eHash">>)
  BY DEF MoFlag
<1>4. /\ Move({<<"msg", "eHash">>, <<"merge", "kopad2">>, <<"msg", "hash">>}, {<<"res", "e">>, <<"res", "len">>},
              LAMBDA c : IF c[2] = "e" THEN FALSE ELSE BlockBytes + HashBytes)
      /\ p2 = [pc |-> "words", words |-> Cut(Head(q[<<"merge", "kopad2">>]), call.w)
                                        \o Wire(Head(q[<<"msg", "hash">>]), call.w)]
  BY DEF MoFlag
<1>5. eHash + 1 <= n
  <2>1. <<"msg", "eHash">> \in FlagChans
    BY DEF FlagChans, Units
  <2> QED
    BY <1>3, <2>1, FlagsTell
<1>6. eHash \in 0..n /\ hash = eHash /\ kopad2 = eHash /\ e = eHash /\ len = eHash /\ y \in 1..n
  <2>1. eHash \in 0..n /\ hash = eHash /\ kopad2 = eHash /\ e = eHash /\ len = eHash
    <3> HIDE DEF P, p, n, eHash, hash, kopad2, e, len, word
    <3> QED
      BY <1>1, <1>3 DEF MoAt
  <2> HIDE DEF n, eHash, hash, kopad2, e, len
  <2> QED
    BY <1>1, <1>5, <2>1
<1>7. Head(q[<<"merge", "kopad2">>]) = pads[y] /\ Head(q[<<"msg", "hash">>]) = hs[y]
  <2>1. /\ q[<<"merge", "kopad2">>] # << >> /\ <<"merge", "kopad2">> \in Chans
        /\ q[<<"msg", "hash">>] # << >> /\ <<"msg", "hash">> \in Chans
    BY <1>4 DEF Move, Can, Chans, Units
  <2>2. Head(q[<<"merge", "kopad2">>]) = pads[kopad2 + 1] /\ Head(q[<<"msg", "hash">>]) = hs[hash + 1]
    BY <2>1, NowFacts
  <2> QED
    BY <1>6, <2>2
<1>8. /\ pads[y] = Opad(Keys[y]) /\ hs[y] = Digest("msg", y)
      /\ Headed(P[y], Cut(Opad(Keys[y]), call.w), Wire(Digest("msg", y), call.w), PadWords)
      /\ Len(toLen) = n /\ toLen[y] = BlockBytes + HashBytes
  BY <1>6, MoData
<1>9. p2 = [pc |-> "words", words |-> P[eHash + 1]] /\ Len(P[eHash + 1]) # 0
  <2>1. P[y] = Cut(Opad(Keys[y]), call.w) \o Wire(Digest("msg", y), call.w) /\ Len(P[y]) # 0
    <3> HIDE DEF P, y
    <3> QED
      BY <1>8 DEF Headed
  <2>2. p2 = [pc |-> "words", words |-> P[y]]
    <3> HIDE DEF P, y
    <3> QED
      BY <1>4, <1>7, <1>8, <2>1
  <2> QED
    BY <2>1, <2>2
<1>10. Sums(P, n)
  BY MoData
<1>11. MoAt(P, n, p2, eHash + 1, hash + 1, kopad2 + 1, e + 1, len + 1, word)
  <2> HIDE DEF P, p, p2, n, eHash, hash, kopad2, e, len, word, y, pads, hs, toE, toLen
  <2> QED
    BY <1>1, <1>3, <1>5, <1>9, <1>10, MoFlagAt
<1>12. Stepped(q', q, Streams, w, gets, puts)
  <2>1. e < Len(toE) /\ toE[e + 1] = FALSE
    <3>1. <<"res", "e">> \in FlagChans
      BY DEF FlagChans, Units
    <3> QED
      BY <1>5, <1>6, <3>1, FlagsTell
  <2>2. len < Len(toLen) /\ toLen[len + 1] = BlockBytes + HashBytes
    <3> HIDE DEF toLen
    <3> QED
      BY <1>1, <1>5, <1>6, <1>8
  <2>3. q' = [c \in Chans |-> IF c \in gets THEN Tail(q[c])
                         ELSE IF c \in puts THEN Append(q[c], IF c[2] = "e" THEN FALSE ELSE BlockBytes + HashBytes)
                              ELSE q[c]]
    BY <1>4 DEF Move, Moved
  <2>4. \A c \in gets : c \in Chans /\ q[c] # << >> /\ q'[c] = Tail(q[c])
    <3>1. gets \subseteq Chans
      BY DEF Chans, Units
    <3>2. \A c \in gets : q[c] # << >>
      BY <1>4 DEF Move, Can
    <3> HIDE DEF gets, puts
    <3> QED
      BY <2>3, <3>1, <3>2
  <2>5. \A c \in Chans \ (gets \cup puts) : q'[c] = q[c]
    BY <2>3
  <2>6. q'[<<"res", "e">>] = Append(q[<<"res", "e">>], FALSE)
    BY <2>3 DEF Chans, Units
  <2>7. q'[<<"res", "len">>] = Append(q[<<"res", "len">>], BlockBytes + HashBytes)
    BY <2>3 DEF Chans, Units
  <2>8. /\ q'[<<"res", "e">>] = Append(q[<<"res", "e">>], toE[e + 1])
        /\ q'[<<"res", "len">>] = Append(q[<<"res", "len">>], toLen[len + 1])
    BY <2>1, <2>2, <2>6, <2>7, Zenon
  <2> QED
    BY <2>1, <2>2, <2>4, <2>5, <2>8 DEF Stepped
<1>13. MoIn(n, Worded, Bump(r, gets), Bump(w, puts), p2)
  BY <1>11 DEF MoIn, Bump, Chans, Units
<1>14. gets \subseteq MoGets /\ puts \subseteq MoPuts
  BY DEF MoGets, MoPuts
<1> QED
  BY <1>12, <1>13, <1>14, MoMoves

LEMMA MoWordKeeps ==
    ASSUME NEW r, NEW w, Now(r, w), MoWord, UNCHANGED <<call, kp, mk, pre, dig, hashed, out>>
    PROVE  IInv'
<1> DEFINE P == Worded["res"]
           p == mo
           p2 == mo'
           n == Count
           eHash == r[<<"msg", "eHash">>]
           hash == r[<<"msg", "hash">>]
           kopad2 == r[<<"merge", "kopad2">>]
           e == w[<<"res", "e">>]
           len == w[<<"res", "len">>]
           word == w[<<"res", "word">>]
           gets == {}
           puts == {<<"res", "word">>}
           t == Streams[<<"res", "word">>]
<1>1. MoAt(P, n, p, eHash, hash, kopad2, e, len, word) /\ n \in Nat
  BY NetNow, NowFacts DEF MoIn
<1>2. p = [pc |-> p.pc, words |-> p.words]
  BY <1>1 DEF MoAt
<1>3. Carries(t, P, n) /\ word \in Nat
  <2>1. <<"res", "word">> \in Chans
    BY DEF Chans, Units
  <2> QED
    BY <2>1, MoData, NowFacts
<1>4. p.pc = "words"
  BY DEF MoWord
<1>5. p2 = [pc |-> IF Len(p.words) = 1 THEN "flag" ELSE "words", words |-> Tail(p.words)]
  BY DEF MoWord
<1>6. Move({}, {<<"res", "word">>}, LAMBDA c : Head(p.words))
  BY DEF MoWord
<1>7. MoAt(P, n, p2, eHash, hash, kopad2, e, len, word + 1)
      /\ word < Len(t) /\ Head(p.words) = t[word + 1]
  <2> HIDE DEF P, p, p2, n, eHash, hash, kopad2, e, len, word, t
  <2> QED
    BY <1>1, <1>3, <1>4, <1>5, MoWordAt
<1>8. Stepped(q', q, Streams, w, gets, puts)
  BY <1>6, <1>7 DEF Move, Can, Moved, Stepped, Chans, Units
<1>9. MoIn(n, Worded, Bump(r, gets), Bump(w, puts), p2)
  BY <1>7 DEF MoIn, Bump, Chans, Units
<1>10. gets \subseteq MoGets /\ puts \subseteq MoPuts
  BY DEF MoGets, MoPuts
<1> QED
  BY <1>8, <1>9, <1>10, MoMoves

LEMMA MoEndKeeps ==
    ASSUME NEW r, NEW w, Now(r, w), MoEnd, UNCHANGED <<call, kp, mk, pre, dig, hashed, out>>
    PROVE  IInv'
<1> DEFINE P == Worded["res"]
           p == mo
           p2 == mo'
           n == Count
           eHash == r[<<"msg", "eHash">>]
           hash == r[<<"msg", "hash">>]
           kopad2 == r[<<"merge", "kopad2">>]
           e == w[<<"res", "e">>]
           len == w[<<"res", "len">>]
           word == w[<<"res", "word">>]
           gets == {<<"msg", "eHash">>}
           puts == {<<"res", "e">>}
<1>1. MoAt(P, n, p, eHash, hash, kopad2, e, len, word) /\ n \in Nat
  BY NetNow, NowFacts DEF MoIn
<1>2. p = [pc |-> p.pc, words |-> p.words]
  BY <1>1 DEF MoAt
<1>3. p.pc = "flag"
  BY DEF MoEnd
<1>4. p2 = [pc |-> "done", words |-> p.words]
  BY <1>2 DEF MoEnd
<1>5. Ended(<<"msg", "eHash">>) /\ EndTo(<<"msg", "eHash">>, <<"res", "e">>)
  BY DEF MoEnd
<1>6. eHash = n
  <2>1. <<"msg", "eHash">> \in FlagChans
    BY DEF FlagChans, Units
  <2> QED
    BY <1>5, <2>1, FlagsTell
<1>7. MoAt(P, n, p2, eHash + 1, hash, kopad2, e + 1, len, word) /\ e = n
  <2> HIDE DEF P, p, p2, n, eHash, hash, kopad2, e, len, word
  <2> QED
    BY <1>1, <1>3, <1>4, <1>6, MoEndAt
<1>8. Stepped(q', q, Streams, w, gets, puts)
  <2>1. <<"res", "e">> \in FlagChans /\ <<"msg", "eHash">> \in Chans /\ <<"res", "e">> # <<"msg", "eHash">>
    BY DEF FlagChans, Chans, Units
  <2> QED
    BY <1>5, <1>7, <2>1, EndSteps
<1>9. MoIn(n, Worded, Bump(r, gets), Bump(w, puts), p2)
  BY <1>7 DEF MoIn, Bump, Chans, Units
<1>10. gets \subseteq MoGets /\ puts \subseteq MoPuts
  BY DEF MoGets, MoPuts
<1> QED
  BY <1>8, <1>9, <1>10, MoMoves

-----------------------------------------------------------------------------
(* The caller and kpad keep the invariant.                                 *)
LEMMA HashesAre ==
    ASSUME NEW r, NEW w, Now(r, w), NEW u \in Units, NEW m \in 1..Count
    PROVE  Streams[<<u, "hash">>][m] = Digest(u, m)
BY NowFacts DEF NetData, Streamed

LEMMA TakeMacKeeps ==
    ASSUME NEW r, NEW w, Now(r, w), TakeMac, UNCHANGED <<call, kp, mk, mo, pre, dig, hashed>>
    PROVE  IInv'
<1> DEFINE p == out
           p2 == out'
           n == Count
           eHash == r[<<"res", "eHash">>]
           hash == r[<<"res", "hash">>]
           gets == {<<"res", "eHash">>, <<"res", "hash">>}
           puts == {}
           x == Digest("res", hash + 1)
<1>1. OutAt(n, p, eHash, hash) /\ n \in Nat
  BY NetNow, NowFacts DEF OutIn
<1>2. p = [hashes |-> p.hashes, ended |-> p.ended]
  BY <1>1 DEF OutAt
<1>3. ~p.ended /\ Goes(<<"res", "eHash">>)
  BY DEF TakeMac
<1>4. /\ Move({<<"res", "eHash">>, <<"res", "hash">>}, {}, LAMBDA c : c)
      /\ p2 = [p EXCEPT !.hashes = Append(@, Head(q[<<"res", "hash">>]))]
  BY DEF TakeMac
<1>5. eHash + 1 <= n
  <2>1. <<"res", "eHash">> \in FlagChans
    BY DEF FlagChans, Units
  <2> QED
    BY <1>3, <2>1, FlagsTell
<1>6. Head(q[<<"res", "hash">>]) = x
  <2>1. q[<<"res", "hash">>] # << >> /\ <<"res", "hash">> \in Chans /\ "res" \in Units
    BY <1>4 DEF Move, Can, Chans, Units
  <2>2. Head(q[<<"res", "hash">>]) = Streams[<<"res", "hash">>][hash + 1]
    BY <2>1, NowFacts
  <2>3. hash + 1 \in 1..n
    <3>1. hash = eHash /\ hash \in 0..n
      <4> HIDE DEF n, p, eHash, hash
      <4> QED
        BY <1>1, <1>3 DEF OutAt
    <3> HIDE DEF n, eHash, hash
    <3> QED
      BY <1>1, <1>5, <3>1
  <2>4. Streams[<<"res", "hash">>][hash + 1] = Digest("res", hash + 1)
    <3> HIDE DEF hash
    <3> QED
      BY <2>1, <2>3, HashesAre
  <2> QED
    BY <2>2, <2>4
<1>7. p2 = [hashes |-> Append(p.hashes, Digest("res", hash + 1)), ended |-> p.ended]
  <2> HIDE DEF x, p, p2
  <2>1. p2 = [hashes |-> Append(p.hashes, x), ended |-> p.ended]
    BY <1>2, <1>4, <1>6
  <2> QED
    BY <2>1 DEF x
<1>8. ~p.ended
  BY <1>3
<1>9. OutAt(n, p2, eHash + 1, hash + 1)
  <2> HIDE DEF p, p2, n, eHash, hash, x
  <2> QED
    BY <1>1, <1>5, <1>7, <1>8, TakeMacAt
<1>10. Stepped(q', q, Streams, w, gets, puts)
  BY <1>4 DEF Move, Can, Moved, Stepped, Chans, Units
<1>11. OutIn(n, Bump(r, gets), p2)
  BY <1>9 DEF OutIn, Bump, Chans, Units
<1>12. gets \subseteq OutGets /\ puts \subseteq {}
  BY DEF OutGets
<1> QED
  BY <1>10, <1>11, <1>12, OutMoves

LEMMA TakeEndKeeps ==
    ASSUME NEW r, NEW w, Now(r, w), TakeEnd, UNCHANGED <<call, kp, mk, mo, pre, dig, hashed>>
    PROVE  IInv'
<1> DEFINE p == out
           p2 == out'
           n == Count
           eHash == r[<<"res", "eHash">>]
           hash == r[<<"res", "hash">>]
           gets == {<<"res", "eHash">>}
           puts == {}
<1>1. OutAt(n, p, eHash, hash) /\ n \in Nat
  BY NetNow, NowFacts DEF OutIn
<1>2. p = [hashes |-> p.hashes, ended |-> p.ended]
  BY <1>1 DEF OutAt
<1>3. Ended(<<"res", "eHash">>)
  BY DEF TakeEnd
<1>4. Move({<<"res", "eHash">>}, {}, LAMBDA c : c)
  BY DEF TakeEnd
<1>5. p2 = [hashes |-> p.hashes, ended |-> TRUE] /\ ~p.ended
  BY <1>2 DEF TakeEnd
<1>6. eHash = n
  <2>1. <<"res", "eHash">> \in FlagChans
    BY DEF FlagChans, Units
  <2> QED
    BY <1>3, <2>1, FlagsTell
<1>7. OutAt(n, p2, eHash + 1, hash)
  <2> HIDE DEF p, p2, n, eHash, hash
  <2> QED
    BY <1>1, <1>5, <1>6, TakeEndAt
<1>8. Stepped(q', q, Streams, w, gets, puts)
  BY <1>4 DEF Move, Can, Moved, Stepped, Chans, Units
<1>9. OutIn(n, Bump(r, gets), p2)
  BY <1>7 DEF OutIn, Bump, Chans, Units
<1>10. gets \subseteq OutGets /\ puts \subseteq {}
  BY DEF OutGets
<1> QED
  BY <1>8, <1>9, <1>10, OutMoves

LEMMA KpadExpandKeeps ==
    ASSUME NEW r, NEW w, Now(r, w), KpadExpand, UNCHANGED <<call, mk, mo, pre, dig, hashed, out>>
    PROVE  IInv'
<1> DEFINE P == Worded["key"]
           p == kp
           p2 == kp'
           n == Count
           long == LongKey
           inE == r[<<"in", "e">>]
           keyWord == IF LongKey THEN 0 ELSE r[<<"key", "word">>]
           keyHash == r[<<"key", "hash">>]
           keyEHash == r[<<"key", "eHash">>]
           keyE == w[<<"key", "e">>]
           keyLen == w[<<"key", "len">>]
           eKipad == w[<<"kpad", "eKipad">>]
           kipad == w[<<"kpad", "kipad">>]
           kopad == w[<<"kpad", "kopad">>]
           gets == {<<"in", "e">>}
           puts == {<<"key", "e">>, <<"key", "len">>}
           toE == Streams[<<"key", "e">>]
           toLen == Streams[<<"key", "len">>]
<1>1. KpAt(P, n, long, p, inE, keyWord, keyHash, keyEHash, keyE, keyLen, eKipad, kipad, kopad) /\ n \in Nat
  BY NetNow, NowFacts DEF KpIn
<1>2. p = [expand |-> p.expand, pad |-> p.pad]
  BY <1>1 DEF KpAt
<1>3. p.expand /\ Goes(<<"in", "e">>)
  BY DEF KpadExpand
<1>4. Move({<<"in", "e">>}, {<<"key", "e">>, <<"key", "len">>}, LAMBDA c : IF c[2] = "e" THEN FALSE ELSE call.keyLen)
  BY DEF KpadExpand
<1>5. inE + 1 <= n
  <2>1. <<"in", "e">> \in FlagChans
    BY DEF FlagChans, Units
  <2> QED
    BY <1>3, <2>1, FlagsTell
<1>6. p2 = p /\ p.expand
  BY DEF KpadExpand
<1>7. KpAt(P, n, long, p2, inE + 1, keyWord, keyHash, keyEHash, keyE + 1, keyLen + 1, eKipad, kipad, kopad)
      /\ long /\ keyE = inE /\ keyLen = inE
  <2> HIDE DEF P, p, p2, n, long, inE, keyWord, keyHash, keyEHash, keyE, keyLen, eKipad, kipad, kopad, toE, toLen
  <2> QED
    <3>1. KpAt(P, n, long, p, inE + 1, keyWord, keyHash, keyEHash, keyE + 1, keyLen + 1, eKipad, kipad, kopad)
          /\ long /\ keyE = inE /\ keyLen = inE
      <4>1. p.expand
        BY <1>6
      <4>2. n \in Nat
        BY <1>1
      <4>3. KpAt(P, n, long, p, inE, keyWord, keyHash, keyEHash, keyE, keyLen, eKipad, kipad, kopad)
        BY <1>1
      <4> QED
        BY <1>5, <4>1, <4>2, <4>3 DEF KpAt
    <3> QED
      BY <1>6, <3>1
<1>8. Stepped(q', q, Streams, w, gets, puts)
  <2>1. keyE < Len(toE) /\ toE[keyE + 1] = FALSE
    <3>1. <<"key", "e">> \in FlagChans
      BY DEF FlagChans, Units
    <3> QED
      BY <1>7, <1>5, <3>1, FlagsTell
  <2>2. keyLen < Len(toLen) /\ toLen[keyLen + 1] = call.keyLen
    <3>1. keyLen + 1 \in 1..n /\ keyLen < n
      <4>1. keyLen \in Nat
        BY NowFacts DEF Chans, Units
      <4> HIDE DEF keyLen, inE, n
      <4> QED
        BY <1>7, <1>1, <1>5, <4>1
    <3>2. /\ Streamed(Streams, n, Lengths, Worded, Blocked, Bodies, Keys)
          /\ Merged(Streams, n, call.w, PadWords, call.keyLen, Lengths, Worded, Bodies, Keys)
      BY NowFacts DEF NetData
    <3> HIDE DEF n, keyLen
    <3>3. Len(toLen) = n /\ toLen[keyLen + 1] = Lengths["key"][keyLen + 1]
      BY <3>1, <3>2 DEF Streamed, Units
    <3>4. Lengths["key"][keyLen + 1] = call.keyLen
      BY <3>1, <3>2 DEF Merged
    <3> QED
      BY <3>1, <3>3, <3>4
  <2>3. q' = [c \in Chans |-> IF c \in gets THEN Tail(q[c])
                         ELSE IF c \in puts THEN Append(q[c], IF c[2] = "e" THEN FALSE ELSE call.keyLen)
                              ELSE q[c]]
    BY <1>4 DEF Move, Moved
  <2>4. \A c \in gets : c \in Chans /\ q[c] # << >> /\ q'[c] = Tail(q[c])
    <3>1. gets \subseteq Chans
      BY DEF Chans, Units
    <3>2. \A c \in gets : q[c] # << >>
      BY <1>4 DEF Move, Can
    <3> HIDE DEF gets, puts
    <3> QED
      BY <2>3, <3>1, <3>2
  <2>5. \A c \in Chans \ (gets \cup puts) : q'[c] = q[c]
    BY <2>3
  <2>6. q'[<<"key", "e">>] = Append(q[<<"key", "e">>], FALSE)
    BY <2>3 DEF Chans, Units
  <2>7. q'[<<"key", "len">>] = Append(q[<<"key", "len">>], call.keyLen)
    BY <2>3 DEF Chans, Units
  <2>8. /\ q'[<<"key", "e">>] = Append(q[<<"key", "e">>], toE[keyE + 1])
        /\ q'[<<"key", "len">>] = Append(q[<<"key", "len">>], toLen[keyLen + 1])
    BY <2>1, <2>2, <2>6, <2>7, Zenon
  <2> QED
    BY <2>1, <2>2, <2>4, <2>5, <2>8 DEF Stepped
<1>9. KpIn(n, long, Worded, Bump(r, gets), Bump(w, puts), p2)
  BY <1>7 DEF KpIn, Bump, Chans, Units
<1>10. gets \subseteq KpGets(LongKey) /\ puts \subseteq KpPuts
  BY DEF KpGets, KpPuts
<1> QED
  BY <1>8, <1>9, <1>10, KpMoves

LEMMA KpadExpandEndKeeps ==
    ASSUME NEW r, NEW w, Now(r, w), KpadExpandEnd, UNCHANGED <<call, mk, mo, pre, dig, hashed, out>>
    PROVE  IInv'
<1> DEFINE P == Worded["key"]
           p == kp
           p2 == kp'
           n == Count
           long == LongKey
           inE == r[<<"in", "e">>]
           keyWord == IF LongKey THEN 0 ELSE r[<<"key", "word">>]
           keyHash == r[<<"key", "hash">>]
           keyEHash == r[<<"key", "eHash">>]
           keyE == w[<<"key", "e">>]
           keyLen == w[<<"key", "len">>]
           eKipad == w[<<"kpad", "eKipad">>]
           kipad == w[<<"kpad", "kipad">>]
           kopad == w[<<"kpad", "kopad">>]
           gets == {<<"in", "e">>}
           puts == {<<"key", "e">>}
<1>1. KpAt(P, n, long, p, inE, keyWord, keyHash, keyEHash, keyE, keyLen, eKipad, kipad, kopad) /\ n \in Nat
  BY NetNow, NowFacts DEF KpIn
<1>2. p = [expand |-> p.expand, pad |-> p.pad]
  BY <1>1 DEF KpAt
<1>3. p.expand
  BY DEF KpadExpandEnd
<1>4. Ended(<<"in", "e">>) /\ EndTo(<<"in", "e">>, <<"key", "e">>)
  BY DEF KpadExpandEnd
<1>5. inE = n
  <2>1. <<"in", "e">> \in FlagChans
    BY DEF FlagChans, Units
  <2> QED
    BY <1>4, <2>1, FlagsTell
<1>6. p2 = [expand |-> FALSE, pad |-> p.pad]
  BY <1>2 DEF KpadExpandEnd
<1>7. KpAt(P, n, long, p2, inE + 1, keyWord, keyHash, keyEHash, keyE + 1, keyLen, eKipad, kipad, kopad)
      /\ long /\ keyE = n
  <2> HIDE DEF P, p, p2, n, long, inE, keyWord, keyHash, keyEHash, keyE, keyLen, eKipad, kipad, kopad
  <2> QED
    BY <1>1, <1>3, <1>5, <1>6, KpExpandEndAt
<1>8. Stepped(q', q, Streams, w, gets, puts)
  <2>1. <<"key", "e">> \in FlagChans /\ <<"in", "e">> \in Chans /\ <<"key", "e">> # <<"in", "e">>
    BY DEF FlagChans, Chans, Units
  <2> QED
    BY <1>4, <1>7, <2>1, EndSteps
<1>9. KpIn(n, long, Worded, Bump(r, gets), Bump(w, puts), p2)
  BY <1>7 DEF KpIn, Bump, Chans, Units
<1>10. gets \subseteq KpGets(LongKey) /\ puts \subseteq KpPuts
  BY DEF KpGets, KpPuts
<1> QED
  BY <1>8, <1>9, <1>10, KpMoves

LEMMA PadsAre ==
    ASSUME NEW r, NEW w, Now(r, w), NEW y \in 1..Count, NEW k1, k1 = Keys[y],
           \A c \in PadChans : w[c] + 1 = y
    PROVE  \A c \in PadChans :
              c \in Chans /\ w[c] < Len(Streams[c]) /\ Append(q[c], Pads(k1, c)) = Append(q[c], Streams[c][w[c] + 1])
<1> DEFINE n == Count
           a == <<"kpad", "kipad">>
           b == <<"kpad", "kopad">>
           f == <<"kpad", "eKipad">>
<1>1. Streamed(Streams, n, Lengths, Worded, Blocked, Bodies, Keys)
  BY NowFacts DEF NetData
<1>2. PadChans = {a, b, f} /\ a \in Chans /\ b \in Chans /\ f \in FlagChans /\ f \in Chans
  BY DEF PadChans, Chans, FlagChans
<1>3. Pads(k1, a) = Ipad(k1) /\ Pads(k1, b) = Opad(k1) /\ Pads(k1, f) = FALSE
  BY DEF Pads
<1>4. /\ Len(Streams[a]) = n /\ Streams[a][y] = Ipad(k1)
      /\ Len(Streams[b]) = n /\ Streams[b][y] = Opad(k1)
  BY <1>1 DEF Streamed
<1>5. n \in Nat /\ w[a] \in Nat /\ w[b] \in Nat /\ w[f] \in Nat
  BY <1>2, NowFacts
<1>6. w[a] + 1 = y /\ w[b] + 1 = y /\ w[f] + 1 = y /\ y \in 1..n
  BY <1>2
<1> HIDE DEF a, b, f, n
<1>7. w[a] < Len(Streams[a]) /\ w[b] < Len(Streams[b]) /\ w[f] + 1 <= n
  BY <1>4, <1>5, <1>6
<1>8. w[f] < Len(Streams[f]) /\ Streams[f][w[f] + 1] = FALSE
  BY <1>2, <1>7, FlagsTell DEF n
<1>9. Pads(k1, a) = Streams[a][w[a] + 1] /\ Pads(k1, b) = Streams[b][w[b] + 1]
  BY <1>3, <1>4, <1>6
<1>10. Append(q[f], Pads(k1, f)) = Append(q[f], Streams[f][w[f] + 1])
  BY <1>3, <1>8, Zenon
<1> QED
  BY <1>2, <1>7, <1>8, <1>9, <1>10

LEMMA KpadGenKeeps ==
    ASSUME NEW r, NEW w, Now(r, w), KpadGen, UNCHANGED <<call, mk, mo, pre, dig, hashed, out>>
    PROVE  IInv'
<1> DEFINE P == Worded["key"]
           p == kp
           p2 == kp'
           n == Count
           long == LongKey
           inE == r[<<"in", "e">>]
           keyWord == IF LongKey THEN 0 ELSE r[<<"key", "word">>]
           keyHash == r[<<"key", "hash">>]
           keyEHash == r[<<"key", "eHash">>]
           keyE == w[<<"key", "e">>]
           keyLen == w[<<"key", "len">>]
           eKipad == w[<<"kpad", "eKipad">>]
           kipad == w[<<"kpad", "kipad">>]
           kopad == w[<<"kpad", "kopad">>]
           gets == {<<"key", "eHash">>, <<"key", "hash">>}
           puts == PadChans
           y == keyEHash + 1
           k1 == LongPad(Head(q[<<"key", "hash">>]), call.w)
<1>1. KpAt(P, n, long, p, inE, keyWord, keyHash, keyEHash, keyE, keyLen, eKipad, kipad, kopad) /\ n \in Nat
  BY NetNow, NowFacts DEF KpIn
<1>2. p = [expand |-> p.expand, pad |-> p.pad]
  BY <1>1 DEF KpAt
<1>3. long /\ Goes(<<"key", "eHash">>) /\ p2 = p
  BY DEF KpadGen
<1>4. Move(gets, puts, LAMBDA c : Pads(k1, c))
  BY DEF KpadGen, LongPad
<1>5. keyEHash + 1 <= n
  <2>1. <<"key", "eHash">> \in FlagChans
    BY DEF FlagChans, Units
  <2> QED
    BY <1>3, <2>1, FlagsTell
<1>6. keyEHash \in Nat
  BY NowFacts DEF Chans, Units
<1>7. KpAt(P, n, long, p2, inE, keyWord, keyHash + 1, keyEHash + 1, keyE, keyLen, eKipad + 1, kipad + 1, kopad + 1)
      /\ keyHash = keyEHash /\ eKipad = keyEHash /\ kipad = keyEHash /\ kopad = keyEHash
  <2>1. p2 = p /\ long
    BY DEF KpadGen
  <2> HIDE DEF P, p, p2, n, long, inE, keyWord, keyHash, keyEHash, keyE, keyLen, eKipad, kipad, kopad, y, k1
  <2>2. KpAt(P, n, long, p, inE, keyWord, keyHash + 1, keyEHash + 1, keyE, keyLen, eKipad + 1, kipad + 1, kopad + 1)
        /\ keyHash = keyEHash /\ eKipad = keyEHash /\ kipad = keyEHash /\ kopad = keyEHash
    BY <1>1, <2>1, <1>5, <1>6 DEF KpAt
  <2> QED
    BY <2>1, <2>2
<1>8. Stepped(q', q, Streams, w, gets, puts)
  <2>1. y \in 1..n
    <3> HIDE DEF keyEHash, n
    <3> QED
      BY <1>1, <1>5, <1>6
  <2>2. k1 = Keys[y]
    <3>1. q[<<"key", "hash">>] # << >> /\ <<"key", "hash">> \in Chans /\ "key" \in Units
      BY <1>4 DEF Move, Can, Chans, Units
    <3>2. Head(q[<<"key", "hash">>]) = Streams[<<"key", "hash">>][y]
      BY <3>1, <1>7, NowFacts
    <3>3. Streams[<<"key", "hash">>][y] = Digest("key", y)
      BY <2>1, <3>1, HashesAre
    <3>4. y \in Messages
      BY <2>1, NowFacts, CallFacts
    <3>5. LongPad(Digest("key", y), call.w) = Keys[y]
      <4> HIDE DEF y
      <4> QED
        BY <1>3, <3>4, NowFacts, LongKeyRight
    <3> QED
      BY <3>2, <3>3, <3>5
  <2>3. \A c \in PadChans : w[c] + 1 = y
    BY <1>7 DEF PadChans
  <2> HIDE DEF y, k1
  <2>4. \A c \in PadChans :
           /\ c \in Chans /\ w[c] < Len(Streams[c])
           /\ Append(q[c], Pads(k1, c)) = Append(q[c], Streams[c][w[c] + 1])
    BY <2>1, <2>2, <2>3, PadsAre
  <2>5. gets \subseteq Chans /\ gets \cap puts = {}
    BY DEF Chans, Units, PadChans
  <2>6. \A c \in gets : q[c] # << >>
    BY <1>4 DEF Move, Can
  <2>7. q' = [c \in Chans |-> IF c \in gets THEN Tail(q[c]) ELSE IF c \in puts THEN Append(q[c], Pads(k1, c)) ELSE q[c]]
    BY <1>4 DEF Move, Moved
  <2> HIDE DEF gets
  <2> QED
    BY <2>4, <2>5, <2>6, <2>7 DEF Stepped
<1>9. KpIn(n, long, Worded, Bump(r, gets), Bump(w, puts), p2)
  BY <1>7 DEF KpIn, Bump, Chans, Units, PadChans
<1>10. gets \subseteq KpGets(LongKey) /\ puts \subseteq KpPuts
  BY DEF KpGets, KpPuts, PadChans
<1> QED
  BY <1>8, <1>9, <1>10, KpMoves

LEMMA KpadEndKeeps ==
    ASSUME NEW r, NEW w, Now(r, w), KpadEnd, UNCHANGED <<call, mk, mo, pre, dig, hashed, out>>
    PROVE  IInv'
<1> DEFINE P == Worded["key"]
           p == kp
           p2 == kp'
           n == Count
           long == LongKey
           c == PadFlags
           inE == r[<<"in", "e">>]
           keyWord == IF LongKey THEN 0 ELSE r[<<"key", "word">>]
           keyHash == r[<<"key", "hash">>]
           keyEHash == r[<<"key", "eHash">>]
           keyE == w[<<"key", "e">>]
           keyLen == w[<<"key", "len">>]
           eKipad == w[<<"kpad", "eKipad">>]
           kipad == w[<<"kpad", "kipad">>]
           kopad == w[<<"kpad", "kopad">>]
           gets == {PadFlags}
           puts == {<<"kpad", "eKipad">>}
<1>1. KpAt(P, n, long, p, inE, keyWord, keyHash, keyEHash, keyE, keyLen, eKipad, kipad, kopad) /\ n \in Nat
  BY NetNow, NowFacts DEF KpIn
<1>2. p = [expand |-> p.expand, pad |-> p.pad] /\ long \in BOOLEAN
  BY <1>1, NetNow DEF KpAt
<1>3. p.pad /\ p2 = [expand |-> p.expand, pad |-> FALSE]
  BY <1>2 DEF KpadEnd
<1>4. Ended(c) /\ EndTo(c, <<"kpad", "eKipad">>)
  BY DEF KpadEnd
<1>5. c \in FlagChans /\ c \in Chans /\ <<"kpad", "eKipad">> \in FlagChans /\ <<"kpad", "eKipad">> # c
  BY DEF FlagChans, Chans, Units, PadFlags
<1>6. r[c] = n
  BY <1>4, <1>5, FlagsTell
<1>7. (IF long THEN keyEHash ELSE inE) = n
  BY <1>6 DEF PadFlags
<1>8. KpAt(P, n, long, p2, IF long THEN inE ELSE inE + 1, keyWord, keyHash,
           IF long THEN keyEHash + 1 ELSE keyEHash, keyE, keyLen, eKipad + 1, kipad, kopad)
      /\ eKipad = n
  <2> HIDE DEF P, p, p2, n, long, inE, keyWord, keyHash, keyEHash, keyE, keyLen, eKipad, kipad, kopad
  <2> QED
    BY <1>1, <1>2, <1>3, <1>7, KpEndAt
<1>9. Stepped(q', q, Streams, w, gets, puts)
  <2> HIDE DEF c
  <2>1. Stepped(q', q, Streams, w, {c}, puts)
    BY <1>4, <1>5, <1>8, EndSteps
  <2> QED
    BY <2>1 DEF c
<1>10. KpIn(n, long, Worded, Bump(r, gets), Bump(w, puts), p2)
  <2> DEFINE r2 == Bump(r, gets)
             w2 == Bump(w, puts)
  <2>1. /\ r2[<<"in", "e">>] = IF long THEN inE ELSE inE + 1
        /\ (IF LongKey THEN 0 ELSE r2[<<"key", "word">>]) = keyWord
        /\ r2[<<"key", "hash">>] = keyHash
        /\ r2[<<"key", "eHash">>] = IF long THEN keyEHash + 1 ELSE keyEHash
    BY DEF Bump, Chans, Units, PadFlags
  <2>2. /\ w2[<<"key", "e">>] = keyE /\ w2[<<"key", "len">>] = keyLen /\ w2[<<"kpad", "eKipad">>] = eKipad + 1
        /\ w2[<<"kpad", "kipad">>] = kipad /\ w2[<<"kpad", "kopad">>] = kopad
    BY DEF Bump, Chans, Units
  <2> HIDE DEF r2, w2
  <2> QED
    BY <1>8, <2>1, <2>2 DEF KpIn, r2, w2
<1>11. gets \subseteq KpGets(LongKey) /\ puts \subseteq KpPuts
  BY DEF KpGets, KpPuts, PadFlags
<1> QED
  BY <1>9, <1>10, <1>11, KpMoves

(* A whole part is taken from a FIFO at once.                              *)
LEMMA FifoSkip ==
    ASSUME NEW t, IsStream(t), NEW r \in Nat, NEW w \in Nat, NEW s, Fifo(s, t, r, w), NEW k \in Nat, r + k <= w
    PROVE  SubSeq(s, 1, k) = SubSeq(t, r + 1, r + k) /\ Fifo(SubSeq(s, k + 1, Len(s)), t, r + k, w)
<1>1. PICK S : t \in Seq(S)
  BY DEF IsStream
<1>2. r <= w /\ w <= Len(t) /\ s = SubSeq(t, r + 1, w)
  BY DEF Fifo
<1>3. /\ SubSeq(s, 1, k) = SubSeq(t, r + 1, r + k)
      /\ SubSeq(s, k + 1, Len(s)) = SubSeq(t, (r + k) + 1, w)
  BY <1>1, <1>2, SliceSlice
<1> QED
  BY <1>2, <1>3 DEF Fifo

LEMMA PartSlice ==
    ASSUME NEW n \in Nat, NEW P, NEW t, Carries(t, P, n), NEW e \in 1..n
    PROVE  SubSeq(t, Upto(P, e - 1) + 1, Upto(P, e)) = P[e]
<1> DEFINE a == Upto(P, e - 1)
           b == Upto(P, e)
           k == Len(P[e])
           z == SubSeq(t, a + 1, b)
<1>1. a \in Nat /\ b \in Nat /\ k \in Nat /\ b = a + k /\ b <= Len(t) /\ \A i \in 1..k : t[a + i] = P[e][i]
  BY PartPlace
<1>2. IsStream(P[e]) /\ IsStream(t)
  BY PartPlace DEF Carries
<1>3. PICK S : t \in Seq(S)
  BY <1>2 DEF IsStream
<1>4. PICK R : P[e] \in Seq(R)
  BY <1>2 DEF IsStream
<1> HIDE DEF a, b
<1>5. z \in Seq(S) /\ Len(z) = b - a /\ \A i \in 1..b - a : z[i] = t[a + i]
  BY <1>1, <1>3, SliceFacts
<1> HIDE DEF z, k
<1>6. Len(z) = k /\ \A i \in 1..k : z[i] = P[e][i]
  <2>1. b - a = k
    BY <1>1
  <2>2. Len(z) = k /\ \A i \in 1..k : z[i] = t[a + i]
    BY <1>5, <2>1
  <2>3. \A i \in 1..k : t[a + i] = P[e][i]
    BY <1>1
  <2> QED
    BY <2>2, <2>3
<1>7. z = P[e]
  BY <1>4, <1>5, <1>6, SliceSame DEF k
<1> QED
  BY <1>7 DEF z, a, b

LEMMA KpadShortKeeps ==
    ASSUME NEW r, NEW w, Now(r, w), KpadShort, UNCHANGED <<call, mk, mo, pre, dig, hashed, out>>
    PROVE  IInv'
<1> DEFINE P == Worded["key"]
           p == kp
           n == Count
           long == LongKey
           f == <<"in", "e">>
           g == <<"key", "word">>
           t == Streams[g]
           inE == r[<<"in", "e">>]
           keyWord == r[<<"key", "word">>]
           keyHash == r[<<"key", "hash">>]
           keyEHash == r[<<"key", "eHash">>]
           keyE == w[<<"key", "e">>]
           keyLen == w[<<"key", "len">>]
           eKipad == w[<<"kpad", "eKipad">>]
           kipad == w[<<"kpad", "kipad">>]
           kopad == w[<<"kpad", "kopad">>]
           y == inE + 1
           N == KeyWords
           words == SubSeq(q[g], 1, N)
           k1 == FoldLeft(ShiftIn, Zeros(BlockBytes), words)
           r2 == [c \in Chans |-> IF c = f THEN r[c] + 1 ELSE IF c = g THEN r[c] + N ELSE r[c]]
           w2 == Bump(w, PadChans)
<1>1. ~long /\ Goes(f) /\ kp' = p /\ Can({}, PadChans)
  BY DEF KpadShort
<1>2. q' = [c \in Chans |-> CASE c = f           -> Tail(q[c])
                              [] c = g           -> SubSeq(q[c], N + 1, Len(q[c]))
                              [] c \in PadChans  -> Append(q[c], Pads(k1, c))
                              [] OTHER           -> q[c]]
  BY DEF KpadShort
<1>3. /\ f \in FlagChans /\ f \in Chans /\ g \in Chans /\ "key" \in Units
      /\ f # g /\ f \notin PadChans /\ g \notin PadChans
      /\ g \in Given
  BY DEF FlagChans, Chans, Units, PadChans, Given
<1>4. KpAt(P, n, long, p, inE, keyWord, keyHash, keyEHash, keyE, keyLen, eKipad, kipad, kopad) /\ n \in Nat
  BY <1>1, NetNow, NowFacts DEF KpIn
<1>5. inE \in Nat /\ y <= n /\ q[f] # << >>
  BY <1>1, <1>3, NowFacts, FlagsTell
<1>6. y \in 1..n /\ y - 1 = inE
  BY <1>4, <1>5
<1>7. Carries(t, P, n)
  BY <1>3, NowFacts DEF NetData, Streamed
<1>8. P[y] = Wire(Key(y), call.w) /\ y \in Messages /\ y \in Nat
  <2> HIDE DEF y
  <2>1. y \in Messages /\ y \in Nat
    BY <1>4, <1>6, NowFacts, CallFacts
  <2> QED
    BY <1>3, <2>1 DEF Worded, TextOf
<1>9. N = Len(P[y]) /\ N \in Nat
  <2> HIDE DEF y
  <2> DEFINE X == Key(y)
             b == call.w
  <2>1. X \in Seq(Int) /\ Len(X) = call.keyLen
    BY <1>8, NowFacts, TextFacts
  <2>2. b \in {4, 8}
    BY NowFacts, CallFacts
  <2>3. Len(Wire(X, b)) = Words(Len(X), b) /\ Words(Len(X), b) \in Nat
    <3> HIDE DEF X, b
    <3>1. Len(Wire(X, b)) = Words(Len(X), b)
      BY <2>1, <2>2, WireFacts
    <3>2. Len(X) \in Nat
      BY <2>1
    <3> QED
      BY <2>2, <3>1, <3>2, WordsFacts
  <2> QED
    BY <1>8, <2>1, <2>3 DEF KeyWords
<1>10. /\ KpAt(P, n, long, p, y, keyWord + N, keyHash, keyEHash, keyE, keyLen, eKipad + 1, kipad + 1, kopad + 1)
       /\ keyWord = Upto(P, inE) /\ eKipad = inE /\ kipad = inE /\ kopad = inE
  <2>1. Sums(P, n)
    BY <1>7 DEF Carries
  <2>2. /\ KpAt(P, n, long, p, inE + 1, keyWord + Len(P[inE + 1]), keyHash, keyEHash, keyE, keyLen,
                eKipad + 1, kipad + 1, kopad + 1)
        /\ keyWord = Upto(P, inE) /\ eKipad = inE /\ kipad = inE /\ kopad = inE
    <3>1. inE + 1 <= n
      BY <1>5
    <3> HIDE DEF P, p, n, long, inE, keyWord, keyHash, keyEHash, keyE, keyLen, eKipad, kipad, kopad, y
    <3> QED
      BY <1>1, <1>4, <1>5, <2>1, <3>1, KpShortAt
  <2> QED
    BY <1>9, <2>2
<1>11. /\ Upto(P, inE) \in Nat /\ keyWord + N = Upto(P, y) /\ Upto(P, y) <= Len(t)
       /\ SubSeq(t, keyWord + 1, keyWord + N) = P[y] /\ w[g] = Len(t)
  <2>1. w[g] = Len(t)
    BY <1>3 DEF Now, Reached
  <2> HIDE DEF P, n, t, y, N, inE, g
  <2>2. /\ Upto(P, y - 1) \in Nat /\ Upto(P, y) = Upto(P, y - 1) + Len(P[y]) /\ Upto(P, y) <= Len(t)
        /\ SubSeq(t, Upto(P, y - 1) + 1, Upto(P, y)) = P[y]
    <3>1. n \in Nat /\ y \in 1..n /\ Carries(t, P, n)
      BY <1>4, <1>6, <1>7
    <3>2. Upto(P, y - 1) \in Nat /\ Upto(P, y) = Upto(P, y - 1) + Len(P[y]) /\ Upto(P, y) <= Len(t)
      BY <3>1, PartPlace
    <3>3. SubSeq(t, Upto(P, y - 1) + 1, Upto(P, y)) = P[y]
      BY <3>1, PartSlice
    <3> QED
      BY <3>2, <3>3
  <2>3. keyWord = Upto(P, y - 1)
    BY <1>6, <1>10
  <2> QED
    BY <1>6, <1>9, <2>1, <2>2, <2>3
<1>12. words = P[y] /\ Fifo(SubSeq(q[g], N + 1, Len(q[g])), t, r[g] + N, w[g])
  <2>1. IsStream(t) /\ r[g] \in Nat /\ w[g] \in Nat /\ Fifo(q[g], t, r[g], w[g])
    BY <1>3, NowFacts DEF Flow
  <2>2. r[g] = keyWord /\ r[g] + N <= w[g]
    BY <1>11
  <2> DEFINE a == r[g]
             b == w[g]
             s == q[g]
  <2>3. SubSeq(s, 1, N) = SubSeq(t, a + 1, a + N) /\ Fifo(SubSeq(s, N + 1, Len(s)), t, a + N, b)
    <3>1. N \in Nat
      BY <1>9
    <3>2. IsStream(t) /\ a \in Nat /\ b \in Nat /\ Fifo(s, t, a, b) /\ a + N <= b
      BY <2>1, <2>2
    <3> HIDE DEF a, b, s, t, N, g
    <3> QED
      BY <3>1, <3>2, FifoSkip
  <2> QED
    BY <1>11, <2>2, <2>3
<1>13. k1 = Keys[y]
  <2>1. FoldLeft(ShiftIn, Zeros(BlockBytes), Wire(Key(y), call.w)) = Keys[y]
    <3> HIDE DEF y
    <3> QED
      BY <1>1, <1>8, NowFacts, ShortKeyRight
  <2> QED
    BY <1>8, <1>12, <2>1
<1>14. \A c \in PadChans :
          /\ c \in Chans /\ w[c] < Len(Streams[c])
          /\ Append(q[c], Pads(k1, c)) = Append(q[c], Streams[c][w[c] + 1])
  <2>1. \A c \in PadChans : w[c] + 1 = y
    BY <1>10 DEF PadChans
  <2> HIDE DEF y, k1
  <2> QED
    BY <1>6, <1>13, <2>1, PadsAre
<1>15. Flow(q', Streams, r2, w2)
  <2> SUFFICES ASSUME NEW c \in Chans PROVE Fifo(q'[c], Streams[c], r2[c], w2[c])
    BY DEF Flow
  <2>1. /\ IsStream(Streams[c]) /\ r[c] \in Nat /\ w[c] \in Nat /\ Fifo(q[c], Streams[c], r[c], w[c])
    BY NowFacts DEF Flow
  <2>2. CASE c = f
    <3>1. q'[c] = Tail(q[c]) /\ r2[c] = r[c] + 1 /\ w2[c] = w[c]
      BY <1>2, <1>3, <2>2 DEF Bump
    <3> HIDE DEF r2, w2, f
    <3>2. q[c] # << >>
      BY <1>5, <2>2
    <3>3. FifoView(q[c], Streams[c], r[c], w[c])
      BY <2>1, FifoSeen DEF FifoAt
    <3>4. Fifo(Tail(q[c]), Streams[c], r[c] + 1, w[c])
      BY <3>2, <3>3 DEF FifoView
    <3> QED
      BY <3>1, <3>4
  <2>3. CASE c = g
    <3>1. q'[c] = SubSeq(q[c], N + 1, Len(q[c])) /\ r2[c] = r[c] + N /\ w2[c] = w[c]
      BY <1>2, <1>3, <2>3 DEF Bump
    <3> HIDE DEF r2, w2, N, g
    <3> QED
      BY <1>12, <2>3, <3>1 DEF t
  <2>4. CASE c \in PadChans
    <3>1. q'[c] = Append(q[c], Pads(k1, c)) /\ r2[c] = r[c] /\ w2[c] = w[c] + 1
      BY <1>2, <1>3, <2>4 DEF Bump
    <3> HIDE DEF r2, w2, k1
    <3>2. w[c] < Len(Streams[c]) /\ q'[c] = Append(q[c], Streams[c][w[c] + 1])
      BY <1>14, <2>4, <3>1
    <3>3. FifoView(q[c], Streams[c], r[c], w[c])
      BY <2>1, FifoSeen DEF FifoAt
    <3>4. Fifo(Append(q[c], Streams[c][w[c] + 1]), Streams[c], r[c], w[c] + 1)
      BY <3>2, <3>3 DEF FifoView
    <3> QED
      BY <3>1, <3>2, <3>4
  <2>5. CASE c # f /\ c # g /\ c \notin PadChans
    <3>1. q'[c] = q[c] /\ r2[c] = r[c] /\ w2[c] = w[c]
      BY <1>2, <2>5 DEF Bump
    <3> QED
      BY <2>1, <3>1
  <2> QED
    BY <2>2, <2>3, <2>4, <2>5
<1>16. Onward(r, w, r2, w2, KpGets(LongKey), KpPuts)
  <2>1. r2 \in [Chans -> Nat] /\ w2 \in [Chans -> Nat]
    <3>1. r \in [Chans -> Nat] /\ w \in [Chans -> Nat]
      BY NowFacts
    <3> HIDE DEF N
    <3>2. w2 \in [Chans -> Nat]
      BY <3>1 DEF Bump
    <3>3. r2 \in [Chans -> Nat]
      <4>1. N \in Nat
        BY <1>9
      <4> HIDE DEF f, g
      <4>2. ASSUME NEW c \in Chans PROVE r2[c] \in Nat
        <5>1. r[c] \in Nat
          BY <3>1
        <5> QED
          BY <4>1, <5>1
      <4>3. r2 = [c \in Chans |-> r2[c]]
        OBVIOUS
      <4> HIDE DEF r2
      <4> QED
        BY <4>2, <4>3
    <3> QED
      BY <3>2, <3>3
  <2>2. \A c \in Chans \ KpGets(LongKey) : r2[c] = r[c]
    BY <1>1 DEF KpGets
  <2>3. \A c \in Chans \ KpPuts : w2[c] = w[c]
    BY DEF KpPuts, Bump, PadChans
  <2> HIDE DEF r2, w2
  <2> QED
    BY <1>15, <2>1, <2>2, <2>3 DEF Onward, Agree
<1>17. KpIn(n, long, Worded, r2, w2, kp')
  <2>1. /\ r2[<<"in", "e">>] = y
        /\ (IF LongKey THEN 0 ELSE r2[<<"key", "word">>]) = keyWord + N
        /\ r2[<<"key", "hash">>] = keyHash /\ r2[<<"key", "eHash">>] = keyEHash
    <3> HIDE DEF N
    <3> QED
      BY <1>1 DEF Chans, Units
  <2>2. /\ w2[<<"key", "e">>] = keyE /\ w2[<<"key", "len">>] = keyLen /\ w2[<<"kpad", "eKipad">>] = eKipad + 1
        /\ w2[<<"kpad", "kipad">>] = kipad + 1 /\ w2[<<"kpad", "kopad">>] = kopad + 1
    BY DEF Bump, Chans, Units, PadChans
  <2> HIDE DEF r2, w2
  <2> QED
    BY <1>1, <1>10, <2>1, <2>2 DEF KpIn
<1> HIDE DEF r2, w2
<1> QED
  BY <1>16, <1>17, KpStep

-----------------------------------------------------------------------------
(* preProcessing keeps the invariant.                                      *)

LEMMA PreFlagKeeps ==
    ASSUME NEW u \in Units, NEW r, NEW w, Now(r, w), PreFlag(u), UNCHANGED <<call, kp, mk, mo, dig, hashed, out>>
    PROVE  IInv'
<1> DEFINE n == Count
           b == call.w
           L == Lengths[u]
           P == Worded[u]
           Q == Blocked[u]
           p == pre[u]
           e == r[<<u, "e">>]
           len == r[<<u, "len">>]
           word == IF u = "key" /\ ~LongKey THEN 0 ELSE r[<<u, "word">>]
           nblk == w[<<u, "nblk">>]
           blk == w[<<u, "blk">>]
           l == p.len
           j == p.j
           buf == p.buf
           x == Head(q[<<u, "len">>])
           gets == {<<u, "e">>, <<u, "len">>}
           puts == {<<u, "nblk">>}
           p2 == [pc |-> "block", len |-> x, j |-> 0, buf |-> << >>]
<1>1. PreAt(L, P, Q, b, n, p, e, len, word, nblk, blk) /\ n \in Nat
  BY NetNow, NowFacts DEF PreIn
<1>2. p = [pc |-> p.pc, len |-> p.len, j |-> p.j, buf |-> p.buf]
  BY <1>1 DEF PreAt
<1>3. UnitData(L, P, Q, n, b)
  BY NowFacts DEF NetData
<1>4. p.pc = "flag" /\ Goes(<<u, "e">>)
  BY DEF PreFlag
<1>5. Move(gets, puts, LAMBDA c : BlkNum(x))
  BY DEF PreFlag
<1>6. pre' = [pre EXCEPT ![u] = p2]
  BY DEF PreFlag
<1>7. e + 1 <= n
  <2>1. <<u, "e">> \in FlagChans
    BY DEF FlagChans
  <2> QED
    BY <1>4, <2>1, FlagsTell
<1>8. e \in 0..n /\ len = e /\ nblk = e
  BY <1>1, <1>4 DEF PreAt
<1>9. x = L[e + 1]
  <2>1. q[<<u, "len">>] # << >> /\ <<u, "len">> \in Chans
    BY <1>5 DEF Move, Can, Chans
  <2>2. x = Streams[<<u, "len">>][len + 1]
    BY <2>1, NowFacts
  <2>3. \A m \in 1..n : Streams[<<u, "len">>][m] = L[m]
    BY NowFacts DEF NetData, Streamed
  <2> QED
    BY <1>7, <1>8, <2>2, <2>3
<1>10. PreAt(L, P, Q, b, n, p2, e + 1, len + 1, word, nblk + 1, blk)
  <2>1. p2 = [pc |-> "block", len |-> L[e + 1], j |-> 0, buf |-> << >>]
    BY <1>9
  <2>2. p.pc = "flag"
    BY <1>4
  <2> HIDE DEF p2, x, n, b, L, P, Q, p, e, len, word, nblk, blk, l, j, buf
  <2> QED
    BY <1>1, <1>3, <2>2, <1>7, <2>1, PreFlagAt
<1>11. Stepped(q', q, Streams, w, gets, puts)
  <2> DEFINE c == <<u, "nblk">>
  <2>1. /\ Len(Streams[c]) = n + 1 /\ \A m \in 1..n : Streams[c][m] = BlkNum(L[m])
    BY NowFacts DEF NetData, Streamed
  <2>2. e + 1 \in 1..n /\ nblk + 1 = e + 1
    BY <1>7, <1>8, <1>1
  <2>3. nblk < Len(Streams[c]) /\ BlkNum(x) = Streams[c][nblk + 1]
    <3> DEFINE s == Streams[c]
               y == e + 1
    <3>1. y \in 1..n /\ nblk + 1 = y /\ nblk < n + 1 /\ x = L[y]
      BY <1>1, <1>8, <1>9, <2>2
    <3>2. Len(s) = n + 1 /\ \A m \in 1..n : s[m] = BlkNum(L[m])
      BY <2>1
    <3> HIDE DEF s, y, n, x, L, nblk
    <3> QED
      BY <3>1, <3>2 DEF s
  <2> HIDE DEF x
  <2> QED
    BY <1>5, <2>3 DEF Move, Can, Moved, Stepped, Chans, Units
<1>12. PreIn(u, n, b, LongKey, Lengths, Worded, Blocked, Bump(r, gets), Bump(w, puts), p2)
  <2> DEFINE r2 == Bump(r, gets)
             w2 == Bump(w, puts)
  <2>1. r2[<<u, "e">>] = e + 1 /\ r2[<<u, "len">>] = len + 1
    BY DEF Bump, Chans, Units
  <2>2. (IF u = "key" /\ ~LongKey THEN 0 ELSE r2[<<u, "word">>]) = word
    BY DEF Bump, Chans, Units
  <2>3. w2[<<u, "nblk">>] = nblk + 1 /\ w2[<<u, "blk">>] = blk
    BY DEF Bump, Chans, Units
  <2> HIDE DEF r2, w2
  <2> QED
    BY <1>10, <2>1, <2>2, <2>3 DEF PreIn, r2, w2
<1>13. gets \subseteq PreGets(u, LongKey) /\ puts \subseteq PrePuts(u)
  BY DEF PreGets, PrePuts
<1> HIDE DEF gets, puts, p2
<1> QED
  BY <1>11, <1>6, <1>12, <1>13, PreMoves

LEMMA PreReadKeeps ==
    ASSUME NEW u \in Units, NEW r, NEW w, Now(r, w), PreRead(u), UNCHANGED <<call, kp, mk, mo, dig, hashed, out>>
    PROVE  IInv'
<1> DEFINE n == Count
           b == call.w
           L == Lengths[u]
           P == Worded[u]
           Q == Blocked[u]
           p == pre[u]
           e == r[<<u, "e">>]
           len == r[<<u, "len">>]
           word == IF u = "key" /\ ~LongKey THEN 0 ELSE r[<<u, "word">>]
           nblk == w[<<u, "nblk">>]
           blk == w[<<u, "blk">>]
           l == p.len
           j == p.j
           buf == p.buf
           c == <<u, "word">>
           t == Streams[c]
           x == Head(q[c])
           gets == {c}
           puts == {}
           p2 == [pc |-> p.pc, len |-> p.len, j |-> p.j, buf |-> Append(p.buf, x)]
<1>1. PreAt(L, P, Q, b, n, p, e, len, word, nblk, blk) /\ n \in Nat
  BY NetNow, NowFacts DEF PreIn
<1>2. p = [pc |-> p.pc, len |-> p.len, j |-> p.j, buf |-> p.buf]
  BY <1>1 DEF PreAt
<1>3. UnitData(L, P, Q, n, b)
  BY NowFacts DEF NetData
<1>4. p.pc = "block" /\ Len(p.buf) < WordsOf(p.len, b, p.j)
  BY DEF PreRead, WordsNeeded
<1>5. Move(gets, puts, LAMBDA a : a)
  BY DEF PreRead
<1>6. pre' = [pre EXCEPT ![u] = p2]
  <2>1. pre' = [pre EXCEPT ![u] = [p EXCEPT !.buf = Append(p.buf, x)]]
    BY DEF PreRead
  <2>2. [p EXCEPT !.buf = Append(p.buf, x)] = p2
    <3> HIDE DEF p, x
    <3> QED
      BY <1>2
  <2> QED
    BY <2>1, <2>2, Zenon
<1>7. ~(u = "key" /\ ~LongKey)
  <2> SUFFICES ASSUME u = "key", ~LongKey PROVE FALSE
    OBVIOUS
  <2>1. e \in 1..n
    BY <1>1, <1>4 DEF PreAt
  <2>2. w[<<u, "e">>] = 0
    BY NetNow DEF KpIn, KpAt
  <2>3. <<u, "e">> \in Chans
    BY DEF Chans
  <2>4. e <= w[<<u, "e">>] /\ e \in Nat
    BY <2>3, NowFacts
  <2> QED
    BY <2>1, <2>2, <2>4
<1>8. Carries(t, P, n)
  BY NowFacts DEF NetData, Streamed
<1>9. x = t[word + 1]
  <2>1. q[c] # << >> /\ c \in Chans
    BY <1>5 DEF Move, Can, Chans
  <2>2. word = r[c]
    BY <1>7
  <2> QED
    BY <2>1, <2>2, NowFacts
<1>10. PreAt(L, P, Q, b, n, p2, e, len, word + 1, nblk, blk)
  <2>1. p2 = [pc |-> p.pc, len |-> p.len, j |-> p.j, buf |-> Append(p.buf, t[word + 1])]
    BY <1>9
  <2> HIDE DEF p2, x, c, t, n, b, L, P, Q, p, e, len, word, nblk, blk, l, j, buf
  <2> QED
    BY <1>1, <1>3, <1>4, <1>8, <2>1, PreReadAt
<1>11. Stepped(q', q, Streams, w, gets, puts)
  BY <1>5 DEF Move, Can, Moved, Stepped, Chans, Units
<1>12. PreIn(u, n, b, LongKey, Lengths, Worded, Blocked, Bump(r, gets), Bump(w, puts), p2)
  <2> DEFINE r2 == Bump(r, gets)
             w2 == Bump(w, puts)
  <2>1. r2[<<u, "e">>] = e /\ r2[<<u, "len">>] = len
    BY DEF Bump, Chans, Units
  <2>2. (IF u = "key" /\ ~LongKey THEN 0 ELSE r2[<<u, "word">>]) = word + 1
    BY <1>7 DEF Bump, Chans, Units
  <2>3. w2[<<u, "nblk">>] = nblk /\ w2[<<u, "blk">>] = blk
    BY DEF Bump, Chans, Units
  <2> HIDE DEF r2, w2
  <2> QED
    BY <1>10, <2>1, <2>2, <2>3 DEF PreIn, r2, w2
<1>13. gets \subseteq PreGets(u, LongKey) /\ puts \subseteq PrePuts(u)
  BY <1>7 DEF PreGets, PrePuts
<1> HIDE DEF gets, puts, p2
<1> QED
  BY <1>11, <1>6, <1>12, <1>13, PreMoves

LEMMA PreBlockKeeps ==
    ASSUME NEW u \in Units, NEW r, NEW w, Now(r, w), PreBlock(u), UNCHANGED <<call, kp, mk, mo, dig, hashed, out>>
    PROVE  IInv'
<1> DEFINE n == Count
           b == call.w
           L == Lengths[u]
           P == Worded[u]
           Q == Blocked[u]
           p == pre[u]
           e == r[<<u, "e">>]
           len == r[<<u, "len">>]
           word == IF u = "key" /\ ~LongKey THEN 0 ELSE r[<<u, "word">>]
           nblk == w[<<u, "nblk">>]
           blk == w[<<u, "blk">>]
           l == p.len
           j == p.j
           buf == p.buf
           c == <<u, "blk">>
           t == Streams[c]
           x == Block(p.len, p.j, p.buf)
           gets == {}
           puts == {c}
           p2 == [pc |-> IF p.j + 1 = BlocksSent(p.len) THEN "flag" ELSE "block",
                  len |-> p.len, j |-> p.j + 1, buf |-> << >>]
<1>1. PreAt(L, P, Q, b, n, p, e, len, word, nblk, blk) /\ n \in Nat
  BY NetNow, NowFacts DEF PreIn
<1>2. p = [pc |-> p.pc, len |-> p.len, j |-> p.j, buf |-> p.buf]
  BY <1>1 DEF PreAt
<1>3. UnitData(L, P, Q, n, b)
  BY NowFacts DEF NetData
<1>4. p.pc = "block" /\ Len(p.buf) = WordsOf(p.len, b, p.j)
  BY DEF PreBlock, WordsNeeded
<1>5. Move(gets, puts, LAMBDA a : x)
  BY DEF PreBlock
<1>6. pre' = [pre EXCEPT ![u] = p2]
  <2> DEFINE pc == IF p.j + 1 = BlocksSent(p.len) THEN "flag" ELSE "block"
  <2>1. pre' = [pre EXCEPT ![u] = [p EXCEPT !.pc = pc, !.j = p.j + 1, !.buf = << >>]]
    BY DEF PreBlock
  <2>2. [p EXCEPT !.pc = pc, !.j = p.j + 1, !.buf = << >>] = p2
    <3> DEFINE i == p.j + 1
    <3>1. p2 = [pc |-> pc, len |-> p.len, j |-> i, buf |-> << >>]
      OBVIOUS
    <3>2. [p EXCEPT !.pc = pc, !.j = i, !.buf = << >>] = [pc |-> pc, len |-> p.len, j |-> i, buf |-> << >>]
      <4> DEFINE e1 == [p EXCEPT !.pc = pc]
                 e2 == [e1 EXCEPT !.j = i]
      <4> HIDE DEF p, pc, i
      <4>1. e1 = [pc |-> pc, len |-> p.len, j |-> p.j, buf |-> p.buf]
        BY <1>2
      <4>2. e2 = [pc |-> pc, len |-> p.len, j |-> i, buf |-> p.buf]
        <5> HIDE DEF e1
        <5> QED
          BY <4>1
      <4>3. [e2 EXCEPT !.buf = << >>] = [pc |-> pc, len |-> p.len, j |-> i, buf |-> << >>]
        <5> HIDE DEF e2
        <5> QED
          BY <4>2
      <4>4. [p EXCEPT !.pc = pc, !.j = i, !.buf = << >>] = [e2 EXCEPT !.buf = << >>]
        OBVIOUS
      <4> QED
        BY <4>3, <4>4
    <3> QED
      BY <3>1, <3>2
  <2> QED
    BY <2>1, <2>2, Zenon
<1>8. Carries(t, Q, n)
  BY NowFacts DEF NetData, Streamed
<1>10. /\ PreAt(L, P, Q, b, n, p2, e, len, word, nblk, blk + 1)
       /\ blk < Len(t) /\ x = t[blk + 1]
  <2>1. p2 = [pc |-> IF p.j + 1 = BlocksSent(p.len) THEN "flag" ELSE "block",
              len |-> p.len, j |-> p.j + 1, buf |-> << >>]
    OBVIOUS
  <2> HIDE DEF p2, c, t, n, b, L, P, Q, p, e, len, word, nblk, blk, l, j, buf
  <2> QED
    BY <1>1, <1>3, <1>4, <1>8, <2>1, PreBlockAt
<1>11. Stepped(q', q, Streams, w, gets, puts)
  <2>1. w[c] < Len(Streams[c]) /\ x = Streams[c][w[c] + 1]
    BY <1>10
  <2>2. q' = [a \in Chans |-> IF a \in gets THEN Tail(q[a]) ELSE IF a \in puts THEN Append(q[a], x) ELSE q[a]]
    BY <1>5 DEF Move, Moved
  <2>3. c \in Chans
    BY DEF Chans
  <2> HIDE DEF x, c
  <2> QED
    BY <2>1, <2>2, <2>3 DEF Stepped
<1>12. PreIn(u, n, b, LongKey, Lengths, Worded, Blocked, Bump(r, gets), Bump(w, puts), p2)
  <2> DEFINE r2 == Bump(r, gets)
             w2 == Bump(w, puts)
  <2>1. r2[<<u, "e">>] = e /\ r2[<<u, "len">>] = len
    BY DEF Bump, Chans, Units
  <2>2. (IF u = "key" /\ ~LongKey THEN 0 ELSE r2[<<u, "word">>]) = word
    BY DEF Bump, Chans, Units
  <2>3. w2[<<u, "nblk">>] = nblk /\ w2[<<u, "blk">>] = blk + 1
    BY DEF Bump, Chans, Units
  <2> HIDE DEF r2, w2
  <2> QED
    BY <1>10, <2>1, <2>2, <2>3 DEF PreIn, r2, w2
<1>13. gets \subseteq PreGets(u, LongKey) /\ puts \subseteq PrePuts(u)
  BY DEF PreGets, PrePuts
<1> HIDE DEF gets, puts, p2
<1> QED
  BY <1>11, <1>6, <1>12, <1>13, PreMoves

LEMMA PreEndKeeps ==
    ASSUME NEW u \in Units, NEW r, NEW w, Now(r, w), PreEnd(u), UNCHANGED <<call, kp, mk, mo, dig, hashed, out>>
    PROVE  IInv'
<1> DEFINE n == Count
           b == call.w
           L == Lengths[u]
           P == Worded[u]
           Q == Blocked[u]
           p == pre[u]
           e == r[<<u, "e">>]
           len == r[<<u, "len">>]
           word == IF u = "key" /\ ~LongKey THEN 0 ELSE r[<<u, "word">>]
           nblk == w[<<u, "nblk">>]
           blk == w[<<u, "blk">>]
           l == p.len
           j == p.j
           buf == p.buf
           gets == {<<u, "e">>}
           puts == {<<u, "nblk">>}
           p2 == [pc |-> "done", len |-> p.len, j |-> p.j, buf |-> p.buf]
<1>1. PreAt(L, P, Q, b, n, p, e, len, word, nblk, blk) /\ n \in Nat
  BY NetNow, NowFacts DEF PreIn
<1>2. p = [pc |-> p.pc, len |-> p.len, j |-> p.j, buf |-> p.buf]
  BY <1>1 DEF PreAt
<1>3. UnitData(L, P, Q, n, b)
  BY NowFacts DEF NetData
<1>4. p.pc = "flag" /\ Ended(<<u, "e">>)
  BY DEF PreEnd
<1>5. Move(gets, puts, LAMBDA c : NoBlocks)
  BY DEF PreEnd
<1>6. pre' = [pre EXCEPT ![u] = p2]
  <2>1. pre' = [pre EXCEPT ![u] = [p EXCEPT !.pc = "done"]]
    BY DEF PreEnd
  <2>2. [p EXCEPT !.pc = "done"] = p2
    <3> HIDE DEF p
    <3> QED
      BY <1>2
  <2> QED
    BY <2>1, <2>2, Zenon
<1>7. e = n
  <2>1. <<u, "e">> \in FlagChans
    BY DEF FlagChans
  <2> QED
    BY <1>4, <2>1, FlagsTell
<1>8. nblk = n
  BY <1>1, <1>4, <1>7 DEF PreAt
<1>10. PreAt(L, P, Q, b, n, p2, e + 1, len, word, nblk + 1, blk)
  <2>1. p2 = [pc |-> "done", len |-> p.len, j |-> p.j, buf |-> p.buf]
    OBVIOUS
  <2>2. p.pc = "flag"
    BY <1>4
  <2> HIDE DEF p2, n, b, L, P, Q, p, e, len, word, nblk, blk, l, j, buf
  <2> QED
    BY <1>1, <2>2, <1>7, <2>1, PreEndAt
<1>11. Stepped(q', q, Streams, w, gets, puts)
  <2> DEFINE c == <<u, "nblk">>
  <2>1. Len(Streams[c]) = n + 1 /\ Streams[c][n + 1] = NoBlocks
    BY NowFacts DEF NetData, Streamed
  <2>2. w[c] < Len(Streams[c]) /\ NoBlocks = Streams[c][w[c] + 1]
    BY <1>1, <1>8, <2>1
  <2> QED
    BY <1>5, <2>2 DEF Move, Can, Moved, Stepped, Chans, Units
<1>12. PreIn(u, n, b, LongKey, Lengths, Worded, Blocked, Bump(r, gets), Bump(w, puts), p2)
  <2> DEFINE r2 == Bump(r, gets)
             w2 == Bump(w, puts)
  <2>1. r2[<<u, "e">>] = e + 1 /\ r2[<<u, "len">>] = len
    BY DEF Bump, Chans, Units
  <2>2. (IF u = "key" /\ ~LongKey THEN 0 ELSE r2[<<u, "word">>]) = word
    BY DEF Bump, Chans, Units
  <2>3. w2[<<u, "nblk">>] = nblk + 1 /\ w2[<<u, "blk">>] = blk
    BY DEF Bump, Chans, Units
  <2> HIDE DEF r2, w2
  <2> QED
    BY <1>10, <2>1, <2>2, <2>3 DEF PreIn, r2, w2
<1>13. gets \subseteq PreGets(u, LongKey) /\ puts \subseteq PrePuts(u)
  BY DEF PreGets, PrePuts
<1> HIDE DEF gets, puts, p2
<1> QED
  BY <1>11, <1>6, <1>12, <1>13, PreMoves

-----------------------------------------------------------------------------
(* The digest keeps the invariant.                                         *)
LEMMA SameAgain ==
    ASSUME NEW f, NEW g, f = [v \in Units |-> f[v]], g = f, NEW u
    PROVE  g = [f EXCEPT ![u] = f[u]]
OBVIOUS

LEMMA DigFlagKeeps ==
    ASSUME NEW u \in Units, NEW r, NEW w, Now(r, w), DigFlag(u), UNCHANGED <<call, kp, mk, mo, pre, out>>
    PROVE  IInv'
<1> DEFINE n == Count
           Q == Blocked[u]
           p == dig[u]
           h == hashed[u]
           nblk == r[<<u, "nblk">>]
           blk == r[<<u, "blk">>]
           hash == w[<<u, "hash">>]
           eHash == w[<<u, "eHash">>]
           gets == {<<u, "nblk">>}
           puts == {}
           p2 == [pc |-> "blocks", n |-> Head(q[<<u, "nblk">>]), got |-> << >>]
<1>1. DigAt(Q, n, p, h, nblk, blk, hash, eHash) /\ n \in Nat
  BY NetNow, NowFacts DEF DigIn
<1>2. p = [pc |-> p.pc, n |-> p.n, got |-> p.got]
  BY <1>1 DEF DigAt
<1>3. Carries(Streams[<<u, "blk">>], Q, n) /\ Sums(Q, n)
  BY NowFacts DEF NetData, Streamed, Carries
<1>4. p.pc = "flag" /\ q[<<u, "nblk">>] # << >> /\ Head(q[<<u, "nblk">>]) # NoBlocks
  BY DEF DigFlag
<1>5. Move(gets, puts, LAMBDA c : c)
  BY DEF DigFlag
<1>6. dig' = [dig EXCEPT ![u] = p2]
  BY DEF DigFlag
<1>7. hashed' = [hashed EXCEPT ![u] = h]
  <2>1. hashed' = hashed /\ hashed = [v \in Units |-> hashed[v]]
    BY NetNow DEF DigFlag, Shaped
  <2> QED
    BY <2>1, SameAgain
<1>8. nblk + 1 <= n /\ Head(q[<<u, "nblk">>]) = Len(Q[nblk + 1])
  <2> DEFINE c == <<u, "nblk">>
             s == Streams[c]
             L == Lengths[u]
             x == Head(q[c])
  <2>1. /\ Len(s) = n + 1 /\ s[n + 1] = NoBlocks /\ \A m \in 1..n : s[m] = BlkNum(L[m])
    BY NowFacts DEF NetData, Streamed
  <2>2. \A m \in 1..n : Len(Q[m]) \in Nat \ {0} /\ BlkNum(L[m]) = Len(Q[m])
    <3>1. UnitData(L, Worded[u], Q, n, call.w)
      BY NowFacts DEF NetData
    <3> HIDE DEF L, Q, n
    <3> QED
      BY <3>1 DEF UnitData, Blockwise
  <2>3. c \in Chans /\ q[c] # << >>
    BY <1>4 DEF Chans
  <2>4. nblk < w[c] /\ x = s[nblk + 1] /\ w[c] <= Len(s) /\ w[c] \in Nat /\ nblk \in Nat
    BY <2>3, NowFacts
  <2>5. x # NoBlocks
    BY <1>4
  <2> HIDE DEF s, L, x, n, nblk, Q
  <2>6. nblk + 1 # n + 1 /\ nblk < n + 1
    BY <1>1, <2>1, <2>4, <2>5
  <2>7. nblk + 1 \in 1..n
    BY <1>1, <2>4, <2>6
  <2>8. x = Len(Q[nblk + 1])
    BY <2>1, <2>2, <2>4, <2>7
  <2> QED
    BY <2>7, <2>8 DEF x
<1>10. DigAt(Q, n, p2, h, nblk + 1, blk, hash, eHash)
  <2>1. p2 = [pc |-> "blocks", n |-> Len(Q[nblk + 1]), got |-> << >>]
    BY <1>8
  <2>2. p.pc = "flag" /\ nblk + 1 <= n
    BY <1>4, <1>8
  <2> HIDE DEF p2, n, Q, p, h, nblk, blk, hash, eHash
  <2> QED
    BY <1>1, <1>3, <2>1, <2>2, DigFlagAt
<1>11. Stepped(q', q, Streams, w, gets, puts)
  BY <1>5 DEF Move, Can, Moved, Stepped, Chans, Units
<1>12. DigIn(u, n, Blocked, Bump(r, gets), Bump(w, puts), p2, h)
  <2> DEFINE r2 == Bump(r, gets)
             w2 == Bump(w, puts)
  <2>1. r2[<<u, "nblk">>] = nblk + 1 /\ r2[<<u, "blk">>] = blk
    BY DEF Bump, Chans, Units
  <2>2. w2[<<u, "hash">>] = hash /\ w2[<<u, "eHash">>] = eHash
    BY DEF Bump, Chans, Units
  <2> HIDE DEF r2, w2
  <2> QED
    BY <1>10, <2>1, <2>2 DEF DigIn, r2, w2
<1>13. gets \subseteq DigGets(u) /\ puts \subseteq DigPuts(u)
  BY DEF DigGets, DigPuts
<1> HIDE DEF gets, puts, p2, h
<1> QED
  BY <1>6, <1>7, <1>11, <1>12, <1>13, DigMoves

LEMMA DigBlockKeeps ==
    ASSUME NEW u \in Units, NEW r, NEW w, Now(r, w), DigBlock(u), UNCHANGED <<call, kp, mk, mo, pre, out>>
    PROVE  IInv'
<1> DEFINE n == Count
           Q == Blocked[u]
           p == dig[u]
           h == hashed[u]
           nblk == r[<<u, "nblk">>]
           blk == r[<<u, "blk">>]
           hash == w[<<u, "hash">>]
           eHash == w[<<u, "eHash">>]
           c == <<u, "blk">>
           t == Streams[c]
           x == Head(q[c])
           gets == {c}
           puts == {}
           p2 == [pc |-> p.pc, n |-> p.n, got |-> Append(p.got, x)]
<1>1. DigAt(Q, n, p, h, nblk, blk, hash, eHash) /\ n \in Nat
  BY NetNow, NowFacts DEF DigIn
<1>2. p = [pc |-> p.pc, n |-> p.n, got |-> p.got]
  BY <1>1 DEF DigAt
<1>3. Carries(Streams[<<u, "blk">>], Q, n) /\ Sums(Q, n)
  BY NowFacts DEF NetData, Streamed, Carries
<1>4. p.pc = "blocks" /\ Len(p.got) < p.n
  BY DEF DigBlock
<1>5. Move(gets, puts, LAMBDA a : a)
  BY DEF DigBlock
<1>6. dig' = [dig EXCEPT ![u] = p2]
  <2>1. dig' = [dig EXCEPT ![u] = [p EXCEPT !.got = Append(p.got, x)]]
    BY DEF DigBlock
  <2>2. [p EXCEPT !.got = Append(p.got, x)] = p2
    <3> DEFINE z == Append(p.got, x)
    <3>1. p2 = [pc |-> p.pc, n |-> p.n, got |-> z]
      OBVIOUS
    <3> HIDE DEF p, x, p2, z
    <3>2. [p EXCEPT !.got = z] = p2
      BY <1>2, <3>1
    <3> QED
      BY <3>2 DEF z
  <2> QED
    BY <2>1, <2>2, Zenon
<1>7. hashed' = [hashed EXCEPT ![u] = h]
  <2>1. hashed' = hashed /\ hashed = [v \in Units |-> hashed[v]]
    BY NetNow DEF DigBlock, Shaped
  <2> QED
    BY <2>1, SameAgain
<1>8. x = t[blk + 1]
  <2>1. q[c] # << >> /\ c \in Chans
    BY <1>5 DEF Move, Can, Chans
  <2> QED
    BY <2>1, NowFacts
<1>10. DigAt(Q, n, p2, h, nblk, blk + 1, hash, eHash)
  <2>1. p2 = [pc |-> p.pc, n |-> p.n, got |-> Append(p.got, t[blk + 1])]
    BY <1>8
  <2>2. Len(p.got) # p.n
    <3>1. Len(p.got) \in 0..p.n /\ p.n = Len(Q[nblk]) /\ nblk \in 1..n
      BY <1>1, <1>4 DEF DigAt
    <3>2. Len(Q[nblk]) \in Nat
      BY <1>3, <3>1 DEF Sums
    <3> QED
      BY <1>4, <3>1, <3>2
  <2>3. Carries(t, Q, n)
    BY <1>3
  <2> HIDE DEF p2, t, x, c, n, Q, p, h, nblk, blk, hash, eHash
  <2> QED
    BY <1>1, <1>4, <2>1, <2>2, <2>3, DigBlockAt
<1>11. Stepped(q', q, Streams, w, gets, puts)
  BY <1>5 DEF Move, Can, Moved, Stepped, Chans, Units
<1>12. DigIn(u, n, Blocked, Bump(r, gets), Bump(w, puts), p2, h)
  <2> DEFINE r2 == Bump(r, gets)
             w2 == Bump(w, puts)
  <2>1. r2[<<u, "nblk">>] = nblk /\ r2[<<u, "blk">>] = blk + 1
    BY DEF Bump, Chans, Units
  <2>2. w2[<<u, "hash">>] = hash /\ w2[<<u, "eHash">>] = eHash
    BY DEF Bump, Chans, Units
  <2> HIDE DEF r2, w2
  <2> QED
    BY <1>10, <2>1, <2>2 DEF DigIn, r2, w2
<1>13. gets \subseteq DigGets(u) /\ puts \subseteq DigPuts(u)
  BY DEF DigGets, DigPuts
<1> HIDE DEF gets, puts, p2, h
<1> QED
  BY <1>6, <1>7, <1>11, <1>12, <1>13, DigMoves

LEMMA DigEmitKeeps ==
    ASSUME NEW u \in Units, NEW r, NEW w, Now(r, w), DigEmit(u), UNCHANGED <<call, kp, mk, mo, pre, out>>
    PROVE  IInv'
<1> DEFINE n == Count
           Q == Blocked[u]
           p == dig[u]
           h == hashed[u]
           nblk == r[<<u, "nblk">>]
           blk == r[<<u, "blk">>]
           hash == w[<<u, "hash">>]
           eHash == w[<<u, "eHash">>]
           f == <<u, "eHash">>
           o == <<u, "hash">>
           x == Digest(u, Len(h) + 1)
           gets == {}
           puts == {o, f}
           p2 == [pc |-> "flag", n |-> p.n, got |-> << >>]
           h2 == Append(h, p.got)
<1>1. DigAt(Q, n, p, h, nblk, blk, hash, eHash) /\ n \in Nat
  BY NetNow, NowFacts DEF DigIn
<1>2. p = [pc |-> p.pc, n |-> p.n, got |-> p.got]
  BY <1>1 DEF DigAt
<1>3. Carries(Streams[<<u, "blk">>], Q, n) /\ Sums(Q, n)
  BY NowFacts DEF NetData, Streamed, Carries
<1>4. p.pc = "blocks" /\ Len(p.got) = p.n
  BY DEF DigEmit
<1>5. Move(gets, puts, LAMBDA c : IF c[2] = "eHash" THEN FALSE ELSE x)
  BY DEF DigEmit
<1>6. dig' = [dig EXCEPT ![u] = p2]
  <2> DEFINE e1 == [p EXCEPT !.pc = "flag"]
  <2>1. dig' = [dig EXCEPT ![u] = [e1 EXCEPT !.got = << >>]]
    BY DEF DigEmit
  <2>2. e1 = [pc |-> "flag", n |-> p.n, got |-> p.got]
    <3> HIDE DEF p
    <3> QED
      BY <1>2
  <2>3. [e1 EXCEPT !.got = << >>] = p2
    <3> HIDE DEF e1
    <3> QED
      BY <2>2
  <2> QED
    BY <2>1, <2>3, Zenon
<1>7. hashed' = [hashed EXCEPT ![u] = h2]
  BY DEF DigEmit
<1>10. /\ DigAt(Q, n, p2, h2, nblk, blk, hash + 1, eHash + 1)
       /\ hash + 1 \in 1..n /\ eHash + 1 \in 1..n /\ Len(h) = hash
  <2>1. p2 = [pc |-> "flag", n |-> p.n, got |-> << >>] /\ h2 = Append(h, p.got)
    OBVIOUS
  <2> HIDE DEF p2, h2, f, o, x, n, Q, p, h, nblk, blk, hash, eHash
  <2> QED
    BY <1>1, <1>3, <1>4, <2>1, DigEmitAt
<1>11. Stepped(q', q, Streams, w, gets, puts)
  <2>1. f \in Chans /\ o \in Chans /\ f # o /\ f \in FlagChans /\ f[2] = "eHash" /\ o[2] # "eHash"
    BY DEF Chans, FlagChans
  <2>2. w[f] < Len(Streams[f]) /\ Streams[f][w[f] + 1] = FALSE
    <3>1. w[f] + 1 <= Count
      BY <1>1, <1>10
    <3> HIDE DEF f
    <3> QED
      BY <2>1, <3>1, FlagsTell
  <2>3. w[o] < Len(Streams[o]) /\ x = Streams[o][w[o] + 1]
    <3>1. Len(Streams[o]) = n /\ \A m \in 1..n : Streams[o][m] = Digest(u, m)
      BY NowFacts DEF NetData, Streamed
    <3>2. hash \in Nat
      BY <2>1, NowFacts
    <3> QED
      BY <1>10, <3>1, <3>2
  <2>4. q' = [c \in Chans |-> IF c \in gets THEN Tail(q[c])
                         ELSE IF c \in puts THEN Append(q[c], IF c[2] = "eHash" THEN FALSE ELSE x) ELSE q[c]]
    BY <1>5 DEF Move, Moved
  <2> HIDE DEF x, f, o
  <2>5. q'[f] = Append(q[f], FALSE) /\ q'[o] = Append(q[o], x)
    BY <2>1, <2>4
  <2>6. q'[f] = Append(q[f], Streams[f][w[f] + 1]) /\ q'[o] = Append(q[o], Streams[o][w[o] + 1])
    BY <2>2, <2>3, <2>5, Zenon
  <2>7. \A c \in Chans \ (gets \cup puts) : q'[c] = q[c]
    BY <2>4
  <2> QED
    BY <2>2, <2>3, <2>6, <2>7 DEF Stepped
<1>12. DigIn(u, n, Blocked, Bump(r, gets), Bump(w, puts), p2, h2)
  <2> DEFINE r2 == Bump(r, gets)
             w2 == Bump(w, puts)
  <2>1. r2[<<u, "nblk">>] = nblk /\ r2[<<u, "blk">>] = blk
    BY DEF Bump, Chans, Units
  <2>2. w2[<<u, "hash">>] = hash + 1 /\ w2[<<u, "eHash">>] = eHash + 1
    BY DEF Bump, Chans, Units
  <2> HIDE DEF r2, w2
  <2> QED
    BY <1>10, <2>1, <2>2 DEF DigIn, r2, w2
<1>13. gets \subseteq DigGets(u) /\ puts \subseteq DigPuts(u)
  BY DEF DigGets, DigPuts
<1> HIDE DEF gets, puts, p2, h, h2
<1> QED
  BY <1>6, <1>7, <1>11, <1>12, <1>13, DigMoves

LEMMA DigEndKeeps ==
    ASSUME NEW u \in Units, NEW r, NEW w, Now(r, w), DigEnd(u), UNCHANGED <<call, kp, mk, mo, pre, out>>
    PROVE  IInv'
<1> DEFINE n == Count
           Q == Blocked[u]
           p == dig[u]
           h == hashed[u]
           nblk == r[<<u, "nblk">>]
           blk == r[<<u, "blk">>]
           hash == w[<<u, "hash">>]
           eHash == w[<<u, "eHash">>]
           gets == {<<u, "nblk">>}
           puts == {<<u, "eHash">>}
           p2 == [pc |-> "done", n |-> p.n, got |-> p.got]
<1>1. DigAt(Q, n, p, h, nblk, blk, hash, eHash) /\ n \in Nat
  BY NetNow, NowFacts DEF DigIn
<1>2. p = [pc |-> p.pc, n |-> p.n, got |-> p.got]
  BY <1>1 DEF DigAt
<1>3. Carries(Streams[<<u, "blk">>], Q, n) /\ Sums(Q, n)
  BY NowFacts DEF NetData, Streamed, Carries
<1>4. p.pc = "flag" /\ q[<<u, "nblk">>] # << >> /\ Head(q[<<u, "nblk">>]) = NoBlocks
  BY DEF DigEnd
<1>5. Move(gets, puts, LAMBDA c : TRUE)
  BY DEF DigEnd
<1>6. dig' = [dig EXCEPT ![u] = p2]
  <2>1. dig' = [dig EXCEPT ![u] = [p EXCEPT !.pc = "done"]]
    BY DEF DigEnd
  <2>2. [p EXCEPT !.pc = "done"] = p2
    <3> HIDE DEF p
    <3> QED
      BY <1>2
  <2> QED
    BY <2>1, <2>2, Zenon
<1>7. hashed' = [hashed EXCEPT ![u] = h]
  <2>1. hashed' = hashed /\ hashed = [v \in Units |-> hashed[v]]
    BY NetNow DEF DigEnd, Shaped
  <2> QED
    BY <2>1, SameAgain
<1>8. nblk = n
  <2> DEFINE c == <<u, "nblk">>
             s == Streams[c]
             L == Lengths[u]
             x == Head(q[c])
  <2>1. /\ Len(s) = n + 1 /\ s[n + 1] = NoBlocks /\ \A m \in 1..n : s[m] = BlkNum(L[m])
    BY NowFacts DEF NetData, Streamed
  <2>2. \A m \in 1..n : Len(Q[m]) \in Nat \ {0} /\ BlkNum(L[m]) = Len(Q[m])
    <3>1. UnitData(L, Worded[u], Q, n, call.w)
      BY NowFacts DEF NetData
    <3> HIDE DEF L, Q, n
    <3> QED
      BY <3>1 DEF UnitData, Blockwise
  <2>3. c \in Chans /\ q[c] # << >>
    BY <1>4 DEF Chans
  <2>4. nblk < w[c] /\ x = s[nblk + 1] /\ w[c] <= Len(s) /\ w[c] \in Nat /\ nblk \in Nat
    BY <2>3, NowFacts
  <2>5. x = NoBlocks /\ NoBlocks = 0
    BY <1>4 DEF NoBlocks
  <2> HIDE DEF s, L, x, n, nblk, Q
  <2>6. nblk + 1 \in 1..n => x = Len(Q[nblk + 1]) /\ x # 0
    BY <2>1, <2>2, <2>4
  <2>7. nblk < n + 1
    BY <1>1, <2>1, <2>4
  <2> QED
    BY <1>1, <2>4, <2>5, <2>6, <2>7
<1>10. DigAt(Q, n, p2, h, nblk + 1, blk, hash, eHash + 1) /\ eHash = n
  <2>1. p2 = [pc |-> "done", n |-> p.n, got |-> p.got] /\ p.pc = "flag"
    BY <1>4
  <2> HIDE DEF p2, n, Q, p, h, nblk, blk, hash, eHash
  <2> QED
    BY <1>1, <1>8, <2>1, DigEndAt
<1>11. Stepped(q', q, Streams, w, gets, puts)
  <2> DEFINE c == <<u, "nblk">>
             f == <<u, "eHash">>
  <2>1. c \in Chans /\ f \in FlagChans /\ c # f
    BY DEF Chans, FlagChans
  <2>2. EndTo(c, f)
    BY <1>5 DEF EndTo
  <2>3. w[f] = Count
    BY <1>10
  <2> QED
    BY <2>1, <2>2, <2>3, EndSteps
<1>12. DigIn(u, n, Blocked, Bump(r, gets), Bump(w, puts), p2, h)
  <2> DEFINE r2 == Bump(r, gets)
             w2 == Bump(w, puts)
  <2>1. r2[<<u, "nblk">>] = nblk + 1 /\ r2[<<u, "blk">>] = blk
    BY DEF Bump, Chans, Units
  <2>2. w2[<<u, "hash">>] = hash /\ w2[<<u, "eHash">>] = eHash + 1
    BY DEF Bump, Chans, Units
  <2> HIDE DEF r2, w2
  <2> QED
    BY <1>10, <2>1, <2>2 DEF DigIn, r2, w2
<1>13. gets \subseteq DigGets(u) /\ puts \subseteq DigPuts(u)
  BY DEF DigGets, DigPuts
<1> HIDE DEF gets, puts, p2, h
<1> QED
  BY <1>6, <1>7, <1>11, <1>12, <1>13, DigMoves

-----------------------------------------------------------------------------
(* The network starts with what the caller has written.                    *)
LEMMA GivenStreams ==
    ASSUME Init
    PROVE  /\ \A c \in Given : c \in Chans /\ q[c] = Streams[c]
           /\ \A c \in Chans \ Given : q[c] = << >>
<1>1. q = [c \in Chans |->
              CASE c = <<"in", "e">>     -> Flags(Len(call.lens))
                [] c = <<"in", "len">>   -> call.lens
                [] c = <<"in", "msg">>   -> FlattenSeq([m \in Messages |-> Wire(Message(m), call.w)])
                [] c = <<"key", "word">> -> FlattenSeq([m \in Messages |-> Wire(Key(m), call.w)])
                [] OTHER                 -> << >>]
  BY DEF Init
<1>2. /\ q[<<"in", "e">>] = Flags(Len(call.lens)) /\ q[<<"in", "len">>] = call.lens
      /\ q[<<"in", "msg">>] = FlattenSeq([m \in Messages |-> Wire(Message(m), call.w)])
      /\ q[<<"key", "word">>] = FlattenSeq([m \in Messages |-> Wire(Key(m), call.w)])
  BY <1>1 DEF Chans, Units
<1>3. "key" \in Units
  BY DEF Units
<1>4. /\ Streams[<<"in", "e">>] = Flags(Count) /\ Streams[<<"in", "len">>] = call.lens
      /\ Streams[<<"in", "msg">>] = FlattenSeq(Bodies) /\ Streams[<<"key", "word">>] = FlattenSeq(Worded["key"])
  BY <1>3, StreamKinds
<1>6. Worded["key"] = [m \in Messages |-> Wire(Key(m), call.w)]
  BY DEF Worded, TextOf, Units
<1>7. \A c \in Chans \ Given : q[c] = << >>
  BY <1>1 DEF Given
<1>8. Given \subseteq Chans
  BY DEF Given, Chans, Units
<1> QED
  BY <1>2, <1>4, <1>6, <1>7, <1>8 DEF Given, Count, Bodies

LEMMA HmInit ==
    ASSUME Init
    PROVE  IInv
<1> DEFINE r == [c \in Chans |-> 0]
           w == [c \in Chans |-> IF c \in Given THEN Len(Streams[c]) ELSE 0]
           n == Count
<1>1. call \in Calls /\ LongKey \in BOOLEAN
  BY DEF Init, LongKey
<1>2. NetData(Streams, n, call.w, PadWords, call.keyLen, Lengths, Worded, Blocked, Bodies, Keys)
  BY <1>1, NetDataRight
<1>3. /\ n \in Nat /\ \A c \in Chans : IsStream(Streams[c]) /\ Len(Streams[c]) \in Nat
  BY <1>2, StreamLen DEF NetData, Streamed
<1>4. r \in [Chans -> Nat] /\ w \in [Chans -> Nat]
  BY <1>3
<1>5. Flow(q, Streams, r, w)
  <2> SUFFICES ASSUME NEW c \in Chans PROVE Fifo(q[c], Streams[c], r[c], w[c])
    BY DEF Flow
  <2> DEFINE t == Streams[c]
  <2>1. IsStream(t) /\ Len(t) \in Nat
    BY <1>3
  <2>2. CASE c \in Given
    <3>1. q[c] = t /\ r[c] = 0 /\ w[c] = Len(t)
      BY <2>2, GivenStreams
    <3>2. SubSeq(t, 0 + 1, Len(t)) = t
      <4>1. SubSeq(t, 1, Len(t)) = t
        <5> HIDE DEF t
        <5> QED
          BY <2>1, SliceWhole
      <4> QED
        BY <4>1
    <3> HIDE DEF r, w, t
    <3> QED
      BY <2>1, <3>1, <3>2 DEF Fifo, t
  <2>3. CASE c \notin Given
    <3>1. q[c] = << >> /\ r[c] = 0 /\ w[c] = 0
      BY <2>3, GivenStreams
    <3>2. SubSeq(t, 0 + 1, 0) = << >>
      <4> DEFINE none == 0
      <4>1. none \in Nat /\ none <= Len(t)
        BY <2>1
      <4>2. PICK S : t \in Seq(S)
        BY <2>1 DEF IsStream
      <4>3. SubSeq(t, none + 1, none) = << >>
        <5> HIDE DEF none, t
        <5> QED
          BY <4>1, <4>2, SliceEmpty
      <4> QED
        BY <4>3
    <3> HIDE DEF r, w, t
    <3> QED
      BY <2>1, <3>1, <3>2 DEF Fifo, t
  <2> QED
    BY <2>2, <2>3
<1>6. \A c \in Given : w[c] = Len(Streams[c])
  BY GivenStreams
<1>7. /\ \A c \in Chans : r[c] = 0
      /\ \A c \in Chans \ Given : w[c] = 0
  OBVIOUS
<1>8. \A u \in Units : Upto(Worded[u], 0) = 0 /\ Upto(Blocked[u], 0) = 0 /\ 0 \in 0..n /\ n \in Nat
  BY <1>2, <1>3 DEF NetData, UnitData, Carries, Sums
<1>9. Upto(Bodies, 0) = 0
  BY <1>2 DEF NetData, Streamed, Carries, Sums
<1> HIDE DEF r, w
<1>10. KpIn(n, LongKey, Worded, r, w, kp)
  <2>1. kp = [expand |-> LongKey, pad |-> TRUE]
    BY DEF Init
  <2>2. /\ r[<<"in", "e">>] = 0 /\ (IF LongKey THEN 0 ELSE r[<<"key", "word">>]) = 0 /\ r[<<"key", "hash">>] = 0
        /\ r[<<"key", "eHash">>] = 0 /\ w[<<"key", "e">>] = 0 /\ w[<<"key", "len">>] = 0
        /\ w[<<"kpad", "eKipad">>] = 0 /\ w[<<"kpad", "kipad">>] = 0 /\ w[<<"kpad", "kopad">>] = 0
    BY <1>7 DEF Chans, Units, Given
  <2>3. Upto(Worded["key"], 0) = 0 /\ 0 \in 0..n
    BY <1>8 DEF Units
  <2> HIDE DEF n
  <2> QED
    BY <1>1, <2>1, <2>2, <2>3 DEF KpIn, KpAt
<1>11. MkIn(n, PadWords, Worded, Bodies, r, w, mk)
  <2>1. mk = [pc |-> "flag", pad |-> << >>, words |-> 0]
    BY DEF Init
  <2>2. /\ r[<<"kpad", "eKipad">>] = 0 /\ r[<<"in", "len">>] = 0 /\ r[<<"kpad", "kipad">>] = 0
        /\ r[<<"kpad", "kopad">>] = 0 /\ r[<<"in", "msg">>] = 0 /\ w[<<"msg", "e">>] = 0
        /\ w[<<"msg", "len">>] = 0 /\ w[<<"msg", "word">>] = 0 /\ w[<<"merge", "kopad2">>] = 0
    BY <1>7 DEF Chans, Units, Given
  <2>3. Upto(Worded["msg"], 0) = 0 /\ 0 \in 0..n
    BY <1>8 DEF Units
  <2> HIDE DEF n
  <2> QED
    BY <1>9, <2>1, <2>2, <2>3 DEF MkIn, MkAt
<1>12. MoIn(n, Worded, r, w, mo)
  <2>1. mo = [pc |-> "flag", words |-> << >>]
    BY DEF Init
  <2>2. /\ r[<<"msg", "eHash">>] = 0 /\ r[<<"msg", "hash">>] = 0 /\ r[<<"merge", "kopad2">>] = 0
        /\ w[<<"res", "e">>] = 0 /\ w[<<"res", "len">>] = 0 /\ w[<<"res", "word">>] = 0
    BY <1>7 DEF Chans, Units, Given
  <2>3. Upto(Worded["res"], 0) = 0 /\ 0 \in 0..n
    BY <1>8 DEF Units
  <2> HIDE DEF n
  <2> QED
    BY <2>1, <2>2, <2>3 DEF MoIn, MoAt
<1>13. OutIn(n, r, out)
  <2>1. out = [hashes |-> << >>, ended |-> FALSE]
    BY DEF Init
  <2>2. r[<<"res", "eHash">>] = 0 /\ r[<<"res", "hash">>] = 0
    BY <1>7 DEF Chans, Units, Given
  <2>3. IsStream(<< >>) /\ Len(<< >>) = 0
    BY DEF IsStream
  <2> HIDE DEF n
  <2> QED
    BY <1>3, <2>1, <2>2, <2>3 DEF OutIn, OutAt, n
<1>14. ASSUME NEW u \in Units PROVE PreIn(u, n, call.w, LongKey, Lengths, Worded, Blocked, r, w, pre[u])
  <2>1. pre[u] = [pc |-> "flag", len |-> 0, j |-> 0, buf |-> << >>]
    BY DEF Init
  <2>2. /\ r[<<u, "e">>] = 0 /\ r[<<u, "len">>] = 0 /\ (IF u = "key" /\ ~LongKey THEN 0 ELSE r[<<u, "word">>]) = 0
        /\ w[<<u, "nblk">>] = 0 /\ w[<<u, "blk">>] = 0
    BY <1>7 DEF Chans, Units, Given
  <2> HIDE DEF n
  <2> QED
    BY <1>8, <2>1, <2>2 DEF PreIn, PreAt
<1>15. ASSUME NEW u \in Units PROVE DigIn(u, n, Blocked, r, w, dig[u], hashed[u])
  <2>1. dig[u] = [pc |-> "flag", n |-> 0, got |-> << >>] /\ hashed[u] = << >>
    BY DEF Init
  <2>2. /\ r[<<u, "nblk">>] = 0 /\ r[<<u, "blk">>] = 0 /\ w[<<u, "hash">>] = 0 /\ w[<<u, "eHash">>] = 0
    BY <1>7 DEF Chans, Units, Given
  <2>3. IsStream(<< >>) /\ Len(<< >>) = 0
    BY DEF IsStream
  <2> HIDE DEF n
  <2> QED
    BY <1>8, <2>1, <2>2, <2>3 DEF DigIn, DigAt
<1>16. /\ pre = [u \in Units |-> pre[u]] /\ dig = [u \in Units |-> dig[u]]
       /\ hashed = [u \in Units |-> hashed[u]]
  BY DEF Init
<1>17. Reached(r, w)
  BY <1>5, <1>6, <1>10, <1>11, <1>12, <1>13, <1>14, <1>15, <1>16 DEF Reached, Network
<1> QED
  BY <1>1, <1>4, <1>17 DEF IInv

LEMMA HmRests ==
    ASSUME NEW r, NEW w, Now(r, w), UNCHANGED vars
    PROVE  IInv'
<1>1. /\ call' = call /\ q' = q /\ kp' = kp /\ mk' = mk /\ mo' = mo /\ pre' = pre /\ dig' = dig
      /\ hashed' = hashed /\ out' = out
  BY DEF vars
<1>2. Onward(r, w, r, w, {}, {})
  BY <1>1 DEF Now, Reached, Onward, Agree
<1>3. Given \subseteq Chans \ {}
  BY DEF Given, Chans, Units
<1>4. Shaped(pre') /\ Shaped(dig') /\ Shaped(hashed')
  BY <1>1 DEF Now, Reached, Shaped
<1>5. Network(Count, call.w, PadWords, LongKey, Lengths, Worded, Blocked, Bodies, r, w,
              kp', mk', mo', pre', dig', hashed', out')
  BY <1>1 DEF Now, Reached
<1> QED
  BY <1>2, <1>3, <1>4, <1>5, Arrive

LEMMA HmKeeps == IInv /\ [Next]_vars => IInv'
<1> SUFFICES ASSUME IInv, [Next]_vars PROVE IInv'
  OBVIOUS
<1>1. PICK r, w : Now(r, w)
  BY DEF IInv, Now
<1>2. CASE Kpad
  <2>1. UNCHANGED <<call, mk, mo, pre, dig, hashed, out>>
    BY <1>2 DEF Kpad
  <2>2. KpadShort \/ KpadExpand \/ KpadExpandEnd \/ KpadGen \/ KpadEnd
    BY <1>2 DEF Kpad
  <2> QED
    BY <1>1, <2>1, <2>2, KpadShortKeeps, KpadExpandKeeps, KpadExpandEndKeeps, KpadGenKeeps, KpadEndKeeps
<1>3. CASE MergeKipad
  <2>1. UNCHANGED <<call, kp, mo, pre, dig, hashed, out>>
    BY <1>3 DEF MergeKipad
  <2>2. MkFlag \/ MkPad \/ MkOpad \/ MkMsg \/ MkEnd
    BY <1>3 DEF MergeKipad
  <2> QED
    BY <1>1, <2>1, <2>2, MkFlagKeeps, MkPadKeeps, MkOpadKeeps, MkMsgKeeps, MkEndKeeps
<1>4. CASE MergeKopad
  <2>1. UNCHANGED <<call, kp, mk, pre, dig, hashed, out>>
    BY <1>4 DEF MergeKopad
  <2>2. MoFlag \/ MoWord \/ MoEnd
    BY <1>4 DEF MergeKopad
  <2> QED
    BY <1>1, <2>1, <2>2, MoFlagKeeps, MoWordKeeps, MoEndKeeps
<1>5. CASE Caller
  <2>1. UNCHANGED <<call, kp, mk, mo, pre, dig, hashed>>
    BY <1>5 DEF Caller
  <2>2. TakeMac \/ TakeEnd
    BY <1>5 DEF Caller
  <2> QED
    BY <1>1, <2>1, <2>2, TakeMacKeeps, TakeEndKeeps
<1>6. CASE Finished
  <2>1. UNCHANGED vars
    BY <1>6 DEF Finished
  <2> QED
    BY <1>1, <2>1, HmRests
<1>7. ASSUME NEW u \in Units, PreProcessing(u) PROVE IInv'
  <2>1. UNCHANGED <<call, kp, mk, mo, dig, hashed, out>>
    BY <1>7 DEF PreProcessing
  <2>2. PreFlag(u) \/ PreRead(u) \/ PreBlock(u) \/ PreEnd(u)
    BY <1>7 DEF PreProcessing
  <2> QED
    BY <1>1, <2>1, <2>2, PreFlagKeeps, PreReadKeeps, PreBlockKeeps, PreEndKeeps
<1>8. ASSUME NEW u \in Units, Sha256Digest(u) PROVE IInv'
  <2>1. UNCHANGED <<call, kp, mk, mo, pre, out>>
    BY <1>8 DEF Sha256Digest
  <2>2. DigFlag(u) \/ DigBlock(u) \/ DigEmit(u) \/ DigEnd(u)
    BY <1>8 DEF Sha256Digest
  <2> QED
    BY <1>1, <2>1, <2>2, DigFlagKeeps, DigBlockKeeps, DigEmitKeeps, DigEndKeeps
<1>9. CASE UNCHANGED vars
  BY <1>1, <1>9, HmRests
<1> QED
  BY <1>2, <1>3, <1>4, <1>5, <1>6, <1>7, <1>8, <1>9 DEF Next

(* In every reachable state each FIFO holds a stretch of the stream that   *)
(* is known beforehand, and each process of hmacDataflow has read and      *)
(* written of its FIFOs what its own state says, and no more.              *)
THEOREM NetworkInvariant == Spec => []IInv
<1>1. Init => IInv
  BY HmInit
<1>2. IInv /\ [Next]_vars => IInv'
  BY HmKeeps
<1> QED
  BY <1>1, <1>2, PTL DEF Spec

-----------------------------------------------------------------------------
(* What the invariant says of the results.                                 *)

(* Each MAC the caller takes is that of its own message: the hash of the   *)
(* outer pad and of the hash of the inner pad and that message, padded as  *)
(* the standard says, for a key of any length; and so is each digest that  *)
(* a unit has made.                                                        *)
THEOREM MacsAreRight == Spec => []MacsRight
<1>1. IInv => MacsRight
  <2> SUFFICES ASSUME IInv PROVE MacsRight
    OBVIOUS
  <2>1. PICK r, w : Now(r, w)
    BY DEF IInv, Now
  <2> DEFINE n == Count
  <2>2. \A m \in 1..Len(out.hashes) : out.hashes[m] = Digest("res", m)
    BY <2>1, NetNow DEF OutIn, OutAt
  <2>3. ASSUME NEW u \in Units, NEW m \in 1..Len(hashed[u])
        PROVE  m \in Messages /\ hashed[u][m] = Padded(TextOf(u, m))
    <3>1. Len(hashed[u]) \in 0..n /\ hashed[u][m] = Blocked[u][m]
      BY <2>1, NetNow DEF DigIn, DigAt
    <3>2. n \in Nat /\ Messages = 1..n /\ call \in Calls
      BY <2>1, NowFacts, CallFacts
    <3>3. m \in 1..n
      BY <3>1, <3>2
    <3>4. Blocked[u][m] = Padded(TextOf(u, m))
      BY <3>2, <3>3, UnitsRight
    <3> QED
      BY <3>1, <3>2, <3>3, <3>4
  <2>4. \A m \in 1..Len(hashed["res"]) : hashed["res"][m] = Padded(Opad(PaddedKey(m)) \o Digest("msg", m))
    BY <2>3 DEF Units, TextOf
  <2>5. \A m \in 1..Len(hashed["msg"]) : hashed["msg"][m] = Padded(Ipad(PaddedKey(m)) \o Message(m))
    BY <2>3 DEF Units, TextOf
  <2>6. \A m \in 1..Len(hashed["key"]) : hashed["key"][m] = Padded(Key(m))
    BY <2>3 DEF Units, TextOf
  <2> QED
    BY <2>2, <2>4, <2>5, <2>6 DEF MacsRight
<1> QED
  BY <1>1, NetworkInvariant, PTL

(* The outer pads waiting for mergeKopad are, in their order, those of the *)
(* messages whose inner hashes it has not taken: kopad2Strm, which passes  *)
(* by the unit for the inner hashes, never gets out of step with it.       *)
THEOREM OuterPadsInStep == Spec => []PadsInStep
<1>1. IInv => PadsInStep
  <2> SUFFICES ASSUME IInv PROVE PadsInStep
    OBVIOUS
  <2>1. PICK r, w : Now(r, w)
    BY DEF IInv, Now
  <2> DEFINE n == Count
             a == <<"msg", "hash">>
             c == <<"merge", "kopad2">>
             t == Streams[c]
             taken == Len(hashed["msg"]) - Len(q[a])
  <2>2. a \in Chans /\ c \in Chans /\ "msg" \in Units
    BY DEF Chans, Units
  <2>3. /\ n \in Nat /\ \A x \in Chans : IsStream(Streams[x]) /\ r[x] \in Nat /\ w[x] \in Nat /\ w[x] <= Len(Streams[x])
        /\ \A x \in Chans : r[x] <= w[x] /\ Fifo(q[x], Streams[x], r[x], w[x])
    BY <2>1, NowFacts DEF Flow
  <2>4. \A x \in Chans : Len(q[x]) = w[x] - r[x] /\ \A k \in 1..w[x] - r[x] : q[x][k] = Streams[x][r[x] + k]
    <3> SUFFICES ASSUME NEW x \in Chans
                 PROVE  Len(q[x]) = w[x] - r[x] /\ \A k \in 1..w[x] - r[x] : q[x][k] = Streams[x][r[x] + k]
      OBVIOUS
    <3>1. FifoView(q[x], Streams[x], r[x], w[x])
      BY <2>3, FifoSeen DEF FifoAt
    <3> QED
      BY <3>1 DEF FifoView
  <2>5. w[a] = Len(hashed["msg"])
    <3>1. DigIn("msg", n, Blocked, r, w, dig["msg"], hashed["msg"])
      BY <2>1, <2>2, NetNow
    <3> HIDE DEF n
    <3> QED
      BY <3>1 DEF DigIn, DigAt
  <2>6. r[c] = r[a]
    BY <2>1, NetNow DEF MoIn, MoAt
  <2>7. taken = r[c]
    <3>1. Len(q[a]) = w[a] - r[a] /\ w[a] \in Nat /\ r[a] \in Nat
      BY <2>2, <2>3, <2>4
    <3> QED
      BY <2>5, <2>6, <3>1
  <2>8. Len(t) = n /\ \A m \in 1..n : t[m] = Opad(Keys[m])
    BY <2>1, NowFacts DEF NetData, Streamed
  <2>9. ASSUME NEW k \in 1..Len(q[c])
        PROVE  q[c][k] = Opad(FlattenSeq(Wire(PaddedKey(taken + k), call.w)))
    <3> DEFINE m == r[c] + k
    <3>1. Len(q[c]) = w[c] - r[c] /\ w[c] \in Nat /\ r[c] \in Nat /\ w[c] <= n
      BY <2>2, <2>3, <2>4, <2>8
    <3>2. m \in 1..n /\ k \in 1..w[c] - r[c]
      BY <2>3, <3>1
    <3>3. q[c][k] = t[m]
      BY <2>2, <2>4, <3>2
    <3>4. m \in Messages
      BY <2>1, <3>2, NowFacts, CallFacts
    <3>5. Keys[m] = FlattenSeq(Wire(PaddedKey(m), call.w))
      <4> HIDE DEF m
      <4> QED
        BY <3>4 DEF Keys
    <3>6. taken + k = m
      BY <2>7
    <3> HIDE DEF m, t, n, taken
    <3>7. t[m] = Opad(Keys[m])
      BY <2>8, <3>2
    <3> QED
      BY <3>3, <3>5, <3>6, <3>7
  <2> QED
    BY <2>9 DEF PadsInStep
<1> QED
  BY <1>1, NetworkInvariant, PTL

(* A FIFO has been read to the end.                                        *)
Read(r, c) == c \in Chans /\ r[c] = Len(Streams[c])

LEMMA ReadOut ==
    ASSUME NEW r, NEW w, Now(r, w), NEW c, Read(r, c)
    PROVE  q[c] = << >>
BY NowFacts DEF Read

(* When the caller, or a process, has the end of a unit's digests, the     *)
(* unit has read all it was sent.                                          *)
LEMMA UnitDone ==
    ASSUME NEW r, NEW w, Now(r, w), NEW u \in Units, u = "key" => LongKey,
           r[<<u, "eHash">>] = Count + 1, r[<<u, "hash">>] = Count
    PROVE  /\ Read(r, <<u, "eHash">>) /\ Read(r, <<u, "hash">>) /\ Read(r, <<u, "nblk">>) /\ Read(r, <<u, "blk">>)
           /\ Read(r, <<u, "e">>) /\ Read(r, <<u, "len">>) /\ Read(r, <<u, "word">>)
           /\ r[<<u, "e">>] = Count + 1
<1> DEFINE n == Count
           L == Lengths[u]
           P == Worded[u]
           Q == Blocked[u]
           p == pre[u]
           d == dig[u]
           h == hashed[u]
           e == r[<<u, "e">>]
           len == r[<<u, "len">>]
           word == r[<<u, "word">>]
           nblk == w[<<u, "nblk">>]
           blk == w[<<u, "blk">>]
           nblkR == r[<<u, "nblk">>]
           blkR == r[<<u, "blk">>]
           hash == w[<<u, "hash">>]
           eHash == w[<<u, "eHash">>]
<1>1. /\ <<u, "eHash">> \in Chans /\ <<u, "hash">> \in Chans /\ <<u, "nblk">> \in Chans /\ <<u, "blk">> \in Chans
      /\ <<u, "e">> \in Chans /\ <<u, "len">> \in Chans /\ <<u, "word">> \in Chans
  BY DEF Chans
<1>2. /\ Len(Streams[<<u, "eHash">>]) = n + 1 /\ Len(Streams[<<u, "e">>]) = n + 1
      /\ Len(Streams[<<u, "len">>]) = n /\ Len(Streams[<<u, "hash">>]) = n
      /\ Len(Streams[<<u, "nblk">>]) = n + 1 /\ Len(Streams[<<u, "word">>]) = Upto(P, n)
      /\ Len(Streams[<<u, "blk">>]) = Upto(Q, n)
  BY NowFacts DEF NetData, Streamed, Flagged, Carries
<1>3. n \in Nat /\ n + 1 <= eHash /\ nblkR <= nblk /\ nblk \in Nat /\ nblk <= n + 1
  BY <1>1, <1>2, NowFacts
<1>4. DigAt(Q, n, d, h, nblkR, blkR, hash, eHash) /\ PreAt(L, P, Q, call.w, n, p, e, len, word, nblk, blk)
  <2>1. DigAt(Q, n, d, h, nblkR, blkR, hash, eHash)
    BY NetNow DEF DigIn
  <2>2. PreAt(L, P, Q, call.w, n, p, e, len, word, nblk, blk)
    BY NetNow DEF PreIn
  <2> QED
    BY <2>1, <2>2
<1> HIDE DEF n, L, P, Q, p, d, h, e, len, word, nblk, blk, nblkR, blkR, hash, eHash
<1>5. nblkR = n + 1 /\ blkR = Upto(Q, n)
  BY <1>3, <1>4 DEF DigAt
<1>6. e = n + 1 /\ len = n /\ word = Upto(P, n)
  BY <1>3, <1>4, <1>5 DEF PreAt
<1> QED
  BY <1>1, <1>2, <1>5, <1>6 DEF Read, n, e, len, word, nblkR, blkR

(* Nothing has been sent through the FIFOs of the unit for long keys.      *)
LEMMA KeyUnitIdle ==
    ASSUME NEW r, NEW w, Now(r, w), ~LongKey
    PROVE  \A c \in {"key"} \X {"e", "len", "nblk", "blk", "hash", "eHash"} : c \in Chans /\ w[c] = 0
<1> DEFINE u == "key"
           n == Count
           L == Lengths[u]
           P == Worded[u]
           Q == Blocked[u]
           p == pre[u]
           d == dig[u]
           h == hashed[u]
           keyE == w[<<u, "e">>]
           keyLen == w[<<u, "len">>]
           e == r[<<u, "e">>]
           len == r[<<u, "len">>]
           nblk == w[<<u, "nblk">>]
           blk == w[<<u, "blk">>]
           nblkR == r[<<u, "nblk">>]
           blkR == r[<<u, "blk">>]
           hash == w[<<u, "hash">>]
           eHash == w[<<u, "eHash">>]
<1>1. u \in Units /\ \A c \in {u} \X {"e", "len", "nblk", "blk", "hash", "eHash"} : c \in Chans
  BY DEF Chans, Units
<1>2. keyE = 0 /\ keyLen = 0
  BY NetNow DEF KpIn, KpAt
<1>3. e <= keyE /\ e \in Nat /\ nblkR <= nblk /\ nblkR \in Nat /\ nblk \in Nat /\ n \in Nat
  BY <1>1, NowFacts
<1>4. DigAt(Q, n, d, h, nblkR, blkR, hash, eHash) /\ PreAt(L, P, Q, call.w, n, p, e, len, 0, nblk, blk)
  <2>1. DigAt(Q, n, d, h, nblkR, blkR, hash, eHash)
    BY <1>1, NetNow DEF DigIn
  <2>2. PreAt(L, P, Q, call.w, n, p, e, len, 0, nblk, blk)
    BY <1>1, NetNow DEF PreIn
  <2> QED
    BY <2>1, <2>2
<1>5. Upto(Q, 0) = 0
  BY <1>1, NowFacts DEF NetData, UnitData, Carries, Sums
<1> HIDE DEF n, L, P, Q, p, d, h, keyE, keyLen, e, len, nblk, blk, nblkR, blkR, hash, eHash
<1>6. nblk = 0 /\ blk = 0
  BY <1>2, <1>3, <1>4, <1>5 DEF PreAt
<1>7. hash = 0 /\ eHash = 0
  BY <1>3, <1>4, <1>6 DEF DigAt
<1> QED
  BY <1>1, <1>2, <1>6, <1>7 DEF keyE, keyLen, nblk, blk, hash, eHash

(* At the end of the results everything has been read.                     *)
LEMMA AllRead ==
    ASSUME NEW r, NEW w, Now(r, w), out.ended
    PROVE  Len(out.hashes) = Count /\ \A c \in Chans : q[c] = << >>
<1> DEFINE n == Count
<1>1. n \in Nat /\ \A c \in Chans : r[c] \in Nat /\ w[c] \in Nat /\ r[c] <= w[c]
  BY NowFacts
<1>2. "msg" \in Units /\ "res" \in Units /\ "key" \in Units
      /\ \A u \in Units : <<u, "e">> \in Chans /\ <<u, "eHash">> \in Chans
  BY DEF Units, Chans
<1>3. Len(out.hashes) = n /\ r[<<"res", "eHash">>] = n + 1 /\ r[<<"res", "hash">>] = n
  BY <1>1, NetNow DEF OutIn, OutAt
<1>4. \A x \in {"e", "len", "word", "nblk", "blk", "hash", "eHash"} : Read(r, <<"res", x>>)
  BY <1>2, <1>3, UnitDone
<1>5. r[<<"res", "e">>] = n + 1
  BY <1>2, <1>3, UnitDone
<1>6. r[<<"msg", "eHash">>] = n + 1 /\ r[<<"msg", "hash">>] = n /\ r[<<"merge", "kopad2">>] = n
  <2>1. MoIn(n, Worded, r, w, mo)
    BY NetNow
  <2>2. n + 1 <= w[<<"res", "e">>]
    BY <1>1, <1>2, <1>5
  <2> DEFINE P == Worded["res"]
             p == mo
             eHash == r[<<"msg", "eHash">>]
             hash == r[<<"msg", "hash">>]
             kopad2 == r[<<"merge", "kopad2">>]
             e == w[<<"res", "e">>]
             len == w[<<"res", "len">>]
             word == w[<<"res", "word">>]
  <2>3. MoAt(P, n, p, eHash, hash, kopad2, e, len, word)
    BY <2>1 DEF MoIn
  <2>4. n + 1 <= e /\ n \in Nat
    BY <1>1, <2>2
  <2> HIDE DEF n, P, p, eHash, hash, kopad2, e, len, word
  <2>5. eHash = n + 1 /\ hash = n /\ kopad2 = n
    <3>1. p.pc \in {"flag", "words", "done"} /\ e = eHash /\ kopad2 = hash
      BY <2>3 DEF MoAt
    <3>2. CASE p.pc = "flag"
      BY <2>3, <2>4, <3>1, <3>2 DEF MoAt
    <3>3. CASE p.pc = "words"
      <4>1. eHash \in 1..n
        BY <2>3, <3>3 DEF MoAt
      <4> QED
        BY <2>4, <3>1, <4>1
    <3>4. CASE p.pc = "done"
      BY <2>3, <3>1, <3>4 DEF MoAt
    <3> QED
      BY <3>1, <3>2, <3>3, <3>4
  <2> QED
    BY <2>5 DEF eHash, hash, kopad2
<1>7. \A x \in {"e", "len", "word", "nblk", "blk", "hash", "eHash"} : Read(r, <<"msg", x>>)
  BY <1>2, <1>6, UnitDone
<1>8. r[<<"msg", "e">>] = n + 1
  BY <1>2, <1>6, UnitDone
<1>9. /\ r[<<"kpad", "eKipad">>] = n + 1 /\ r[<<"kpad", "kipad">>] = n /\ r[<<"kpad", "kopad">>] = n
      /\ r[<<"in", "len">>] = n /\ r[<<"in", "msg">>] = Upto(Bodies, n)
  <2>1. MkIn(n, PadWords, Worded, Bodies, r, w, mk)
    BY NetNow
  <2>2. n + 1 <= w[<<"msg", "e">>]
    BY <1>1, <1>2, <1>8
  <2> HIDE DEF n
  <2> QED
    BY <1>1, <2>1, <2>2 DEF MkIn, MkAt
<1>10. KpIn(n, LongKey, Worded, r, w, kp) /\ n + 1 <= w[<<"kpad", "eKipad">>]
  <2>1. <<"kpad", "eKipad">> \in Chans
    BY DEF Chans
  <2> QED
    BY <1>1, <1>9, <2>1, NetNow
<1>11. /\ Len(Streams[<<"in", "e">>]) = n + 1 /\ Len(Streams[<<"in", "len">>]) = n
       /\ Len(Streams[<<"in", "msg">>]) = Upto(Bodies, n) /\ Len(Streams[<<"kpad", "eKipad">>]) = n + 1
       /\ Len(Streams[<<"kpad", "kipad">>]) = n /\ Len(Streams[<<"kpad", "kopad">>]) = n
       /\ Len(Streams[<<"merge", "kopad2">>]) = n /\ Len(Streams[<<"key", "word">>]) = Upto(Worded["key"], n)
  BY <1>2, NowFacts DEF NetData, Streamed, Flagged, Carries
<1>12. Read(r, <<"in", "e">>) /\ \A x \in {"e", "len", "word", "nblk", "blk", "hash", "eHash"} : q[<<"key", x>>] = << >>
  <2>1. CASE LongKey
    <3>1. r[<<"key", "eHash">>] = n + 1 /\ r[<<"key", "hash">>] = n
      <4> HIDE DEF n
      <4> QED
        BY <1>1, <1>10, <2>1 DEF KpIn, KpAt
    <3>2. \A x \in {"e", "len", "word", "nblk", "blk", "hash", "eHash"} : Read(r, <<"key", x>>)
      BY <1>2, <2>1, <3>1, UnitDone
    <3>3. n + 1 <= w[<<"key", "e">>]
      BY <1>1, <1>2, <2>1, <3>1, UnitDone
    <3>4. r[<<"in", "e">>] = n + 1
      <4> HIDE DEF n
      <4> QED
        BY <1>1, <1>10, <2>1, <3>3 DEF KpIn, KpAt
    <3>5. <<"in", "e">> \in Chans
      BY DEF Chans
    <3> QED
      BY <1>11, <3>2, <3>4, <3>5, ReadOut DEF Read
  <2>2. CASE ~LongKey
    <3>1. r[<<"in", "e">>] = n + 1 /\ r[<<"key", "word">>] = Upto(Worded["key"], n)
      <4> HIDE DEF n
      <4> QED
        BY <1>1, <1>10, <2>2 DEF KpIn, KpAt
    <3>2. <<"in", "e">> \in Chans /\ <<"key", "word">> \in Chans
      BY DEF Chans, Units
    <3>3. Read(r, <<"in", "e">>) /\ Read(r, <<"key", "word">>)
      BY <1>11, <3>1, <3>2 DEF Read
    <3>4. ASSUME NEW c \in {"key"} \X {"e", "len", "nblk", "blk", "hash", "eHash"} PROVE q[c] = << >>
      <4>1. c \in Chans /\ w[c] = 0
        BY <2>2, KeyUnitIdle
      <4> QED
        BY <4>1, NowFacts
    <3>5. q[<<"key", "word">>] = << >>
      BY <3>3, ReadOut
    <3> QED
      BY <3>3, <3>4, <3>5
  <2> QED
    BY <2>1, <2>2
<1>13. /\ Read(r, <<"in", "len">>) /\ Read(r, <<"in", "msg">>) /\ Read(r, <<"kpad", "eKipad">>)
       /\ Read(r, <<"kpad", "kipad">>) /\ Read(r, <<"kpad", "kopad">>) /\ Read(r, <<"merge", "kopad2">>)
  BY <1>6, <1>9, <1>11 DEF Read, Chans
<1>14. ASSUME NEW c \in Chans PROVE q[c] = << >>
  <2>1. CASE \E x \in {"e", "len", "word", "nblk", "blk", "hash", "eHash"} : c \in {<<"res", x>>, <<"msg", x>>}
    BY <1>4, <1>7, <2>1, ReadOut
  <2>2. CASE \E x \in {"e", "len", "word", "nblk", "blk", "hash", "eHash"} : c = <<"key", x>>
    BY <1>12, <2>2
  <2>3. CASE c \in {<<"in", "e">>, <<"in", "len">>, <<"in", "msg">>, <<"kpad", "eKipad">>, <<"kpad", "kipad">>,
                    <<"kpad", "kopad">>, <<"merge", "kopad2">>}
    BY <1>12, <1>13, <2>3, ReadOut
  <2> QED
    BY <2>1, <2>2, <2>3 DEF Chans, Units
<1> QED
  BY <1>3, <1>14

(* When the caller has the end flag of the results it has one MAC for each *)
(* message and no FIFO holds anything, so the next call starts clean.      *)
THEOREM NothingIsLeft == Spec => []NothingLeft
<1>1. IInv => NothingLeft
  <2> SUFFICES ASSUME IInv, out.ended PROVE Len(out.hashes) = Len(call.lens) /\ \A c \in Chans : q[c] = << >>
    BY DEF NothingLeft
  <2>1. PICK r, w : Now(r, w)
    BY DEF IInv, Now
  <2> QED
    BY <2>1, AllRead DEF Count
<1> QED
  BY <1>1, NetworkInvariant, PTL
=============================================================================
