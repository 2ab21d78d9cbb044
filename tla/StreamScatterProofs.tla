------------------------- MODULE StreamScatterProofs ------------------------
(***************************************************************************)
(* Theorems about StreamScatter, for all widths, numbers of lanes, depths  *)
(* and inputs.                                                             *)
(***************************************************************************)
EXTENDS StreamScatter, SequenceTheorems, FiniteSetTheorems, WellFoundedInduction, TLAPS

IsSequence(s) == \E S : s \in Seq(S)

(* A lane that was full in the previous iteration may have two elements in *)
(* its ring: those dealt in the iteration that found it full and in the    *)
(* one before. Any other lane has one at most, as it gave one away.        *)
RingInv(i) ==
    /\ IsSequence(deq[i])
    /\ Len(deq[i]) <= IF i \in ds.bak1 THEN 2 ELSE 1

RingsInv ==
    /\ "bak1" \in DOMAIN ds
    /\ deq = [i \in Lanes |-> deq[i]]
    /\ \A i \in Lanes : RingInv(i)

LEMMA SequenceAppend ==
    ASSUME NEW s, NEW e, IsSequence(s)
    PROVE  /\ IsSequence(Append(s, e)) /\ Len(Append(s, e)) = Len(s) + 1
           /\ Len(s) \in Nat
<1>1. PICK S : s \in Seq(S)
  BY DEF IsSequence
<1>2. s \in Seq(S \cup {e}) /\ e \in S \cup {e}
  BY <1>1
<1>3. Append(s, e) \in Seq(S \cup {e}) /\ Len(Append(s, e)) = Len(s) + 1 /\ Len(s) \in Nat
  BY <1>2
<1> QED
  BY <1>3 DEF IsSequence

LEMMA SequenceTail ==
    ASSUME NEW s, IsSequence(s), s # << >>
    PROVE  IsSequence(Tail(s)) /\ Len(Tail(s)) = Len(s) - 1 /\ Len(s) \in Nat /\ Len(s) > 0
<1>1. PICK S : s \in Seq(S)
  BY DEF IsSequence
<1>2. Tail(s) \in Seq(S) /\ Len(Tail(s)) = Len(s) - 1 /\ Len(s) \in Nat /\ Len(s) > 0
  BY <1>1
<1> QED
  BY <1>2 DEF IsSequence

LEMMA SequenceEmpty == IsSequence(<< >>) /\ Len(<< >>) = 0
<1>1. << >> \in Seq({}) /\ Len(<< >>) = 0
  OBVIOUS
<1> QED
  BY <1>1 DEF IsSequence

LEMMA RingsInit == Init => RingsInv
BY SequenceEmpty DEF Init, RingsInv, RingInv

LEMMA IterateKeeps ==
    ASSUME RingsInv, Iterate
    PROVE  RingsInv'
<1> DEFINE open == {i \in Lanes \ FullLanes : deq[i] # << >>}
           late == Lanes \ ds.bak1
           popped(i) == IF i \in open THEN Tail(deq[i]) ELSE deq[i]
           fetch == Fetches(ds)
           r == IF fetch THEN Elements(Head(chunks)) ELSE ds.r
           high == IF fetch THEN ~ds.high ELSE ds.high
           load == (fetch \/ ds.newR) /\ ds.ld2 - ds.rn < NStrm
           p == IF load /\ ~high THEN r ELSE ds.p
           q == IF load /\ high THEN r ELSE ds.q
           before(i) == Cardinality({j \in late : j < i})
           e == [i \in Lanes |-> (p \o q)[PlaceAfter(ds, before(i)) + 1]]
<1>1. ds'.bak1 = FullLanes /\ "bak1" \in DOMAIN ds'
  BY DEF Iterate, RingsInv
<1>2. deq' = [i \in Lanes |-> IF i \in late THEN Append(popped(i), e[i]) ELSE popped(i)]
  BY DEF Iterate, Late
<1> HIDE DEF e
<1>3. ASSUME NEW i \in Lanes PROVE RingInv(i)'
  <2>1. RingInv(i) /\ deq'[i] = IF i \in late THEN Append(popped(i), e[i]) ELSE popped(i)
    BY <1>2 DEF RingsInv
  <2>2. IsSequence(popped(i)) /\ Len(popped(i)) \in Nat
    BY <2>1, SequenceTail, SequenceAppend DEF RingInv
  <2>3. Len(popped(i)) <= IF i \in FullLanes THEN (IF i \in late THEN 1 ELSE 2)
                                            ELSE (IF i \in late THEN 0 ELSE 1)
    BY <2>1, SequenceTail, SequenceAppend, SequenceEmpty DEF RingInv
  <2>4. IsSequence(deq'[i])
    BY <2>1, <2>2, SequenceAppend
  <2> HIDE DEF popped, late
  <2>5. /\ i \in late => Len(deq'[i]) = Len(popped(i)) + 1
        /\ i \notin late => Len(deq'[i]) = Len(popped(i))
    BY <2>1, <2>2, SequenceAppend
  <2>6. Len(deq'[i]) <= IF i \in FullLanes THEN 2 ELSE 1
    BY <2>2, <2>3, <2>5
  <2> QED
    BY <1>1, <2>4, <2>6 DEF RingInv
<1>4. deq' = [i \in Lanes |-> deq'[i]]
  BY <1>2
<1> QED
  BY <1>1, <1>3, <1>4 DEF RingsInv

LEMMA RingsStep == RingsInv /\ [Next]_vars => RingsInv'
<1> SUFFICES ASSUME RingsInv, [Next]_vars PROVE RingsInv'
  OBVIOUS
<1>1. CASE deq' = deq /\ ds'.bak1 = ds.bak1 /\ DOMAIN ds' = DOMAIN ds
  BY <1>1 DEF RingsInv, RingInv
<1>2. CASE Iterate
  BY <1>2, IterateKeeps
<1>3. CASE EmptyRing
  <2>1. ds'.bak1 = ds.bak1 /\ "bak1" \in DOMAIN ds'
    BY <1>3 DEF EmptyRing, RingsInv
  <2>2. PICK j \in Lanes : deq[j] # << >> /\ deq' = [deq EXCEPT ![j] = Tail(@)]
    BY <1>3 DEF EmptyRing
  <2>3. ASSUME NEW i \in Lanes PROVE RingInv(i)'
    BY <2>1, <2>2, <2>3, SequenceTail DEF RingsInv, RingInv
  <2> QED
    BY <2>1, <2>2, <2>3 DEF RingsInv
<1>4. CASE LeaveLoop \/ RingsEmpty \/ ArrayDone \/ RegisterDone \/ LastDone
  BY <1>1, <1>4 DEF RingsInv,  LeaveLoop, RingsEmpty, ArrayDone, RegisterDone, LastDone
<1>5. CASE DealArray \/ DealRegister \/ DealLast
  BY <1>1, <1>5 DEF RingsInv,  DealArray, DealRegister, DealLast, Deal
<1>6. CASE UNCHANGED vars \/ Finished \/ \E i \in Lanes : Take(i)
  BY <1>1, <1>6 DEF vars, Finished, Take
<1> QED
  BY <1>2, <1>3, <1>4, <1>5, <1>6 DEF Next, Distribute

(* Three places in a ring are enough, for any number of lanes and however  *)
(* they fill and empty: the ring of eight that the code has never wraps    *)
(* onto an element that has not been given away.                           *)
THEOREM RingsNeverFill ==
    ASSUME DeqDepth > 2
    PROVE  Spec => []RingFits
<1>1. RingsInv => RingFits
  <2> SUFFICES ASSUME RingsInv, NEW i \in Lanes PROVE Len(deq[i]) < DeqDepth
    BY DEF RingFits
  <2>1. Len(deq[i]) \in Nat /\ Len(deq[i]) <= 2
    BY SequenceAppend DEF RingsInv, RingInv
  <2> QED
    BY <2>1, ScatterAssumption DEF ScatterAssumption
<1> QED
  BY <1>1, RingsInit, RingsStep, PTL DEF Spec
-----------------------------------------------------------------------------
(* FlattenSeq is a function defined by recursion on the number of          *)
(* sequences: that it exists and is the only one is shown from the         *)
(* smallest number for which it would not be.                              *)

LEMMA Smallest ==
    ASSUME NEW T \in SUBSET Nat, T # {}
    PROVE  \E x \in T : \A y \in T : x <= y
<1> DEFINE R == OpToRel(<, Nat)
<1>1. IsWellFoundedOn(R, Nat)
  BY NatLessThanWellFounded
<1>2. PICK x \in T : \A y \in T : ~(<<y, x>> \in R)
  <2> HIDE DEF R
  <2> QED
    BY <1>1, WFMin
<1>3. \A y \in T : ~(y < x)
  BY <1>2 DEF OpToRel
<1> QED
  BY <1>3

(* What FlattenSeq asks of the function from i to the first i sequences,   *)
(* one behind the other.                                                   *)
Flattens(seqs, n, f) ==
    f = [i \in 1..n |-> IF i = 1 THEN seqs[i] ELSE f[i - 1] \o seqs[i]]

LEMMA FlattensExists ==
    ASSUME NEW S, NEW seqs \in Seq(Seq(S)), NEW n \in 1..Len(seqs)
    PROVE  \E f \in [1..n -> Seq(S)] : Flattens(seqs, n, f)
<1> DEFINE Ok(k) == \E f \in [1..k -> Seq(S)] : Flattens(seqs, k, f)
           bad == {k \in 1..Len(seqs) : ~Ok(k)}
<1>1. Ok(1)
  <2>1. seqs[1] \in Seq(S)
    BY Len(seqs) \in Nat
  <2> DEFINE f == [i \in 1..1 |-> seqs[1]]
  <2>2. f \in [1..1 -> Seq(S)]
    BY <2>1
  <2>3. Flattens(seqs, 1, f)
    BY DEF Flattens
  <2> QED
    BY <2>2, <2>3
<1>2. ASSUME NEW k \in 1..Len(seqs), k # 1, Ok(k - 1) PROVE Ok(k)
  <2>1. PICK g \in [1..k - 1 -> Seq(S)] : Flattens(seqs, k - 1, g)
    BY <1>2
  <2>2. seqs[k] \in Seq(S) /\ k - 1 \in 1..k - 1 /\ k \in Nat
    BY <1>2
  <2>3. g[k - 1] \in Seq(S) /\ g[k - 1] \o seqs[k] \in Seq(S)
    BY <2>1, <2>2, ConcatProperties
  <2> DEFINE f == [i \in 1..k |-> IF i = k THEN g[k - 1] \o seqs[k] ELSE g[i]]
  <2>4. f \in [1..k -> Seq(S)]
    <3>1. ASSUME NEW i \in 1..k, i # k PROVE i \in 1..k - 1
      BY <3>1, <2>2
    <3> QED
      BY <3>1, <2>1, <2>3
  <2>5. ASSUME NEW i \in 1..k
        PROVE  f[i] = IF i = 1 THEN seqs[i] ELSE f[i - 1] \o seqs[i]
    <3>1. CASE i = k
      <4>0. i - 1 \in 1..k /\ i - 1 # k
        BY <3>1, <2>2, <1>2
      <4>1. f[i - 1] = g[i - 1] /\ f[i] = g[k - 1] \o seqs[k]
        BY <4>0, <3>1
      <4> QED
        BY <4>1, <3>1, <1>2
    <3>2. CASE i # k
      <4>1. i \in 1..k - 1 /\ (i # 1 => i - 1 \in 1..k - 1 /\ i - 1 # k)
        BY <3>2, <2>2
      <4>2. g[i] = IF i = 1 THEN seqs[i] ELSE g[i - 1] \o seqs[i]
        BY <4>1, <2>1 DEF Flattens
      <4>3. f[i] = g[i] /\ (i # 1 => f[i - 1] = g[i - 1])
        BY <4>1, <3>2, <2>2
      <4> HIDE DEF f
      <4> QED
        BY <4>2, <4>3
    <3> QED
      BY <3>1, <3>2
  <2>6. Flattens(seqs, k, f)
    <3>1. f = [i \in 1..k |-> f[i]]
      OBVIOUS
    <3> HIDE DEF f
    <3> QED
      BY <2>5, <3>1 DEF Flattens
  <2> QED
    BY <2>4, <2>6
<1>3. bad = {}
  <2> SUFFICES ASSUME bad # {} PROVE FALSE
    OBVIOUS
  <2>1. bad \in SUBSET Nat
    OBVIOUS
  <2>2. PICK k \in bad : \A j \in bad : k <= j
    BY <2>1, Smallest
  <2>3. k \in 1..Len(seqs) /\ ~Ok(k)
    OBVIOUS
  <2>4. k # 1
    BY <1>1, <2>3
  <2>5. k - 1 \in 1..Len(seqs) /\ ~(k <= k - 1)
    BY <2>3, <2>4, Len(seqs) \in Nat
  <2>6. Ok(k - 1)
    BY <2>2, <2>5
  <2> HIDE DEF Ok
  <2> QED
    BY <1>2, <2>3, <2>4, <2>6
<1> QED
  BY <1>3

LEMMA FlattenIs ==
    ASSUME NEW S, NEW seqs \in Seq(Seq(S)), Len(seqs) # 0,
           NEW f, Flattens(seqs, Len(seqs), f)
    PROVE  FlattenSeq(seqs) = f[Len(seqs)]
<1> DEFINE n == Len(seqs)
           g == CHOOSE h : Flattens(seqs, n, h)
           differ == {k \in 1..n : f[k] # g[k]}
<1>1. Flattens(seqs, n, g)
  OBVIOUS
<1>2. FlattenSeq(seqs) = g[n]
  BY DEF FlattenSeq, Flattens
<1>3. n \in Nat /\ n # 0
  OBVIOUS
<1> HIDE DEF g, n
<1>4. differ = {}
  <2> SUFFICES ASSUME differ # {} PROVE FALSE
    OBVIOUS
  <2>0. differ \in SUBSET Nat
    BY <1>3
  <2>1. PICK k \in differ : \A j \in differ : k <= j
    BY <2>0, Smallest
  <2>2. k \in 1..n /\ f[k] # g[k]
    OBVIOUS
  <2>3. k # 1
    BY <1>1, <2>2 DEF Flattens, n
  <2>4. k - 1 \in 1..n /\ ~(k <= k - 1)
    BY <2>2, <2>3, <1>3
  <2>5. f[k - 1] = g[k - 1]
    BY <2>1, <2>4
  <2>6. f[k] = f[k - 1] \o seqs[k]
    BY <2>2, <2>3 DEF Flattens, n
  <2>7. g[k] = g[k - 1] \o seqs[k]
    BY <2>2, <2>3, <1>1 DEF Flattens, n
  <2> QED
    BY <2>2, <2>5, <2>6, <2>7
<1> QED
  BY <1>2, <1>3, <1>4 DEF n

LEMMA FlattenEmpty == FlattenSeq(<< >>) = << >>
BY DEF FlattenSeq

(* Where sequence b begins in what FlattenSeq gives.                       *)
Begin(seqs, at) ==
    /\ at \in [1..Len(seqs) + 1 -> Nat]
    /\ at[1] = 0
    /\ \A b \in 1..Len(seqs) : at[b + 1] = at[b] + Len(seqs[b])

(* The first b sequences are in the places at gives them, and nothing else *)
(* is in s.                                                                *)
HasFirst(s, seqs, at, b) ==
    /\ Len(s) = at[b + 1]
    /\ \A c \in 1..b : \A k \in 1..Len(seqs[c]) :
          at[c] + k \in 1..Len(s) /\ s[at[c] + k] = seqs[c][k]
    /\ \A m \in 1..Len(s) : \E c \in 1..b : \E k \in 1..Len(seqs[c]) : m = at[c] + k

LEMMA HasMore ==
    ASSUME NEW S, NEW seqs \in Seq(Seq(S)), NEW at, Begin(seqs, at),
           NEW b \in 1..Len(seqs), b # 1, NEW s \in Seq(S), HasFirst(s, seqs, at, b - 1)
    PROVE  HasFirst(s \o seqs[b], seqs, at, b)
<1> DEFINE n == Len(s)
           t == seqs[b]
           l == Len(t)
           u == s \o t
<1>1. /\ t \in Seq(S) /\ n \in Nat /\ l \in Nat /\ b - 1 \in Nat /\ b \in Nat /\ (b - 1) + 1 = b
      /\ b - 1 \in 1..Len(seqs)
  BY Len(seqs) \in Nat
<1>2. u \in Seq(S) /\ Len(u) = n + l
  BY <1>1, ConcatProperties
<1>3. \A i \in 1..n + l : u[i] = IF i <= n THEN s[i] ELSE t[i - n]
  BY <1>1, ConcatProperties
<1>4. n = at[b] /\ at[b + 1] = n + l
  BY <1>1 DEF HasFirst, Begin
<1> HIDE DEF u
<1>5. ASSUME NEW c \in 1..b, NEW k \in 1..Len(seqs[c])
      PROVE  at[c] + k \in 1..Len(u) /\ u[at[c] + k] = seqs[c][k]
  <2>1. CASE c = b
    <3> DEFINE i == n + k
    <3>1. i \in 1..n + l /\ ~(i <= n) /\ i - n = k
      BY <2>1, <1>1
    <3> HIDE DEF i
    <3>2. u[i] = t[k]
      BY <3>1, <1>3
    <3> QED
      BY <3>1, <3>2, <2>1, <1>2, <1>4 DEF i
  <2>2. CASE c # b
    <3>1. c \in 1..b - 1
      BY <2>2, <1>1
    <3> DEFINE i == at[c] + k
    <3>2. i \in 1..n /\ s[i] = seqs[c][k]
      BY <3>1 DEF HasFirst
    <3> HIDE DEF i
    <3>3. i \in 1..n + l /\ i <= n
      BY <3>2, <1>1
    <3>4. u[i] = s[i]
      BY <3>3, <1>3
    <3> QED
      BY <3>2, <3>3, <3>4, <1>2 DEF i
  <2> QED
    BY <2>1, <2>2
<1>6. ASSUME NEW m \in 1..Len(u) PROVE \E c \in 1..b : \E k \in 1..Len(seqs[c]) : m = at[c] + k
  <2>1. m \in 1..n + l /\ m \in Nat
    BY <1>1, <1>2
  <2>2. CASE m <= n
    <3>1. m \in 1..n
      BY <2>1, <2>2, <1>1
    <3>2. PICK c \in 1..b - 1 : \E k \in 1..Len(seqs[c]) : m = at[c] + k
      BY <3>1 DEF HasFirst
    <3>3. c \in 1..b
      BY <3>2, <1>1
    <3> QED
      BY <3>2, <3>3
  <2>3. CASE ~(m <= n)
    <3>1. m - n \in 1..l /\ m = n + (m - n) /\ b \in 1..b
      BY <2>1, <2>3, <1>1
    <3> QED
      BY <3>1, <1>4
  <2> QED
    BY <2>2, <2>3
<1> QED
  BY <1>2, <1>4, <1>5, <1>6 DEF HasFirst, u

LEMMA FlattenPlaces ==
    ASSUME NEW S, NEW seqs \in Seq(Seq(S)), Len(seqs) # 0
    PROVE  /\ FlattenSeq(seqs) \in Seq(S)
           /\ \E at : Begin(seqs, at) /\ HasFirst(FlattenSeq(seqs), seqs, at, Len(seqs))
<1> DEFINE n == Len(seqs)
<1>1. n \in Nat /\ n \in 1..n
  OBVIOUS
<1>2. PICK f \in [1..n -> Seq(S)] : Flattens(seqs, n, f)
  BY <1>1, FlattensExists
<1>3. FlattenSeq(seqs) = f[n] /\ f[n] \in Seq(S)
  BY <1>1, <1>2, FlattenIs
<1>4. \A i \in 1..n : f[i] = IF i = 1 THEN seqs[i] ELSE f[i - 1] \o seqs[i]
  BY <1>2 DEF Flattens
<1>a. \A b \in 1..n : seqs[b] \in Seq(S) /\ Len(seqs[b]) \in Nat
  OBVIOUS
<1>b. 1 \in 1..n /\ f[1] = seqs[1]
  <2>1. 1 \in 1..n
    BY <1>1
  <2> QED
    BY <2>1, <1>4
<1> DEFINE at == [b \in 1..n + 1 |-> IF b = 1 THEN 0 ELSE Len(f[b - 1])]
<1> HIDE DEF n
<1>5. \A b \in 1..n : b \in 1..n + 1 /\ b + 1 \in 1..n + 1 /\ b + 1 # 1 /\ (b + 1) - 1 = b
  BY <1>1
<1>6. \A b \in 1..n + 1 : b # 1 => b - 1 \in 1..n
  BY <1>1
<1>7. at \in [1..n + 1 -> Nat] /\ at[1] = 0 /\ \A b \in 1..n : at[b + 1] = Len(f[b])
  <2>1. \A b \in 1..n : Len(f[b]) \in Nat
    BY <1>2
  <2>2. at \in [1..n + 1 -> Nat]
    BY <2>1, <1>6
  <2>3. at[1] = 0
    BY <1>1
  <2> QED
    BY <2>2, <2>3, <1>5
<1> HIDE DEF at
<1>8. ASSUME NEW b \in 1..n PROVE at[b + 1] = at[b] + Len(seqs[b])
  <2>1. seqs[b] \in Seq(S) /\ Len(seqs[b]) \in Nat /\ f[b] \in Seq(S)
    BY <1>a
  <2>2. CASE b = 1
    <3>1. at[1 + 1] = Len(seqs[1]) /\ at[1] = 0 /\ Len(seqs[1]) \in Nat
      BY <1>a, <1>b, <1>7
    <3>2. at[1 + 1] = at[1] + Len(seqs[1])
      BY <3>1
    <3> QED
      BY <2>2, <3>2
  <2>3. CASE b # 1
    <3>1. b - 1 \in 1..n /\ (b - 1) + 1 = b
      BY <2>3, <1>1
    <3>2. f[b] = f[b - 1] \o seqs[b] /\ f[b - 1] \in Seq(S)
      BY <2>3, <3>1, <1>2, <1>4
    <3>3. Len(f[b]) = Len(f[b - 1]) + Len(seqs[b])
      BY <3>2, <2>1, ConcatProperties
    <3>4. at[b] = Len(f[b - 1])
      BY <3>1, <1>7
    <3> QED
      BY <3>3, <3>4, <1>7
  <2> QED
    BY <2>2, <2>3
<1>9. Begin(seqs, at)
  BY <1>7, <1>8 DEF Begin, n
<1> DEFINE Good(b) == HasFirst(f[b], seqs, at, b)
           bad == {b \in 1..n : ~Good(b)}
<1>10. Good(1)
  <2>1. f[1] = seqs[1] /\ seqs[1] \in Seq(S) /\ 1 \in 1..n
    BY <1>a, <1>b
  <2>2. at[1 + 1] = Len(seqs[1]) /\ at[1] = 0
    BY <2>1, <1>7
  <2>3. \A c \in 1..1 : c = 1
    OBVIOUS
  <2>4. \A k \in 1..Len(seqs[1]) : 0 + k = k
    BY <2>1
  <2>5. 1 \in 1..1
    OBVIOUS
  <2>6. Len(f[1]) = at[1 + 1] /\ \A m \in 1..Len(f[1]) : m \in 1..Len(seqs[1]) /\ m = at[1] + m
    BY <2>1, <2>2, <2>4
  <2>7. \A c \in 1..1 : \A k \in 1..Len(seqs[c]) :
          at[c] + k \in 1..Len(f[1]) /\ f[1][at[c] + k] = seqs[c][k]
    BY <2>1, <2>2, <2>3, <2>4
  <2> QED
    BY <2>5, <2>6, <2>7 DEF HasFirst
<1>11. ASSUME NEW b \in 1..n, b # 1, Good(b - 1) PROVE Good(b)
  <2>1. b - 1 \in 1..n /\ b \in 1..Len(seqs)
    BY <1>11, <1>1 DEF n
  <2>2. f[b] = f[b - 1] \o seqs[b] /\ f[b - 1] \in Seq(S)
    BY <2>1, <1>2, <1>4, <1>11
  <2>3. HasFirst(f[b - 1] \o seqs[b], seqs, at, b)
    BY <2>1, <2>2, <1>9, <1>11, HasMore
  <2> QED
    BY <2>2, <2>3
<1>12. bad = {}
  <2> SUFFICES ASSUME bad # {} PROVE FALSE
    OBVIOUS
  <2> HIDE DEF Good
  <2>1. bad \in SUBSET Nat
    BY <1>1
  <2>2. PICK b \in bad : \A j \in bad : b <= j
    BY <2>1, Smallest
  <2>3. b \in 1..n /\ ~Good(b)
    OBVIOUS
  <2>4. b # 1
    BY <1>10, <2>3
  <2>5. b - 1 \in 1..n /\ ~(b <= b - 1)
    BY <2>3, <2>4, <1>1
  <2>6. Good(b - 1)
    BY <2>2, <2>5
  <2> QED
    BY <1>11, <2>3, <2>4, <2>6
<1>13. Good(n)
  <2> HIDE DEF Good
  <2> QED
    BY <1>1, <1>12
<1> QED
  BY <1>3, <1>9, <1>13 DEF n

(* Sequences of one length.                                                *)
LEMMA FlattenEven ==
    ASSUME NEW S, NEW seqs \in Seq(Seq(S)), NEW n \in Nat,
           \A b \in 1..Len(seqs) : Len(seqs[b]) = n
    PROVE  /\ FlattenSeq(seqs) \in Seq(S)
           /\ Len(FlattenSeq(seqs)) = Len(seqs) * n
           /\ \A b \in 1..Len(seqs) : \A k \in 1..n :
                FlattenSeq(seqs)[((b - 1) * n) + k] = seqs[b][k]
<1> DEFINE l == Len(seqs)
<1>0. l \in Nat
  OBVIOUS
<1>1. CASE l = 0
  <2>1. seqs = << >> /\ FlattenSeq(seqs) = << >>
    BY <1>1, FlattenEmpty
  <2>2. << >> \in Seq(S) /\ Len(<< >>) = 0 /\ 0 * n = 0
    OBVIOUS
  <2>3. \A b \in 1..0 : FALSE
    OBVIOUS
  <2> QED
    BY <1>1, <2>1, <2>2, <2>3
<1>2. CASE l # 0
  <2>1. FlattenSeq(seqs) \in Seq(S)
    BY <1>2, FlattenPlaces
  <2>2. PICK at : Begin(seqs, at) /\ HasFirst(FlattenSeq(seqs), seqs, at, l)
    BY <1>2, FlattenPlaces
  <2> HIDE DEF l
  <2>3. /\ at \in [1..l + 1 -> Nat] /\ at[1] = 0
        /\ \A b \in 1..l : at[b + 1] = at[b] + n
    BY <2>2 DEF Begin, l
  <2> DEFINE bad == {b \in 1..l + 1 : at[b] # (b - 1) * n}
  <2>4. bad = {}
    <3> SUFFICES ASSUME bad # {} PROVE FALSE
      OBVIOUS
    <3>1. bad \in SUBSET Nat
      BY <1>0
    <3>2. PICK b \in bad : \A j \in bad : b <= j
      BY <3>1, Smallest
    <3>3. b \in 1..l + 1 /\ at[b] # (b - 1) * n /\ b \in Nat
      BY <1>0
    <3>4. b # 1
      <4>1. (1 - 1) * n = 0
        OBVIOUS
      <4> QED
        BY <4>1, <2>3, <3>3
    <3> DEFINE a == b - 1
    <3>5. a \in 1..l /\ a \in 1..l + 1 /\ a + 1 = b /\ ~(b <= a)
      BY <3>3, <3>4, <1>0
    <3>6. at[a] = (a - 1) * n
      BY <3>2, <3>5
    <3> HIDE DEF a
    <3>7. at[a + 1] = at[a] + n
      BY <2>3, <3>5
    <3>8. \A x \in Int : ((x - 1) * n) + n = ((x + 1) - 1) * n
      OBVIOUS
    <3>9. ((a - 1) * n) + n = (b - 1) * n
      BY <3>5, <3>8
    <3> QED
      BY <3>3, <3>5, <3>6, <3>7, <3>9
  <2>5. \A b \in 1..l + 1 : at[b] = (b - 1) * n
    BY <2>4
  <2>6. Len(FlattenSeq(seqs)) = l * n
    <3>1. l + 1 \in 1..l + 1 /\ (l + 1) - 1 = l
      BY <1>0
    <3>2. at[l + 1] = l * n
      BY <2>5, <3>1
    <3> QED
      BY <2>2, <3>2 DEF HasFirst
  <2>7. \A b \in 1..l : b \in 1..l + 1
    BY <1>0
  <2>8. \A b \in 1..l : \A k \in 1..n : FlattenSeq(seqs)[((b - 1) * n) + k] = seqs[b][k]
    <3> SUFFICES ASSUME NEW b \in 1..l, NEW k \in 1..n
                 PROVE  FlattenSeq(seqs)[((b - 1) * n) + k] = seqs[b][k]
      OBVIOUS
    <3>1. at[b] = (b - 1) * n /\ k \in 1..Len(seqs[b])
      BY <2>5, <2>7 DEF l
    <3>2. FlattenSeq(seqs)[at[b] + k] = seqs[b][k]
      BY <2>2, <3>1 DEF HasFirst
    <3> QED
      BY <3>1, <3>2
  <2> QED
    BY <2>1, <2>6, <2>8 DEF l
<1> QED
  BY <1>1, <1>2

-----------------------------------------------------------------------------
(* Division.                                                               *)

LEMMA Division ==
    \A a, b \in Nat : b > 0 =>
        /\ a \div b \in Nat /\ a % b \in Nat /\ a % b < b
        /\ a = ((a \div b) * b) + (a % b)
OBVIOUS

LEMMA ProductsOrdered ==
    ASSUME NEW x \in Nat, NEW y \in Nat, NEW z \in Nat
    PROVE  /\ x <= y => x * z <= y * z
           /\ x < y => (x * z) + z <= y * z
           /\ x * z \in Nat /\ y * z \in Nat
<1>1. x * z \in Nat /\ y * z \in Nat
  OBVIOUS
<1>2. ASSUME x <= y PROVE x * z <= y * z
  <2>1. PICK d \in Nat : y = x + d
    <3>1. y - x \in Nat /\ y = x + (y - x)
      BY <1>2
    <3> QED
      BY <3>1
  <2>2. y * z = (x * z) + (d * z) /\ d * z \in Nat
    BY <2>1
  <2> QED
    BY <2>2, <1>1
<1>3. ASSUME x < y PROVE (x * z) + z <= y * z
  <2>1. PICK d \in Nat : y = (x + 1) + d
    <3>1. y - (x + 1) \in Nat /\ y = (x + 1) + (y - (x + 1))
      BY <1>3
    <3> QED
      BY <3>1
  <2>2. y * z = ((x * z) + z) + (d * z) /\ d * z \in Nat
    BY <2>1
  <2> QED
    BY <2>2, <1>1
<1> QED
  BY <1>1, <1>2, <1>3

LEMMA QuotientIs ==
    ASSUME NEW a \in Nat, NEW b \in Nat, NEW q \in Nat, b > 0,
           q * b <= a, a < (q * b) + b
    PROVE  a \div b = q
<1> DEFINE p == a \div b
<1>1. p \in Nat /\ p * b <= a /\ a < (p * b) + b
  BY Division
<1> HIDE DEF p
<1>3. p * b \in Nat /\ q * b \in Nat
  BY <1>1
<1>4. ~(p < q)
  <2>1. p < q => (p * b) + b <= q * b
    BY <1>1, ProductsOrdered
  <2> QED
    BY <2>1, <1>1, <1>3
<1>5. ~(q < p)
  <2>1. q < p => (q * b) + b <= p * b
    BY <1>1, ProductsOrdered
  <2> QED
    BY <2>1, <1>1, <1>3
<1>6. p = q
  BY <1>1, <1>4, <1>5
<1> QED
  BY <1>6 DEF p

(* Whole multiples move out of a quotient.                                 *)
LEMMA QuotientAdd ==
    ASSUME NEW a \in Nat, NEW b \in Nat, NEW n \in Nat, b > 0
    PROVE  ((n * b) + a) \div b = n + (a \div b)
<1> DEFINE p == a \div b
           s == (n * b) + a
<1>1. p \in Nat /\ p * b <= a /\ a < (p * b) + b /\ p * b \in Nat
  BY Division
<1> HIDE DEF p
<1>2. n * b \in Nat /\ s \in Nat
  OBVIOUS
<1>3. (n + p) * b = (n * b) + (p * b) /\ n + p \in Nat
  BY <1>1
<1>4. (n + p) * b <= s /\ s < ((n + p) * b) + b
  BY <1>1, <1>2, <1>3
<1> HIDE DEF s
<1>5. s \div b = n + p
  BY <1>2, <1>3, <1>4, QuotientIs
<1> QED
  BY <1>5 DEF s, p

LEMMA RemainderAdd ==
    ASSUME NEW a \in Nat, NEW b \in Nat, NEW n \in Nat, b > 0
    PROVE  ((n * b) + a) % b = a % b
<1> DEFINE p == a \div b
           s == (n * b) + a
<1>1. p \in Nat /\ a % b \in Nat /\ a = (p * b) + (a % b)
  BY Division
<1>2. s \div b = n + p
  BY QuotientAdd
<1>3. n * b \in Nat /\ s \in Nat
  OBVIOUS
<1>4. s = ((s \div b) * b) + (s % b) /\ s % b \in Nat
  BY <1>3, Division
<1> HIDE DEF s, p
<1>5. (n + p) * b = (n * b) + (p * b) /\ (n * b) \in Nat /\ p * b \in Nat
  BY <1>1
<1>6. s = (n * b) + ((p * b) + (a % b))
  BY <1>1 DEF s
<1>7. s % b = a % b
  BY <1>1, <1>2, <1>3, <1>4, <1>5, <1>6
<1> QED
  BY <1>7 DEF s

LEMMA RemainderSmall ==
    ASSUME NEW a \in Nat, NEW b \in Nat, a < b
    PROVE  a % b = a /\ a \div b = 0
<1>1. 0 * b = 0 /\ b > 0
  OBVIOUS
<1>2. a \div b = 0
  BY <1>1, QuotientIs
<1>3. a = ((a \div b) * b) + (a % b) /\ a % b \in Nat
  BY <1>1, Division
<1> QED
  BY <1>1, <1>2, <1>3

(* The remainder may be taken before something is added.                   *)
LEMMA RemainderMore ==
    ASSUME NEW a \in Nat, NEW c \in Nat, NEW b \in Nat, b > 0
    PROVE  ((a % b) + c) % b = (a + c) % b
<1> DEFINE q == a \div b
           r == a % b
<1>1. q \in Nat /\ r \in Nat /\ a = (q * b) + r
  BY Division
<1> HIDE DEF q, r
<1>2. a + c = (q * b) + (r + c) /\ r + c \in Nat
  <2>1. q * b \in Nat
    BY <1>1
  <2> QED
    BY <1>1, <2>1
<1>3. ((q * b) + (r + c)) % b = (r + c) % b
  BY <1>1, <1>2, RemainderAdd
<1> QED
  BY <1>2, <1>3 DEF r

-----------------------------------------------------------------------------
(* The chunks.                                                             *)

Unit(x) == IF x <= call * WIn THEN x ELSE Junk
Chunks == Reduce(Read(call)).chunks
Full == (call * WIn) \div Chunk
Total == (call * WIn) \div WOut

LEMMA Constants ==
    /\ NStrm \in Nat /\ WIn \in Nat /\ WOut \in Nat
    /\ NStrm > 0 /\ WIn > 0 /\ WOut > 0
    /\ Chunk = NStrm * WOut /\ Chunk \in Nat /\ Chunk > 0
<1>1. /\ NStrm \in Nat /\ WIn \in Nat /\ WOut \in Nat
      /\ NStrm > 0 /\ WIn > 0 /\ WOut > 0
  BY ScatterAssumption DEF ScatterAssumption
<1>2. \A x, y \in Nat : x > 0 /\ y > 0 => x * y \in Nat /\ x * y > 0
  OBVIOUS
<1> QED
  BY <1>1, <1>2 DEF Chunk

LEMMA LcmIs ==
    ASSUME NEW a \in Nat, NEW b \in Nat, a > 0, b > 0
    PROVE  Lcm(a, b) \in Nat /\ Lcm(a, b) > 0 /\ Lcm(a, b) % a = 0 /\ Lcm(a, b) % b = 0
<1> DEFINE T == {m \in 1..a * b : m % a = 0 /\ m % b = 0}
<1>1. a * b \in Nat /\ a * b > 0
  <2>1. \A x, y \in Nat : x > 0 /\ y > 0 => x * y \in Nat /\ x * y > 0
    OBVIOUS
  <2> QED
    BY <2>1
<1>2. (a * b) % a = 0 /\ (a * b) % b = 0
  <2>1. \A x, y \in Nat : y > 0 => (x * y) % y = 0
    <3> SUFFICES ASSUME NEW x \in Nat, NEW y \in Nat, y > 0 PROVE (x * y) % y = 0
      OBVIOUS
    <3>1. ((x * y) + 0) % y = 0 % y /\ 0 % y = 0
      BY RemainderAdd, RemainderSmall
    <3>2. (x * y) + 0 = x * y
      OBVIOUS
    <3> QED
      BY <3>1, <3>2
  <2>2. a * b = b * a
    OBVIOUS
  <2> QED
    BY <2>1, <2>2
<1> DEFINE n == a * b
<1>3. n \in T
  BY <1>1, <1>2
<1>4. T \in SUBSET Nat /\ T # {}
  BY <1>1, <1>3
<1> HIDE DEF n
<1>5. PICK m \in T : \A k \in T : m <= k
  <2> HIDE DEF T
  <2> QED
    BY <1>4, Smallest
<1>6. \A k \in 1..m - 1 : k % a # 0 \/ k % b # 0
  <2> SUFFICES ASSUME NEW k \in 1..m - 1, k % a = 0, k % b = 0 PROVE FALSE
    OBVIOUS
  <2>1. k \in 1..n /\ ~(m <= k)
    BY <1>1, <1>5 DEF n
  <2> QED
    BY <1>5, <2>1 DEF n
<1> DEFINE P(c) == /\ c % a = 0 /\ c % b = 0
                   /\ \A k \in 1..c - 1 : k % a # 0 \/ k % b # 0
<1>7. m \in 1..a * b /\ P(m)
  BY <1>6
<1>8. Lcm(a, b) = CHOOSE c \in 1..a * b : P(c)
  BY DEF Lcm
<1>9. Lcm(a, b) \in 1..a * b /\ P(Lcm(a, b))
  <2> HIDE DEF P
  <2> QED
    BY <1>7, <1>8
<1> QED
  BY <1>1, <1>9

(* A buffer is a number of input words and a number of chunks.             *)
LEMMA WideIs ==
    \E w, c \in Nat : /\ w > 0 /\ c > 0 /\ Wide = w * WIn /\ Wide = c * Chunk
                      /\ Wide \div WIn = w /\ Wide \div Chunk = c
<1>1. Wide \in Nat /\ Wide > 0 /\ Wide % WIn = 0 /\ Wide % Chunk = 0
  BY Constants, LcmIs DEF Wide
<1>2. \A x, y \in Nat : y > 0 /\ x > 0 /\ x % y = 0 =>
          x \div y \in Nat /\ x \div y > 0 /\ x = (x \div y) * y
  <2> SUFFICES ASSUME NEW x \in Nat, NEW y \in Nat, y > 0, x > 0, x % y = 0
               PROVE  x \div y \in Nat /\ x \div y > 0 /\ x = (x \div y) * y
    OBVIOUS
  <2> DEFINE q == x \div y
  <2>1. q \in Nat /\ x = (q * y) + 0
    BY Division
  <2> HIDE DEF q
  <2>2. x = q * y /\ 0 * y = 0
    BY <2>1
  <2>3. q # 0
    BY <2>2
  <2> QED
    BY <2>1, <2>2, <2>3 DEF q
<1> QED
  BY <1>1, <1>2, Constants

LEMMA SliceIs ==
    ASSUME NEW m \in Nat, NEW s \in [1..m -> Nat], NEW from \in Nat, NEW n \in Nat, from + n <= m
    PROVE  /\ Slice(s, from, n) \in [1..n -> Nat]
           /\ \A u \in 1..n : Slice(s, from, n)[u] = s[from + u]
<1> DEFINE l == from + n
           p == [k \in 1..l |-> IF k \in DOMAIN s THEN s[k] ELSE Junk]
<1>1. l \in Nat /\ DOMAIN s = 1..m /\ \A k \in 1..l : p[k] = s[k] /\ s[k] \in Nat
  OBVIOUS
<1>2. Slice(s, from, n) = SubSeq(p, from + 1, l)
  BY DEF Slice, Padded
<1> HIDE DEF p
<1>3. \A i \in from + 1..l : i \in 1..l
  BY <1>1
<1>4. \A i \in from + 1..l : p[i] \in Nat
  BY <1>1, <1>3
<1>5. from + 1 \in Int /\ l \in Int /\ l - (from + 1) + 1 = n
  BY <1>1
<1> DEFINE f == from + 1
           x == SubSeq(p, f, l)
<1> HIDE DEF f
<1>6. /\ x \in Seq(Nat) /\ Len(x) = IF f <= l THEN l - f + 1 ELSE 0
      /\ \A i \in 1..l - f + 1 : x[i] = p[f + i - 1]
  BY <1>4, <1>5, SubSeqProperties DEF f
<1> HIDE DEF x
<1>7. Len(x) = n /\ \A i \in 1..n : x[i] = p[from + i]
  <2>1. f + 0 = from + 1 /\ l - f + 1 = n /\ (~(f <= l) => n = 0)
    BY <1>1, <1>5 DEF f
  <2>2. \A i \in 1..n : f + i - 1 = from + i
    BY DEF f
  <2> QED
    BY <1>6, <2>1, <2>2
<1>8. \A i \in 1..n : from + i \in 1..l
  BY <1>1
<1>9. x = [i \in 1..n |-> x[i]]
  BY <1>6, <1>7
<1>10. \A i \in 1..n : x[i] = s[from + i]
  BY <1>1, <1>7, <1>8
<1>11. Slice(s, from, n) = x
  BY <1>2 DEF x, f
<1>12. x \in [1..n -> Nat]
  BY <1>6, <1>7, <1>9
<1> QED
  BY <1>10, <1>11, <1>12

(* Every place of the buffers holds the unit of the input that is due, or  *)
(* nothing when the input is at its end.                                   *)
LEMMA ReadIs ==
    ASSUME call \in Nat, NEW w \in Nat, w > 0, Wide = w * WIn, Wide \div WIn = w
    PROVE  /\ Read(call).left = call % w
           /\ Read(call).bufs \in Seq([1..Wide -> Nat])
           /\ Len(Read(call).bufs) = (call \div w) + 1
           /\ \A b \in 1..(call \div w) + 1 : \A u \in 1..Wide :
                Read(call).bufs[b][u] = Unit(((b - 1) * Wide) + u)
           /\ call * WIn = ((call \div w) * Wide) + ((call % w) * WIn)
           /\ (call % w) * WIn < Wide
<1> DEFINE full == call \div w
           left == call % w
           rest == left * WIn
           start == full * Wide
           units(from, n) == [k \in 1..n |-> from + k]
           Buf(b) == IF b <= full THEN units((b - 1) * Wide, Wide)
                     ELSE Padded(units(start, rest), Wide)
           bufs == [b \in 1..full + 1 |-> Buf(b)]
<1>1. Read(call).left = left /\ Read(call).bufs = bufs
  BY DEF Read
<1>2. /\ full \in Nat /\ left \in Nat /\ left < w /\ call = (full * w) + left
  BY Division
<1>3. Wide \in Nat /\ WIn \in Nat /\ WIn > 0
  <2>1. w * WIn \in Nat
    BY Constants
  <2> QED
    BY <2>1, Constants
<1> HIDE DEF full, left
<1>4. rest \in Nat /\ rest < Wide /\ start \in Nat /\ call * WIn = start + rest
  <2>1. rest \in Nat /\ rest + WIn <= w * WIn
    BY <1>2, <1>3, ProductsOrdered
  <2>2. ((full * w) + left) * WIn = (full * (w * WIn)) + (left * WIn)
    BY <1>2, <1>3
  <2>3. start \in Nat
    BY <1>2, <1>3
  <2>4. rest < Wide
    BY <2>1, <1>3
  <2> QED
    BY <2>1, <2>2, <2>3, <2>4, <1>2
<1> DEFINE total == call * WIn
<1> HIDE DEF rest, start
<1>5. ASSUME NEW b \in 1..full + 1
      PROVE  /\ Buf(b) \in [1..Wide -> Nat]
             /\ \A u \in 1..Wide : Buf(b)[u] = Unit(((b - 1) * Wide) + u)
  <2> DEFINE before == (b - 1) * Wide
  <2>1. b \in Nat /\ b - 1 \in Nat /\ before \in Nat
    BY <1>2, <1>3
  <2>2. CASE b <= full
    <3>1. Buf(b) = [k \in 1..Wide |-> before + k]
      BY <2>2
    <3>2. before + Wide <= start
      BY <2>1, <2>2, <1>2, <1>3, ProductsOrdered DEF start
    <3> HIDE DEF before, Buf
    <3>3. \A k \in 1..Wide : before + k \in Nat /\ before + k <= total
      BY <2>1, <3>2, <1>3, <1>4
    <3>4. \A u \in 1..Wide : Buf(b)[u] = before + u
      BY <3>1
    <3>5. Buf(b) \in [1..Wide -> Nat]
      BY <3>1, <3>3
    <3> QED
      BY <3>3, <3>4, <3>5 DEF Unit, before
  <2>3. CASE ~(b <= full)
    <3>1. b - 1 = full /\ before = start
      BY <2>3, <1>2 DEF start
    <3>2. Buf(b) = [k \in 1..Wide |-> IF k \in 1..rest THEN start + k ELSE Junk]
      <4> DEFINE s == units(start, rest)
      <4>1. Buf(b) = [k \in 1..Wide |-> IF k \in DOMAIN s THEN s[k] ELSE Junk]
        BY <2>3 DEF Padded
      <4>2. DOMAIN s = 1..rest /\ \A k \in 1..rest : s[k] = start + k
        OBVIOUS
      <4> HIDE DEF s, Buf
      <4> QED
        BY <4>1, <4>2
    <3> HIDE DEF before, Buf
    <3>3. \A k \in 1..Wide : k \in 1..rest <=> start + k <= total
      BY <1>3, <1>4
    <3>4. \A k \in 1..Wide : start + k \in Nat
      BY <1>3, <1>4
    <3>5. Buf(b) \in [1..Wide -> Nat]
      BY <3>2, <3>4 DEF Junk
    <3>6. \A u \in 1..Wide : Buf(b)[u] = Unit(start + u)
      BY <3>2, <3>3 DEF Unit
    <3> QED
      BY <3>1, <3>5, <3>6 DEF before
  <2> QED
    BY <2>2, <2>3
<1> HIDE DEF Buf
<1>6. bufs \in [1..full + 1 -> [1..Wide -> Nat]]
  BY <1>5
<1>7. \A b \in 1..full + 1 : \A u \in 1..Wide : bufs[b][u] = Unit(((b - 1) * Wide) + u)
  BY <1>5
<1> HIDE DEF bufs
<1>8. bufs \in Seq([1..Wide -> Nat]) /\ Len(bufs) = full + 1
  <2>1. \A S : \A l \in Nat : \A s \in [1..l -> S] : s \in Seq(S) /\ Len(s) = l
    OBVIOUS
  <2>2. full + 1 \in Nat
    BY <1>2
  <2> QED
    BY <2>1, <2>2, <1>6
<1> QED
  BY <1>1, <1>4, <1>7, <1>8 DEF full, left, rest, start

Cut(buf, n) == [k \in 1..n |-> Slice(buf, (k - 1) * Chunk, Chunk)]

Buffers == [1..Wide -> Nat]
Words == [1..Chunk -> Nat]

(* s is the first n chunks of buf.                                         *)
IsCut(s, buf, n) ==
    /\ s \in Seq(Words) /\ Len(s) = n
    /\ \A k \in 1..n : \A u \in 1..Chunk :
         /\ s[k][u] = buf[((k - 1) * Chunk) + u]
         /\ ((k - 1) * Chunk) + u \in 1..Wide

LEMMA CutIs ==
    ASSUME NEW buf \in Buffers, NEW n \in Nat, n * Chunk <= Wide, Wide \in Nat
    PROVE  IsCut(Cut(buf, n), buf, n)
<1> DEFINE s == Cut(buf, n)
<1>b. buf \in [1..Wide -> Nat]
  BY DEF Buffers
<1>0. Chunk \in Nat /\ Chunk > 0
  BY Constants
<1>1. ASSUME NEW k \in 1..n
      PROVE  /\ s[k] \in [1..Chunk -> Nat]
             /\ \A u \in 1..Chunk : /\ s[k][u] = buf[((k - 1) * Chunk) + u]
                                    /\ ((k - 1) * Chunk) + u \in 1..Wide
  <2> DEFINE from == (k - 1) * Chunk
  <2>1. k - 1 \in Nat /\ k - 1 < n
    OBVIOUS
  <2>2. from \in Nat /\ from + Chunk <= Wide
    <3> DEFINE m == k - 1
    <3> HIDE DEF m
    <3>1. m \in Nat /\ m < n
      BY <2>1 DEF m
    <3>2. (m * Chunk) + Chunk <= n * Chunk /\ m * Chunk \in Nat /\ n * Chunk \in Nat
      BY <3>1, <1>0, ProductsOrdered
    <3>3. (m * Chunk) + Chunk <= Wide
      BY <3>2, <1>0
    <3> QED
      BY <3>2, <3>3 DEF m
  <2>3. s[k] = Slice(buf, from, Chunk)
    BY DEF Cut
  <2> HIDE DEF from, s
  <2>4. s[k] \in [1..Chunk -> Nat] /\ \A u \in 1..Chunk : s[k][u] = buf[from + u]
    <3>1. /\ Slice(buf, from, Chunk) \in [1..Chunk -> Nat]
          /\ \A u \in 1..Chunk : Slice(buf, from, Chunk)[u] = buf[from + u]
      <4>1. Chunk \in Nat /\ Wide \in Nat /\ from \in Nat /\ from + Chunk <= Wide
        BY <2>2, <1>0
      <4> QED
        BY <4>1, <1>b, SliceIs, ZenonT(30)
    <3> QED
      BY <2>3, <3>1
  <2>5. \A u \in 1..Chunk : from + u \in 1..Wide
    BY <2>2, <1>0
  <2> QED
    BY <2>4, <2>5 DEF from
<1>3. s \in [1..n -> [1..Chunk -> Nat]]
  <2>1. s = [k \in 1..n |-> s[k]]
    BY DEF Cut
  <2> HIDE DEF s
  <2> QED
    BY <1>1, <2>1
<1> HIDE DEF s
<1>4. \A S : \A l \in Nat : \A t \in [1..l -> S] : t \in Seq(S) /\ Len(t) = l
  OBVIOUS
<1>5. s \in Seq([1..Chunk -> Nat]) /\ Len(s) = n
  BY <1>3, <1>4
<1>6. s \in Seq(Words)
  BY <1>5 DEF Words
<1> QED
  BY <1>1, <1>5, <1>6 DEF IsCut, s

LEMMA ChunksAre ==
    ASSUME call \in Nat
    PROVE  /\ Full \in Nat
           /\ Chunks \in Seq([1..Chunk -> Nat]) /\ Len(Chunks) = Full + 1
           /\ \A x \in 1..Full + 1 : \A u \in 1..Chunk :
                Chunks[x][u] = Unit(((x - 1) * Chunk) + u)
           /\ LeftN = Total - (Full * NStrm)
<1>0. Chunk \in Nat /\ Chunk > 0 /\ NStrm \in Nat /\ WOut \in Nat /\ WOut > 0
  BY Constants
<1>1. PICK w, c \in Nat : /\ w > 0 /\ c > 0 /\ Wide = w * WIn /\ Wide = c * Chunk
                          /\ Wide \div WIn = w /\ Wide \div Chunk = c
  BY WideIs
<1> DEFINE full == call \div w
           left == call % w
           rest == left * WIn
           rd == Read(call)
           whole == rest \div Chunk
           A == [b \in 1..full |-> Cut(rd.bufs[b], c)]
           B == Cut(rd.bufs[full + 1], whole + 1)
           T == Words
<1>2. /\ rd.left = left /\ rd.bufs \in Seq([1..Wide -> Nat]) /\ Len(rd.bufs) = full + 1
      /\ \A b \in 1..full + 1 : \A u \in 1..Wide : rd.bufs[b][u] = Unit(((b - 1) * Wide) + u)
      /\ call * WIn = (full * Wide) + rest /\ rest < Wide
  BY <1>1, ReadIs
<1>3. full \in Nat /\ left \in Nat
  BY <1>1, Division
<1>4. Wide \in Nat /\ rest \in Nat
  BY <1>1, <1>3, Constants
<1>5. /\ Chunks = FlattenSeq(A) \o B
      /\ LeftN = (rest \div WOut) - (whole * NStrm)
  <2>1. (full + 1) - 1 = full
    BY <1>3
  <2> HIDE DEF rd, full, left
  <2> QED
    BY <1>1, <1>2, <2>1 DEF Chunks, LeftN, Reduce, Cut, rd
<1> HIDE DEF full, left, rest, rd
<1>6. whole \in Nat /\ whole * Chunk <= rest /\ rest < (whole * Chunk) + Chunk
  <2>1. whole * Chunk \in Nat
    BY <1>4, <1>0, Division
  <2> QED
    BY <1>4, <1>0, <2>1, Division
<1> HIDE DEF whole
<1>7. whole + 1 <= c /\ (whole + 1) * Chunk <= Wide
  <2>1. whole < c
    <3>1. c <= whole => c * Chunk <= whole * Chunk
      BY <1>0, <1>1, <1>6, ProductsOrdered
    <3>2. whole * Chunk \in Nat
      BY <1>0, <1>6
    <3> QED
      BY <3>1, <3>2, <1>1, <1>2, <1>4, <1>6
  <2>2. whole + 1 <= c /\ whole + 1 \in Nat
    BY <2>1, <1>1, <1>6
  <2> QED
    BY <2>2, <1>0, <1>1, ProductsOrdered
<1>8. \A b \in 1..full + 1 : rd.bufs[b] \in [1..Wide -> Nat]
  BY <1>2
<1>9. ASSUME NEW b \in 1..full
      PROVE  /\ A[b] \in Seq(T) /\ Len(A[b]) = c
             /\ \A k \in 1..c : \A u \in 1..Chunk :
                  A[b][k][u] = Unit(((((b - 1) * c) + k - 1) * Chunk) + u)
  <2>0. b \in 1..full + 1 /\ b \in Nat
    BY <1>3
  <2> DEFINE buf == rd.bufs[b]
  <2> DEFINE s == Cut(buf, c)
  <2>1. c * Chunk <= Wide /\ buf \in [1..Wide -> Nat]
    BY <2>0, <1>1, <1>4, <1>8
  <2>2. /\ s \in Seq(T) /\ Len(s) = c
        /\ \A k \in 1..c : \A u \in 1..Chunk :
             s[k][u] = buf[((k - 1) * Chunk) + u] /\ ((k - 1) * Chunk) + u \in 1..Wide
    <3> HIDE DEF buf
    <3> QED
      BY <2>1, <1>1, <1>4, CutIs DEF IsCut, Buffers
  <2>3. A[b] = s
    OBVIOUS
  <2> HIDE DEF A, s
  <2>4. ASSUME NEW k \in 1..c, NEW u \in 1..Chunk
        PROVE  s[k][u] = Unit(((((b - 1) * c) + k - 1) * Chunk) + u)
    <3> DEFINE v == ((k - 1) * Chunk) + u
    <3>1. s[k][u] = buf[v] /\ v \in 1..Wide
      BY <2>2
    <3>2. buf[v] = Unit(((b - 1) * Wide) + v)
      BY <2>0, <3>1, <1>2
    <3>3. ((b - 1) * (c * Chunk)) + (((k - 1) * Chunk) + u)
             = ((((b - 1) * c) + k - 1) * Chunk) + u
      BY <2>0, <1>0, <1>1
    <3> QED
      BY <3>1, <3>2, <3>3, <1>1
  <2> QED
    BY <2>2, <2>3, <2>4
<1>10. /\ B \in Seq(T) /\ Len(B) = whole + 1
       /\ \A k \in 1..whole + 1 : \A u \in 1..Chunk :
            B[k][u] = Unit((((full * c) + k - 1) * Chunk) + u)
  <2>0. full + 1 \in 1..full + 1 /\ (full + 1) - 1 = full
    BY <1>3
  <2> DEFINE buf == rd.bufs[full + 1]
             n == whole + 1
  <2> DEFINE s == Cut(buf, n)
  <2>1. buf \in [1..Wide -> Nat] /\ n \in Nat /\ n * Chunk <= Wide
    BY <2>0, <1>6, <1>7, <1>8
  <2>3. B = s
    OBVIOUS
  <2>2. /\ B \in Seq(T) /\ Len(B) = whole + 1
        /\ \A k \in 1..whole + 1 : \A u \in 1..Chunk :
             B[k][u] = buf[((k - 1) * Chunk) + u] /\ ((k - 1) * Chunk) + u \in 1..Wide
    <3> HIDE DEF buf, n, B
    <3>1. /\ s \in Seq(T) /\ Len(s) = n
          /\ \A k \in 1..n : \A u \in 1..Chunk :
               s[k][u] = buf[((k - 1) * Chunk) + u] /\ ((k - 1) * Chunk) + u \in 1..Wide
      BY <2>1, <1>4, CutIs DEF IsCut, Buffers
    <3> QED
      BY <2>3, <3>1 DEF n
  <2> HIDE DEF B
  <2>4. ASSUME NEW k \in 1..whole + 1, NEW u \in 1..Chunk
        PROVE  B[k][u] = Unit((((full * c) + k - 1) * Chunk) + u)
    <3> DEFINE v == ((k - 1) * Chunk) + u
    <3>1. B[k][u] = buf[v] /\ v \in 1..Wide
      BY <2>2
    <3>2. buf[v] = Unit((full * Wide) + v)
      BY <2>0, <3>1, <1>2
    <3>3. (full * (c * Chunk)) + (((k - 1) * Chunk) + u)
             = (((full * c) + k - 1) * Chunk) + u
      BY <1>0, <1>1, <1>3
    <3> QED
      BY <3>1, <3>2, <3>3, <1>1
  <2> QED
    BY <2>2, <2>4
<1> DEFINE F == FlattenSeq(A)
<1>11. A \in Seq(Seq(T)) /\ Len(A) = full
  <2>1. A \in [1..full -> Seq(T)]
    <3>1. A = [b \in 1..full |-> A[b]]
      OBVIOUS
    <3> HIDE DEF A
    <3> QED
      BY <3>1, <1>9
  <2>2. \A S : \A l \in Nat : \A s \in [1..l -> S] : s \in Seq(S) /\ Len(s) = l
    OBVIOUS
  <2> HIDE DEF A
  <2> QED
    BY <2>1, <2>2, <1>3
<1> HIDE DEF A, B, T
<1>12. /\ F \in Seq(T) /\ Len(F) = full * c
       /\ \A b \in 1..full : \A k \in 1..c : F[((b - 1) * c) + k] = A[b][k]
  <2>1. \A b \in 1..Len(A) : Len(A[b]) = c
    BY <1>9, <1>11
  <2>2. /\ F \in Seq(T) /\ Len(F) = Len(A) * c
        /\ \A b \in 1..Len(A) : \A k \in 1..c : F[((b - 1) * c) + k] = A[b][k]
    <3>1. A \in Seq(Seq(T)) /\ c \in Nat
      BY <1>1, <1>11
    <3> QED
      BY <3>1, <2>1, FlattenEven, ZenonT(30)
  <2> QED
    BY <2>2, <1>11
<1> DEFINE n == full * c
<1>13. n \in Nat /\ Full = n + whole
  <2>1. n \in Nat
    BY <1>1, <1>3
  <2>2. (full * (c * Chunk)) = n * Chunk
    BY <1>0, <1>1, <1>3
  <2>3. call * WIn = (n * Chunk) + rest
    BY <2>2, <1>1, <1>2
  <2>4. ((n * Chunk) + rest) \div Chunk = n + (rest \div Chunk)
    BY <2>1, <1>0, <1>4, QuotientAdd
  <2> QED
    BY <2>1, <2>3, <2>4 DEF Full, whole
<1> HIDE DEF F
<1>14. \A x \in 1..n : \A u \in 1..Chunk : F[x][u] = Unit(((x - 1) * Chunk) + u)
  <2> SUFFICES ASSUME NEW x \in 1..n, NEW u \in 1..Chunk
               PROVE  F[x][u] = Unit(((x - 1) * Chunk) + u)
    OBVIOUS
  <2> DEFINE q == (x - 1) \div c
             r == (x - 1) % c
             b == q + 1
             k == r + 1
  <2>0. x \in Nat /\ x - 1 \in Nat /\ x - 1 < n
    BY <1>13
  <2>1. q \in Nat /\ r \in Nat /\ r < c /\ x - 1 = (q * c) + r
    BY <2>0, <1>1, Division
  <2> HIDE DEF q, r
  <2>2. q < full
    <3>1. full <= q => full * c <= q * c
      BY <2>1, <1>1, <1>3, ProductsOrdered
    <3>2. q * c \in Nat
      BY <2>1, <1>1
    <3> QED
      BY <3>1, <3>2, <2>0, <2>1, <1>3, <1>13
  <2>3. b \in 1..full /\ k \in 1..c /\ b - 1 = q
    BY <2>1, <2>2, <1>1, <1>3
  <2>4. ((b - 1) * c) + k = x
    <3>1. q * c \in Nat
      BY <2>1, <1>1
    <3> QED
      BY <2>0, <2>1, <2>3, <3>1
  <2> HIDE DEF b, k
  <2> DEFINE y == ((b - 1) * c) + k - 1
  <2>5. F[x] = A[b][k]
    BY <2>3, <2>4, <1>12
  <2>6. A[b][k][u] = Unit((y * Chunk) + u)
    BY <2>3, <1>9, Zenon
  <2>7. y = x - 1
    BY <2>0, <2>1, <2>3, <1>1 DEF k
  <2> HIDE DEF y
  <2> QED
    BY <2>5, <2>6, <2>7
<1>15. /\ F \o B \in Seq(T) /\ Len(F \o B) = n + (whole + 1)
       /\ \A x \in 1..n + (whole + 1) : (F \o B)[x] = IF x <= n THEN F[x] ELSE B[x - n]
  <2>1. F \in Seq(T) /\ B \in Seq(T) /\ Len(F) = n /\ Len(B) = whole + 1
    BY <1>10, <1>12
  <2> HIDE DEF n
  <2>2. /\ F \o B \in Seq(T) /\ Len(F \o B) = Len(F) + Len(B)
        /\ \A x \in 1..Len(F) + Len(B) :
             (F \o B)[x] = IF x <= Len(F) THEN F[x] ELSE B[x - Len(F)]
    BY <2>1, ConcatProperties, Zenon
  <2> QED
    BY <2>1, <2>2
<1>16. Chunks \in Seq(T) /\ Len(Chunks) = Full + 1
  <2>1. n + (whole + 1) = (n + whole) + 1
    BY <1>6, <1>13
  <2> QED
    BY <2>1, <1>5, <1>13, <1>15 DEF F
<1>17. Chunks = F \o B
  BY <1>5 DEF F
<1> HIDE DEF n
<1>18. ASSUME NEW x \in 1..Full + 1, NEW u \in 1..Chunk
       PROVE  Chunks[x][u] = Unit(((x - 1) * Chunk) + u)
  <2>1. x \in 1..n + (whole + 1) /\ x \in Nat
    BY <1>6, <1>13
  <2>2. CASE x <= n
    BY <2>1, <2>2, <1>14, <1>15, <1>17, <1>13
  <2>3. CASE ~(x <= n)
    <3> DEFINE k == x - n
    <3>1. k \in 1..whole + 1 /\ n + k = x
      BY <2>1, <2>3, <1>13, <1>6
    <3>2. Chunks[x] = B[k]
      BY <2>1, <2>3, <1>15, <1>17
    <3> HIDE DEF k
    <3> DEFINE y == (full * c) + k - 1
    <3> HIDE DEF k
    <3>3. B[k][u] = Unit((y * Chunk) + u)
      BY <3>1, <1>10, Zenon
    <3>4. y = x - 1
      BY <3>1, <1>1, <1>3 DEF n
    <3> HIDE DEF y
    <3> QED
      BY <3>2, <3>3, <3>4
  <2> QED
    BY <2>2, <2>3
<1>19. LeftN = Total - (Full * NStrm)
  <2>1. full * (c * (NStrm * WOut)) = (n * NStrm) * WOut
    BY <1>0, <1>1, <1>3 DEF n
  <2>2. call * WIn = ((n * NStrm) * WOut) + rest
    BY <2>1, <1>1, <1>2, Constants
  <2>3. n * NStrm \in Nat
    BY <1>0, <1>13
  <2>4. (((n * NStrm) * WOut) + rest) \div WOut = (n * NStrm) + (rest \div WOut)
    BY <2>3, <1>0, <1>4, QuotientAdd
  <2>5. Total = (n * NStrm) + (rest \div WOut)
    BY <2>2, <2>4 DEF Total
  <2>6. (n + whole) * NStrm = (n * NStrm) + (whole * NStrm) /\ whole * NStrm \in Nat
    BY <1>0, <1>6, <1>13
  <2>7. rest \div WOut \in Nat
    BY <1>0, <1>4, Division
  <2> DEFINE y == rest \div WOut
             a == n * NStrm
             b == whole * NStrm
  <2>8. /\ LeftN = y - b /\ Total = a + y /\ Full * NStrm = a + b
        /\ a \in Nat /\ b \in Nat /\ y \in Nat
    BY <2>3, <2>5, <2>6, <2>7, <1>5, <1>13
  <2> HIDE DEF y, a, b
  <2> QED
    BY <2>8
<1> QED
  BY <1>13, <1>6, <1>16, <1>18, <1>19 DEF T, Words

LEMMA LeftIs ==
    ASSUME call \in Nat
    PROVE  LeftN \in 0..NStrm - 1 /\ Total \in Nat /\ Full * NStrm \in Nat
<1> DEFINE units == call * WIn
           a == Full * NStrm
<1>0. Chunk \in Nat /\ Chunk > 0 /\ NStrm \in Nat /\ NStrm > 0 /\ WOut \in Nat /\ WOut > 0
  BY Constants
<1>1. units \in Nat
  BY Constants
<1>2. /\ Full \in Nat /\ Full * Chunk <= units /\ units < (Full * Chunk) + Chunk
      /\ Total \in Nat /\ Total * WOut <= units /\ units < (Total * WOut) + WOut
  <2>1. /\ units \div Chunk \in Nat /\ units % Chunk \in Nat /\ units % Chunk < Chunk
        /\ units = ((units \div Chunk) * Chunk) + (units % Chunk)
    BY <1>0, <1>1, Division
  <2>2. /\ units \div WOut \in Nat /\ units % WOut \in Nat /\ units % WOut < WOut
        /\ units = ((units \div WOut) * WOut) + (units % WOut)
    BY <1>0, <1>1, Division
  <2> HIDE DEF units
  <2>3. Full = units \div Chunk /\ Total = units \div WOut
    BY DEF Full, Total, units
  <2> HIDE DEF Full, Total
  <2>4. Full * Chunk \in Nat /\ Total * WOut \in Nat
    <3>1. \A x, y \in Nat : x * y \in Nat
      OBVIOUS
    <3> QED
      BY <2>1, <2>2, <2>3, <3>1, <1>0
  <2> DEFINE f == Full * Chunk
             t == Total * WOut
  <2>5. /\ units = f + (units % Chunk) /\ units = t + (units % WOut)
        /\ f \in Nat /\ t \in Nat
        /\ units % Chunk \in Nat /\ units % Chunk < Chunk
        /\ units % WOut \in Nat /\ units % WOut < WOut
    BY <2>1, <2>2, <2>3, <2>4
  <2> HIDE DEF f, t
  <2>6. f <= units /\ units < f + Chunk /\ t <= units /\ units < t + WOut
    BY <2>5, <1>0
  <2> QED
    BY <2>1, <2>2, <2>3, <2>6 DEF f, t
<1>3. /\ Full * (NStrm * WOut) = a * WOut
      /\ (a + NStrm) * WOut = (Full * (NStrm * WOut)) + (NStrm * WOut)
  BY <1>0, <1>2
<1>4. a \in Nat /\ a * WOut \in Nat /\ Total * WOut \in Nat /\ (a + NStrm) * WOut \in Nat
  BY <1>0, <1>2
<1>5. a * WOut <= units /\ units < (a + NStrm) * WOut
  BY <1>2, <1>3, Constants
<1> HIDE DEF a, units
<1>6. Total < a => (Total * WOut) + WOut <= a * WOut
  BY <1>0, <1>2, <1>4, ProductsOrdered
<1>7. a + NStrm <= Total => (a + NStrm) * WOut <= Total * WOut
  <2>1. a + NStrm \in Nat
    BY <1>0, <1>4
  <2> QED
    BY <2>1, <1>0, <1>2, ProductsOrdered
<1>8. a <= Total /\ Total < a + NStrm
  BY <1>0, <1>1, <1>2, <1>4, <1>5, <1>6, <1>7
<1>9. LeftN = Total - a
  BY ChunksAre DEF a
<1> QED
  BY <1>0, <1>2, <1>4, <1>8, <1>9 DEF a

-----------------------------------------------------------------------------
(* The elements.                                                           *)

El(x) == [u \in 1..WOut |-> ((x - 1) * WOut) + u]
Elem == [1..WOut -> Nat]
Group == [1..NStrm -> Elem]

LEMMA ElTyped ==
    ASSUME NEW x \in Nat, x > 0
    PROVE  El(x) \in Elem
<1>1. x - 1 \in Nat /\ WOut \in Nat
  BY Constants
<1>2. (x - 1) * WOut \in Nat
  BY <1>1
<1> QED
  BY <1>1, <1>2 DEF El, Elem

LEMMA ElInjective ==
    ASSUME NEW x \in Nat, NEW y \in Nat, x > 0, y > 0, El(x) = El(y)
    PROVE  x = y
<1> DEFINE a == x - 1
           b == y - 1
<1>1. a \in Nat /\ b \in Nat /\ WOut \in Nat /\ WOut > 0 /\ 1 \in 1..WOut
  BY Constants
<1>2. El(x)[1] = (a * WOut) + 1 /\ El(y)[1] = (b * WOut) + 1
  BY <1>1 DEF El
<1> HIDE DEF a, b
<1>3. a * WOut \in Nat /\ b * WOut \in Nat
  BY <1>1, ProductsOrdered
<1>4. a * WOut = b * WOut
  BY <1>2, <1>3
<1>5. (a < b => (a * WOut) + WOut <= b * WOut) /\ (b < a => (b * WOut) + WOut <= a * WOut)
  BY <1>1, ProductsOrdered
<1>6. a = b
  BY <1>1, <1>3, <1>4, <1>5
<1> QED
  BY <1>6 DEF a, b

LEMMA ElementsTyped ==
    ASSUME NEW c \in Words
    PROVE  /\ Elements(c) \in Group
           /\ \A e \in 1..NStrm : \A u \in 1..WOut :
                Elements(c)[e][u] = c[((e - 1) * WOut) + u]
<1>0. NStrm \in Nat /\ WOut \in Nat /\ Chunk = NStrm * WOut /\ Chunk \in Nat
  BY Constants
<1>b. c \in [1..Chunk -> Nat]
  BY DEF Words
<1>1. ASSUME NEW e \in 1..NStrm
      PROVE  /\ Elements(c)[e] \in Elem
             /\ \A u \in 1..WOut : Elements(c)[e][u] = c[((e - 1) * WOut) + u]
  <2> DEFINE d == e - 1
             from == d * WOut
  <2>1. d \in Nat /\ d < NStrm
    BY <1>0
  <2>2. Elements(c)[e] = Slice(c, from, WOut)
    BY DEF Elements
  <2> HIDE DEF d
  <2>3. from \in Nat /\ from + WOut <= Chunk
    BY <2>1, <1>0, ProductsOrdered
  <2> HIDE DEF from
  <2>4. /\ Slice(c, from, WOut) \in [1..WOut -> Nat]
        /\ \A u \in 1..WOut : Slice(c, from, WOut)[u] = c[from + u]
    <3>1. Chunk \in Nat /\ WOut \in Nat
      BY <1>0
    <3> QED
      BY <2>3, <3>1, <1>b, SliceIs
  <2> QED
    BY <2>2, <2>4 DEF Elem, from, d
<1>2. Elements(c) \in Group
  <2>1. Elements(c) = [e \in 1..NStrm |-> Elements(c)[e]]
    BY DEF Elements
  <2> QED
    BY <2>1, <1>1 DEF Group
<1> QED
  BY <1>1, <1>2

(* The e-th element of the x-th chunk, when the input has that many.       *)
LEMMA ElementIs ==
    ASSUME call \in Nat, NEW x \in 1..Full + 1, NEW e \in 1..NStrm,
           ((x - 1) * NStrm) + e <= Total
    PROVE  Elements(Chunks[x])[e] = El(((x - 1) * NStrm) + e)
<1> DEFINE z == x - 1
           d == e - 1
           y == (z * NStrm) + d
           c == Chunks[x]
<1>0. NStrm \in Nat /\ WOut \in Nat /\ WOut > 0 /\ Chunk = NStrm * WOut /\ Chunk \in Nat
  BY Constants
<1>1. /\ Full \in Nat /\ Total \in Nat /\ c \in Words
      /\ \A u \in 1..Chunk : c[u] = Unit((z * Chunk) + u)
  <2>1. Full \in Nat /\ Len(Chunks) = Full + 1 /\ Chunks \in Seq(Words)
    BY ChunksAre DEF Words
  <2> QED
    BY <2>1, ChunksAre, LeftIs
<1>2. z \in Nat /\ d \in Nat /\ x = z + 1 /\ e = d + 1 /\ d < NStrm
  BY <1>0, <1>1
<1> HIDE DEF z, d
<1>3. y \in Nat /\ ((x - 1) * NStrm) + e = y + 1 /\ y + 1 <= Total
  <2>1. z * NStrm \in Nat /\ x - 1 = z
    BY <1>0, <1>2
  <2> QED
    BY <2>1, <1>2
<1>4. Elements(c) \in Group /\ \A u \in 1..WOut : Elements(c)[e][u] = c[(d * WOut) + u]
  <2> HIDE DEF c
  <2>1. e - 1 = d
    BY <1>2
  <2> QED
    BY <1>1, <2>1, ElementsTyped
<1>5. Elements(c)[e] \in Elem
  BY <1>4 DEF Group
<1> HIDE DEF c
<1>6. ASSUME NEW u \in 1..WOut PROVE Elements(c)[e][u] = (y * WOut) + u
  <2> DEFINE v == (d * WOut) + u
             t == (y * WOut) + u
  <2>1. d * WOut \in Nat /\ (d * WOut) + WOut <= Chunk
    BY <1>0, <1>2, ProductsOrdered
  <2>2. v \in 1..Chunk
    BY <2>1, <1>0
  <2>3. c[v] = Unit((z * Chunk) + v)
    BY <2>2, <1>1
  <2>4. (z * (NStrm * WOut)) + ((d * WOut) + u) = (((z * NStrm) + d) * WOut) + u
    BY <1>0, <1>2
  <2>5. (z * Chunk) + v = t
    BY <2>4, <1>0
  <2> HIDE DEF y
  <2>6. y * WOut \in Nat /\ (y * WOut) + WOut <= Total * WOut /\ Total * WOut \in Nat
    BY <1>0, <1>1, <1>3, ProductsOrdered
  <2>7. Total * WOut <= call * WIn /\ call * WIn \in Nat
    <3> DEFINE units == call * WIn
    <3>1. units \in Nat
      BY Constants
    <3> HIDE DEF units
    <3>2. units = ((units \div WOut) * WOut) + (units % WOut) /\ units % WOut \in Nat
      BY <3>1, <1>0, Division
    <3>3. Total = units \div WOut
      BY DEF Total, units
    <3> HIDE DEF Total
    <3>4. units = (Total * WOut) + (units % WOut)
      BY <3>2, <3>3
    <3> QED
      BY <2>6, <3>1, <3>2, <3>4 DEF units
  <2>8. t <= call * WIn
    BY <2>6, <2>7, <1>0
  <2> HIDE DEF t, v
  <2>9. Unit(t) = t
    BY <2>8 DEF Unit
  <2> QED
    BY <1>4, <2>3, <2>5, <2>9 DEF t, v
<1> HIDE DEF y
<1>7. El(y + 1) = [u \in 1..WOut |-> (y * WOut) + u]
  <2>1. (y + 1) - 1 = y
    BY <1>3
  <2> QED
    BY <2>1 DEF El
<1>8. Elements(c)[e] = [u \in 1..WOut |-> Elements(c)[e][u]]
  BY <1>5 DEF Elem
<1>9. Elements(c)[e] = El(y + 1)
  BY <1>6, <1>7, <1>8
<1> QED
  BY <1>3, <1>9 DEF c

-----------------------------------------------------------------------------
(* Where the elements are: of each lane, what was written to it and what   *)
(* is in its ring.                                                         *)

Values(s) == {s[k] : k \in 1..Len(s)}
Once(s) == \A j, k \in 1..Len(s) : s[j] = s[k] => j = k

LEMMA ValuesEmpty == Values(<< >>) = {} /\ Once(<< >>)
<1>1. Len(<< >>) = 0
  OBVIOUS
<1>2. \A k \in 1..0 : FALSE
  OBVIOUS
<1> QED
  BY <1>1, <1>2 DEF Values, Once

LEMMA ValuesAppend ==
    ASSUME NEW S, NEW s \in Seq(S), NEW e \in S
    PROVE  /\ Append(s, e) \in Seq(S)
           /\ Values(Append(s, e)) = Values(s) \cup {e}
           /\ Once(s) /\ e \notin Values(s) => Once(Append(s, e))
<1> DEFINE n == Len(s)
           t == Append(s, e)
<1>1. /\ n \in Nat /\ t \in Seq(S) /\ Len(t) = n + 1
      /\ t[n + 1] = e /\ \A k \in 1..n : t[k] = s[k]
  OBVIOUS
<1> HIDE DEF n, t
<1>2. \A k \in 1..n + 1 : k \in 1..n \/ k = n + 1
  BY <1>1
<1>3. n + 1 \in 1..n + 1 /\ \A k \in 1..n : k \in 1..n + 1
  BY <1>1
<1>4. Values(s) = {s[k] : k \in 1..n} /\ Values(t) = {t[k] : k \in 1..n + 1}
  BY <1>1 DEF Values, n
<1>5. Values(t) = Values(s) \cup {e}
  BY <1>1, <1>2, <1>3, <1>4
<1>6. ASSUME Once(s), e \notin Values(s) PROVE Once(t)
  <2>1. \A k \in 1..n : s[k] # e
    BY <1>4, <1>6
  <2>2. \A j, k \in 1..n : s[j] = s[k] => j = k
    BY <1>6 DEF Once, n
  <2>3. \A j, k \in 1..n + 1 : t[j] = t[k] => j = k
    BY <2>1, <2>2, <1>1, <1>2
  <2> QED
    BY <2>3, <1>1 DEF Once
<1> QED
  BY <1>1, <1>5, <1>6 DEF t

LEMMA ValuesTail ==
    ASSUME NEW S, NEW s \in Seq(S), s # << >>, Once(s)
    PROVE  /\ Tail(s) \in Seq(S) /\ Head(s) \in S
           /\ Values(s) = Values(Tail(s)) \cup {Head(s)}
           /\ Head(s) \notin Values(Tail(s))
           /\ Once(Tail(s))
<1> DEFINE n == Len(s)
           t == Tail(s)
<1>1. /\ n \in Nat /\ n > 0 /\ t \in Seq(S) /\ Len(t) = n - 1 /\ Head(s) = s[1] /\ s[1] \in S
      /\ \A k \in 1..n - 1 : t[k] = s[k + 1]
  <2>1. n \in Nat /\ n > 0 /\ Head(s) = s[1] /\ Head(s) \in S
    OBVIOUS
  <2>2. t \in Seq(S) /\ Len(t) = n - 1 /\ \A k \in 1..Len(t) : t[k] = s[k + 1]
    BY HeadTailProperties
  <2> QED
    BY <2>1, <2>2
<1> HIDE DEF n, t
<1>2. \A k \in 1..n - 1 : k + 1 \in 1..n /\ k + 1 # 1
  BY <1>1
<1>3. \A k \in 1..n : k # 1 => k - 1 \in 1..n - 1 /\ (k - 1) + 1 = k
  BY <1>1
<1>4. Values(s) = {s[k] : k \in 1..n} /\ Values(t) = {t[k] : k \in 1..n - 1} /\ 1 \in 1..n
  BY <1>1 DEF Values, n
<1>5. \A k \in 1..n : k # 1 => s[k] = t[k - 1]
  BY <1>1, <1>3
<1>6. Values(s) = Values(t) \cup {s[1]}
  <2>1. \A v \in Values(s) : v \in Values(t) \cup {s[1]}
    BY <1>3, <1>4, <1>5
  <2>2. \A v \in Values(t) : v \in Values(s)
    BY <1>1, <1>2, <1>4
  <2> QED
    BY <2>1, <2>2, <1>4
<1>7. \A j, k \in 1..n : s[j] = s[k] => j = k
  BY DEF Once, n
<1>8. s[1] \notin Values(t)
  BY <1>1, <1>2, <1>4, <1>7
<1>9. Once(t)
  <2>1. \A j, k \in 1..n - 1 : j + 1 = k + 1 => j = k
    OBVIOUS
  <2>2. \A j, k \in 1..n - 1 : t[j] = t[k] => j = k
    BY <2>1, <1>1, <1>2, <1>7
  <2> QED
    BY <2>2, <1>1 DEF Once
<1> QED
  BY <1>1, <1>6, <1>8, <1>9 DEF t

(* A lane was written g and has q in its ring.                             *)
Apart(g, q) ==
    /\ g \in Seq(Elem) /\ q \in Seq(Elem)
    /\ Once(g) /\ Once(q) /\ Values(g) \cap Values(q) = {}

Own(g, q) == Values(g) \cup Values(q)

(* The first n elements of the input have been dealt, and each is in one   *)
(* place.                                                                  *)
Spread(g, q, n) ==
    /\ g \in [Lanes -> Seq(Elem)] /\ q \in [Lanes -> Seq(Elem)]
    /\ \A i \in Lanes : Apart(g[i], q[i])
    /\ \A i, j \in Lanes : i # j => Own(g[i], q[i]) \cap Own(g[j], q[j]) = {}
    /\ \A i \in Lanes : \A v \in Own(g[i], q[i]) : \E x \in 1..n : v = El(x)
    /\ \A x \in 1..n : \E i \in Lanes : El(x) \in Own(g[i], q[i])

LEMMA SpreadInit ==
    Spread([i \in Lanes |-> << >>], [i \in Lanes |-> << >>], 0)
<1>1. << >> \in Seq(Elem) /\ \A x \in 1..0 : FALSE
  OBVIOUS
<1>2. Apart(<< >>, << >>) /\ Own(<< >>, << >>) = {}
  BY <1>1, ValuesEmpty DEF Apart, Own
<1> QED
  BY <1>1, <1>2 DEF Spread

LEMMA NotYetDealt ==
    ASSUME NEW g, NEW q, NEW n \in Nat, Spread(g, q, n), NEW x \in Nat, x > n, NEW i \in Lanes
    PROVE  El(x) \notin Own(g[i], q[i])
<1> SUFFICES ASSUME El(x) \in Own(g[i], q[i]) PROVE FALSE
  OBVIOUS
<1>1. PICK y \in 1..n : El(x) = El(y)
  BY DEF Spread
<1>2. y \in Nat /\ y > 0 /\ x > 0 /\ y < x
  OBVIOUS
<1>3. x = y
  BY <1>1, <1>2, ElInjective
<1> QED
  BY <1>2, <1>3

(* The lanes of late are numbered.                                         *)
Ranks(rank, late, m) ==
    /\ rank \in [late -> 0..m - 1]
    /\ \A i, j \in late : rank[i] = rank[j] => i = j
    /\ \A x \in 0..m - 1 : \E i \in late : rank[i] = x

(* Each lane of late gets the element whose turn it is, the others none.   *)
Gains(g, q, n, h, p, late, rank) ==
    /\ h \in [Lanes -> Seq(Elem)] /\ p \in [Lanes -> Seq(Elem)]
    /\ \A i \in Lanes : Apart(h[i], p[i])
    /\ \A i \in late : Own(h[i], p[i]) = Own(g[i], q[i]) \cup {El((n + rank[i]) + 1)}
    /\ \A i \in Lanes \ late : Own(h[i], p[i]) = Own(g[i], q[i])

(* The next m elements go to some lanes, one to each.                      *)
LEMMA SpreadMore ==
    ASSUME NEW g, NEW q, NEW n \in Nat, Spread(g, q, n),
           NEW m \in Nat, NEW late \in SUBSET Lanes, NEW rank, Ranks(rank, late, m),
           NEW h, NEW p, Gains(g, q, n, h, p, late, rank)
    PROVE  Spread(h, p, n + m)
<1>r. /\ rank \in [late -> 0..m - 1]
      /\ \A i, j \in late : rank[i] = rank[j] => i = j
      /\ \A x \in 0..m - 1 : \E i \in late : rank[i] = x
  BY DEF Ranks
<1>g. /\ h \in [Lanes -> Seq(Elem)] /\ p \in [Lanes -> Seq(Elem)]
      /\ \A i \in Lanes : Apart(h[i], p[i])
      /\ \A i \in late : Own(h[i], p[i]) = Own(g[i], q[i]) \cup {El((n + rank[i]) + 1)}
      /\ \A i \in Lanes \ late : Own(h[i], p[i]) = Own(g[i], q[i])
  BY DEF Gains
<1> DEFINE new(i) == El((n + rank[i]) + 1)
           old(i) == Own(g[i], q[i])
           own(i) == Own(h[i], p[i])
<1>0. /\ \A i, j \in Lanes : i # j => old(i) \cap old(j) = {}
      /\ \A i \in Lanes : \A w \in old(i) : \E x \in 1..n : w = El(x)
      /\ \A x \in 1..n : \E i \in Lanes : El(x) \in old(i)
  BY DEF Spread
<1>1. \A i \in late : own(i) = old(i) \cup {new(i)}
  BY <1>g
<1>2. \A i \in Lanes : i \notin late => own(i) = old(i)
  BY <1>g
<1>3. \A i \in late : /\ (n + rank[i]) + 1 \in 1..n + m /\ (n + rank[i]) + 1 > n
                      /\ (n + rank[i]) + 1 \in Nat /\ (n + rank[i]) + 1 > 0
  BY <1>r
<1>4. \A i \in late : \A j \in Lanes : new(i) \notin old(j)
  <2> SUFFICES ASSUME NEW i \in late, NEW j \in Lanes PROVE new(i) \notin old(j)
    OBVIOUS
  <2> DEFINE x == (n + rank[i]) + 1
  <2>1. x \in Nat /\ x > n
    BY <1>3
  <2> HIDE DEF x
  <2>2. El(x) \notin Own(g[j], q[j])
    BY <2>1, NotYetDealt
  <2> QED
    BY <2>2 DEF x
<1>5. \A i, j \in late : i # j => new(i) # new(j)
  <2> SUFFICES ASSUME NEW i \in late, NEW j \in late, new(i) = new(j) PROVE i = j
    OBVIOUS
  <2> DEFINE x == (n + rank[i]) + 1
             y == (n + rank[j]) + 1
  <2>1. x \in Nat /\ x > 0 /\ y \in Nat /\ y > 0 /\ El(x) = El(y)
    BY <1>3
  <2> HIDE DEF x, y
  <2>2. x = y
    BY <2>1, ElInjective
  <2>3. rank[i] = rank[j]
    <3>1. rank[i] \in Nat /\ rank[j] \in Nat
      BY <1>r
    <3>2. \A a, b, c \in Nat : (c + a) + 1 = (c + b) + 1 => a = b
      OBVIOUS
    <3> QED
      BY <2>2, <3>1, <3>2 DEF x, y
  <2> QED
    BY <2>3, <1>r
<1>6. \A x \in 1..n + m : x \in 1..n \/ \E i \in late : x = (n + rank[i]) + 1
  <2> SUFFICES ASSUME NEW x \in 1..n + m, x \notin 1..n PROVE \E i \in late : x = (n + rank[i]) + 1
    OBVIOUS
  <2>1. x - n - 1 \in 0..m - 1
    OBVIOUS
  <2>2. PICK i \in late : rank[i] = x - n - 1
    BY <2>1, <1>r
  <2>3. x = (n + rank[i]) + 1
    BY <2>2
  <2> QED
    BY <2>3
<1>7. \A x \in 1..n : x \in 1..n + m
  OBVIOUS
<1>8. \A i, j \in Lanes : i # j => own(i) \cap own(j) = {}
  <2> SUFFICES ASSUME NEW i \in Lanes, NEW j \in Lanes, i # j PROVE own(i) \cap own(j) = {}
    OBVIOUS
  <2> HIDE DEF new, old, own
  <2>1. old(i) \cap old(j) = {}
    BY <1>0
  <2>2. CASE i \in late /\ j \in late
    <3>1. own(i) = old(i) \cup {new(i)} /\ own(j) = old(j) \cup {new(j)}
      BY <2>2, <1>1
    <3>2. new(i) \notin old(j) /\ new(j) \notin old(i) /\ new(i) # new(j)
      BY <2>2, <1>4, <1>5
    <3> QED
      BY <2>1, <3>1, <3>2
  <2>3. CASE i \in late /\ j \notin late
    <3>1. own(i) = old(i) \cup {new(i)} /\ own(j) = old(j) /\ new(i) \notin old(j)
      BY <2>3, <1>1, <1>2, <1>4
    <3> QED
      BY <2>1, <3>1
  <2>4. CASE i \notin late /\ j \in late
    <3>1. own(j) = old(j) \cup {new(j)} /\ own(i) = old(i) /\ new(j) \notin old(i)
      BY <2>4, <1>1, <1>2, <1>4
    <3> QED
      BY <2>1, <3>1
  <2>5. CASE i \notin late /\ j \notin late
    BY <2>1, <2>5, <1>2
  <2> QED
    BY <2>2, <2>3, <2>4, <2>5
<1>9. \A i \in Lanes : \A w \in own(i) : \E x \in 1..n + m : w = El(x)
  <2> SUFFICES ASSUME NEW i \in Lanes, NEW w \in own(i) PROVE \E x \in 1..n + m : w = El(x)
    OBVIOUS
  <2>1. CASE w \in old(i)
    BY <2>1, <1>0, <1>7
  <2>2. CASE w \notin old(i)
    <3>1. i \in late /\ w = new(i)
      <4> HIDE DEF own, old, new
      <4> QED
        BY <2>2, <1>1, <1>2
    <3> QED
      BY <3>1, <1>3
  <2> QED
    BY <2>1, <2>2
<1>10. \A x \in 1..n + m : \E i \in Lanes : El(x) \in own(i)
  <2> SUFFICES ASSUME NEW x \in 1..n + m PROVE \E i \in Lanes : El(x) \in own(i)
    OBVIOUS
  <2>1. CASE x \in 1..n
    <3>1. PICK i \in Lanes : El(x) \in old(i)
      BY <2>1, <1>0
    <3> HIDE DEF own, old, new
    <3>2. El(x) \in own(i)
      BY <3>1, <1>1, <1>2
    <3> QED
      BY <3>2
  <2>2. CASE x \notin 1..n
    <3>1. PICK i \in late : x = (n + rank[i]) + 1
      BY <2>2, <1>6
    <3>2. El(x) = new(i) /\ i \in Lanes
      BY <3>1
    <3> HIDE DEF own, old, new
    <3> QED
      BY <3>2, <1>1
  <2> QED
    BY <2>1, <2>2
<1> QED
  BY <1>g, <1>8, <1>9, <1>10 DEF Spread

(* The next element is written to a lane.                                  *)
LEMMA SpreadPut ==
    ASSUME NEW g, NEW q, NEW n \in Nat, Spread(g, q, n), NEW k \in Lanes
    PROVE  Spread([g EXCEPT ![k] = Append(@, El(n + 1))], q, n + 1)
<1> DEFINE v == El(n + 1)
           h == [g EXCEPT ![k] = Append(@, v)]
<1>0. /\ g \in [Lanes -> Seq(Elem)] /\ q \in [Lanes -> Seq(Elem)]
      /\ \A i \in Lanes : Apart(g[i], q[i])
  BY DEF Spread
<1>a. n + 1 \in Nat /\ n + 1 > 0 /\ n + 1 > n
  OBVIOUS
<1>1. v \in Elem /\ v \notin Own(g[k], q[k])
  BY <1>a, ElTyped, NotYetDealt
<1> HIDE DEF v
<1>3. /\ Append(g[k], v) \in Seq(Elem) /\ Values(Append(g[k], v)) = Values(g[k]) \cup {v}
      /\ Once(Append(g[k], v))
  <2>1. g[k] \in Seq(Elem) /\ Once(g[k]) /\ v \notin Values(g[k])
    BY <1>0, <1>1 DEF Apart, Own
  <2> QED
    BY <2>1, <1>1, ValuesAppend
<1>4. /\ h \in [Lanes -> Seq(Elem)] /\ h[k] = Append(g[k], v)
      /\ \A i \in Lanes : i # k => h[i] = g[i]
  BY <1>0, <1>3
<1> HIDE DEF h
<1>5. \A i \in Lanes : Apart(h[i], q[i])
  <2>1. Apart(h[k], q[k])
    BY <1>0, <1>1, <1>3, <1>4 DEF Apart, Own
  <2>2. \A i \in Lanes : i # k => Apart(h[i], q[i])
    BY <1>0, <1>4
  <2> QED
    BY <2>1, <2>2
<1>6. Own(h[k], q[k]) = Own(g[k], q[k]) \cup {v}
  BY <1>3, <1>4 DEF Own
<1>7. \A i \in Lanes : i # k => Own(h[i], q[i]) = Own(g[i], q[i])
  BY <1>4
<1> DEFINE late == {k}
           rank == [i \in late |-> 0]
<1>8. late \in SUBSET Lanes /\ Ranks(rank, late, 1)
  BY DEF Ranks
<1>9. \A i \in late : Own(h[i], q[i]) = Own(g[i], q[i]) \cup {El((n + rank[i]) + 1)}
  <2>1. (n + 0) + 1 = n + 1
    OBVIOUS
  <2> QED
    BY <2>1, <1>6 DEF v
<1>10. \A i \in Lanes \ late : Own(h[i], q[i]) = Own(g[i], q[i])
  BY <1>7
<1>11. 1 \in Nat
  OBVIOUS
<1> HIDE DEF late, rank
<1>12. Gains(g, q, n, h, q, late, rank)
  BY <1>0, <1>4, <1>5, <1>9, <1>10 DEF Gains
<1>13. Spread(h, q, n + 1)
  BY <1>8, <1>11, <1>12, SpreadMore
<1> QED
  BY <1>13 DEF h, v

(* The front of a ring is written to a lane, its own or another.           *)
LEMMA SpreadMove ==
    ASSUME NEW g, NEW q, NEW n \in Nat, Spread(g, q, n),
           NEW i \in Lanes, q[i] # << >>, NEW k \in Lanes
    PROVE  Spread([g EXCEPT ![k] = Append(@, Head(q[i]))], [q EXCEPT ![i] = Tail(@)], n)
<1> DEFINE v == Head(q[i])
           h == [g EXCEPT ![k] = Append(@, v)]
           p == [q EXCEPT ![i] = Tail(@)]
           old(j) == Own(g[j], q[j])
           own(j) == Own(h[j], p[j])
<1>0. /\ g \in [Lanes -> Seq(Elem)] /\ q \in [Lanes -> Seq(Elem)]
      /\ \A j \in Lanes : Apart(g[j], q[j])
      /\ \A j, l \in Lanes : j # l => old(j) \cap old(l) = {}
      /\ \A j \in Lanes : \A w \in old(j) : \E x \in 1..n : w = El(x)
      /\ \A x \in 1..n : \E j \in Lanes : El(x) \in old(j)
  BY DEF Spread
<1>1. /\ Tail(q[i]) \in Seq(Elem) /\ v \in Elem
      /\ Values(q[i]) = Values(Tail(q[i])) \cup {v}
      /\ v \notin Values(Tail(q[i]))
      /\ Once(Tail(q[i]))
  <2>1. q[i] \in Seq(Elem) /\ Once(q[i])
    BY <1>0 DEF Apart
  <2> QED
    BY <2>1, ValuesTail
<1> HIDE DEF v
<1>2. v \in old(i) /\ v \notin Values(g[k])
  <2>1. v \in Values(q[i])
    BY <1>1
  <2>2. k # i => v \notin old(k)
    BY <2>1, <1>0 DEF Own
  <2>3. v \notin Values(g[i])
    BY <2>1, <1>0 DEF Apart
  <2> QED
    BY <2>1, <2>2, <2>3 DEF Own
<1>3. /\ Append(g[k], v) \in Seq(Elem) /\ Values(Append(g[k], v)) = Values(g[k]) \cup {v}
      /\ Once(Append(g[k], v))
  <2>1. g[k] \in Seq(Elem) /\ Once(g[k])
    BY <1>0 DEF Apart
  <2> QED
    BY <2>1, <1>1, <1>2, ValuesAppend
<1>4. /\ h \in [Lanes -> Seq(Elem)] /\ h[k] = Append(g[k], v)
      /\ \A j \in Lanes : j # k => h[j] = g[j]
  BY <1>0, <1>3
<1>5. /\ p \in [Lanes -> Seq(Elem)] /\ p[i] = Tail(q[i])
      /\ \A j \in Lanes : j # i => p[j] = q[j]
  BY <1>0, <1>1
<1> HIDE DEF h, p
<1> DEFINE G(j) == Values(g[j])
           Q(j) == Values(q[j])
           H(j) == Values(h[j])
           P(j) == Values(p[j])
<1>6. /\ Q(i) = P(i) \cup {v} /\ v \notin P(i) /\ H(k) = G(k) \cup {v}
      /\ \A j \in Lanes : j # k => H(j) = G(j)
      /\ \A j \in Lanes : j # i => P(j) = Q(j)
  BY <1>1, <1>3, <1>4, <1>5
<1>7. \A j \in Lanes : G(j) \cap Q(j) = {} /\ old(j) = G(j) \cup Q(j)
  BY <1>0 DEF Apart, Own
<1>8. \A j \in Lanes : own(j) = H(j) \cup P(j)
  BY DEF Own
<1>9. \A j \in Lanes : h[j] \in Seq(Elem) /\ p[j] \in Seq(Elem) /\ Once(h[j]) /\ Once(p[j])
  <2> SUFFICES ASSUME NEW j \in Lanes
               PROVE  h[j] \in Seq(Elem) /\ p[j] \in Seq(Elem) /\ Once(h[j]) /\ Once(p[j])
    OBVIOUS
  <2>1. Once(g[j]) /\ Once(q[j])
    BY <1>0 DEF Apart
  <2>2. Once(h[j])
    BY <2>1, <1>3, <1>4
  <2>3. Once(p[j])
    BY <2>1, <1>1, <1>5
  <2> QED
    BY <2>2, <2>3, <1>4, <1>5
<1> HIDE DEF G, Q, H, P, old, own
<1>10. v \in Q(i) /\ \A j \in Lanes : j # i => v \notin old(j)
  BY <1>0, <1>2, <1>6
<1>11. \A j \in Lanes : H(j) \cap P(j) = {}
  <2> SUFFICES ASSUME NEW j \in Lanes PROVE H(j) \cap P(j) = {}
    OBVIOUS
  <2>1. G(j) \cap Q(j) = {}
    BY <1>7
  <2>2. CASE j = i
    <3>1. \A w \in H(j) : w \in G(j) \/ w = v
      BY <1>6
    <3> QED
      BY <2>1, <2>2, <3>1, <1>6
  <2>3. CASE j # i
    <3>1. P(j) = Q(j) /\ v \notin Q(j)
      BY <2>3, <1>6, <1>7, <1>10
    <3>2. \A w \in H(j) : w \in G(j) \/ w = v
      BY <1>6
    <3> QED
      BY <2>1, <3>1, <3>2
  <2> QED
    BY <2>2, <2>3
<1>12. \A j \in Lanes : Apart(h[j], p[j])
  BY <1>9, <1>11 DEF Apart, H, P
<1>13. \A j \in Lanes : \A w \in own(j) : w \in old(j) \/ (j = k /\ w = v)
  <2> SUFFICES ASSUME NEW j \in Lanes, NEW w \in own(j) PROVE w \in old(j) \/ (j = k /\ w = v)
    OBVIOUS
  <2>1. w \in H(j) \/ w \in P(j)
    BY <1>8
  <2>2. w \in P(j) => w \in Q(j)
    BY <1>6
  <2>3. w \in H(j) => w \in G(j) \/ (j = k /\ w = v)
    BY <1>6
  <2> QED
    BY <2>1, <2>2, <2>3, <1>7
<1>14. \A j \in Lanes : \A w \in old(j) : w \in own(j) \/ w = v
  <2> SUFFICES ASSUME NEW j \in Lanes, NEW w \in old(j) PROVE w \in own(j) \/ w = v
    OBVIOUS
  <2>1. w \in G(j) \/ w \in Q(j)
    BY <1>7
  <2>2. w \in Q(j) => w \in P(j) \/ w = v
    BY <1>6
  <2>3. w \in G(j) => w \in H(j)
    BY <1>6
  <2> QED
    BY <2>1, <2>2, <2>3, <1>8
<1>15. v \in own(k) /\ \A j \in Lanes : v \in own(j) => j = k
  <2>1. v \in own(k)
    BY <1>6, <1>8
  <2>2. ASSUME NEW j \in Lanes, j # k PROVE v \notin own(j)
    <3>1. H(j) = G(j) /\ own(j) = H(j) \cup P(j)
      BY <2>2, <1>6, <1>8
    <3>2. CASE j = i
      <4>1. v \notin G(j) /\ v \notin P(j)
        BY <3>2, <1>6, <1>7, <1>10
      <4> QED
        BY <3>1, <4>1
    <3>3. CASE j # i
      <4>1. v \notin G(j) /\ v \notin Q(j) /\ P(j) = Q(j)
        BY <3>3, <1>6, <1>7, <1>10
      <4> QED
        BY <3>1, <4>1
    <3> QED
      BY <3>2, <3>3
  <2> QED
    BY <2>1, <2>2
<1>16. \A j, l \in Lanes : j # l => own(j) \cap own(l) = {}
  <2> SUFFICES ASSUME NEW j \in Lanes, NEW l \in Lanes, j # l, NEW w \in own(j), w \in own(l)
               PROVE  FALSE
    OBVIOUS
  <2>1. w # v
    BY <1>15
  <2>2. w \in old(j) /\ w \in old(l)
    BY <2>1, <1>13
  <2> QED
    BY <2>2, <1>0
<1>17. \A j \in Lanes : \A w \in own(j) : \E x \in 1..n : w = El(x)
  <2> SUFFICES ASSUME NEW j \in Lanes, NEW w \in own(j) PROVE \E x \in 1..n : w = El(x)
    OBVIOUS
  <2>1. w \in old(j) \/ w \in old(i)
    BY <1>2, <1>13
  <2> QED
    BY <2>1, <1>0
<1>18. \A x \in 1..n : \E j \in Lanes : El(x) \in own(j)
  <2> SUFFICES ASSUME NEW x \in 1..n PROVE \E j \in Lanes : El(x) \in own(j)
    OBVIOUS
  <2>1. PICK j \in Lanes : El(x) \in old(j)
    BY <1>0
  <2> QED
    BY <2>1, <1>14, <1>15
<1>19. Spread(h, p, n)
  BY <1>4, <1>5, <1>12, <1>16, <1>17, <1>18 DEF Spread, own
<1> QED
  BY <1>19 DEF h, p, v

(* The lanes of open give the front of their rings, and those of late get  *)
(* the next elements, by rank, into theirs.                                *)
Written(g, q, open) == [i \in Lanes |-> IF i \in open THEN Append(g[i], Head(q[i])) ELSE g[i]]
Popped(q, open) == [i \in Lanes |-> IF i \in open THEN Tail(q[i]) ELSE q[i]]
Refilled(r, n, late, rank) ==
    [i \in Lanes |-> IF i \in late THEN Append(r[i], El((n + rank[i]) + 1)) ELSE r[i]]

LEMMA SpreadRound ==
    ASSUME NEW g, NEW q, NEW n \in Nat, Spread(g, q, n),
           NEW m \in Nat, NEW late \in SUBSET Lanes, NEW rank, Ranks(rank, late, m),
           NEW open \in SUBSET Lanes, \A i \in open : q[i] # << >>
    PROVE  Spread(Written(g, q, open), Refilled(Popped(q, open), n, late, rank), n + m)
<1> DEFINE h == Written(g, q, open)
           r == Popped(q, open)
           p == Refilled(r, n, late, rank)
<1>h. h = [i \in Lanes |-> IF i \in open THEN Append(g[i], Head(q[i])) ELSE g[i]]
  BY DEF Written
<1>r. \A i \in Lanes : r[i] = IF i \in open THEN Tail(q[i]) ELSE q[i]
  BY DEF Popped
<1>p. p = [i \in Lanes |-> IF i \in late THEN Append(r[i], El((n + rank[i]) + 1)) ELSE r[i]]
  BY DEF Refilled
<1> HIDE DEF h, r, p
<1>0. /\ g \in [Lanes -> Seq(Elem)] /\ q \in [Lanes -> Seq(Elem)]
      /\ \A i \in Lanes : Apart(g[i], q[i])
  BY DEF Spread
<1>1. ASSUME NEW i \in Lanes
      PROVE  Apart(h[i], r[i]) /\ Own(h[i], r[i]) = Own(g[i], q[i])
  <2>1. Apart(g[i], q[i])
    BY <1>0
  <2>2. CASE i \in open
    <3> DEFINE v == Head(q[i])
               t == Tail(q[i])
    <3>1. q[i] \in Seq(Elem) /\ q[i] # << >> /\ Once(q[i])
      BY <2>1, <2>2 DEF Apart
    <3>2. /\ t \in Seq(Elem) /\ v \in Elem /\ Once(t)
          /\ Values(q[i]) = Values(t) \cup {v} /\ v \notin Values(t)
      BY <3>1, ValuesTail
    <3> HIDE DEF v, t
    <3>3. g[i] \in Seq(Elem) /\ Once(g[i]) /\ v \notin Values(g[i])
      BY <2>1, <3>2 DEF Apart
    <3>4. /\ Append(g[i], v) \in Seq(Elem) /\ Values(Append(g[i], v)) = Values(g[i]) \cup {v}
          /\ Once(Append(g[i], v))
      BY <3>2, <3>3, ValuesAppend
    <3>5. h[i] = Append(g[i], v) /\ r[i] = t
      BY <2>2, <1>h, <1>r DEF v, t
    <3>6. Values(g[i]) \cap Values(q[i]) = {}
      BY <2>1 DEF Apart
    <3>7. Values(h[i]) \cap Values(r[i]) = {}
      BY <3>2, <3>4, <3>5, <3>6
    <3>8. Apart(h[i], r[i])
      BY <3>2, <3>4, <3>5, <3>7 DEF Apart
    <3> QED
      BY <3>2, <3>4, <3>5, <3>8 DEF Own
  <2>3. CASE i \notin open
    BY <2>1, <2>3, <1>h, <1>r
  <2> QED
    BY <2>2, <2>3
<1>2. ASSUME NEW i \in late
      PROVE  /\ p[i] \in Seq(Elem) /\ Apart(h[i], p[i])
             /\ Own(h[i], p[i]) = Own(g[i], q[i]) \cup {El((n + rank[i]) + 1)}
  <2> DEFINE x == (n + rank[i]) + 1
             e == El(x)
  <2>0. rank[i] \in 0..m - 1
    BY DEF Ranks
  <2>1. x \in Nat /\ x > 0 /\ x > n
    BY <2>0
  <2> HIDE DEF x
  <2>2. e \in Elem /\ e \notin Own(g[i], q[i])
    BY <2>1, ElTyped, NotYetDealt
  <2>3. Apart(h[i], r[i]) /\ Own(h[i], r[i]) = Own(g[i], q[i]) /\ p[i] = Append(r[i], e)
    BY <1>1, <1>p DEF x
  <2> HIDE DEF e
  <2>4. r[i] \in Seq(Elem) /\ Once(r[i]) /\ e \notin Values(r[i]) /\ e \notin Values(h[i])
    BY <2>2, <2>3 DEF Apart, Own
  <2>5. /\ Append(r[i], e) \in Seq(Elem) /\ Values(Append(r[i], e)) = Values(r[i]) \cup {e}
        /\ Once(Append(r[i], e))
    BY <2>2, <2>4, ValuesAppend
  <2>6. Values(h[i]) \cap Values(r[i]) = {}
    BY <2>3 DEF Apart
  <2>7. Values(h[i]) \cap Values(p[i]) = {}
    <3>1. Values(p[i]) = Values(r[i]) \cup {e}
      BY <2>3, <2>5
    <3> QED
      BY <2>4, <2>6, <3>1
  <2>8. Apart(h[i], p[i])
    BY <2>3, <2>5, <2>7 DEF Apart
  <2>9. Own(h[i], p[i]) = Own(g[i], q[i]) \cup {e}
    BY <2>3, <2>5 DEF Own
  <2> QED
    BY <2>3, <2>5, <2>8, <2>9 DEF e, x
<1>3. ASSUME NEW i \in Lanes, i \notin late
      PROVE  p[i] \in Seq(Elem) /\ Apart(h[i], p[i]) /\ Own(h[i], p[i]) = Own(g[i], q[i])
  <2>1. p[i] = r[i]
    BY <1>3, <1>p
  <2> QED
    BY <2>1, <1>1 DEF Apart
<1>4. h \in [Lanes -> Seq(Elem)]
  <2>1. h = [i \in Lanes |-> h[i]]
    BY <1>h
  <2>2. \A i \in Lanes : h[i] \in Seq(Elem)
    BY <1>1 DEF Apart
  <2> QED
    BY <2>1, <2>2
<1>5. p \in [Lanes -> Seq(Elem)]
  <2>1. p = [i \in Lanes |-> p[i]]
    BY <1>p
  <2>2. \A i \in Lanes : p[i] \in Seq(Elem)
    BY <1>2, <1>3
  <2> QED
    BY <2>1, <2>2
<1>6. Gains(g, q, n, h, p, late, rank)
  BY <1>2, <1>3, <1>4, <1>5 DEF Gains
<1>7. Spread(h, p, n + m)
  BY <1>6, SpreadMore
<1> QED
  BY <1>7 DEF h, p, r

-----------------------------------------------------------------------------
(* before(i) numbers the lanes with room.                                  *)

LEMMA BeforeRanks ==
    ASSUME NEW late \in SUBSET Lanes
    PROVE  /\ Cardinality(late) \in 0..NStrm
           /\ late # {} => Cardinality(late) > 0
           /\ Ranks([i \in late |-> Cardinality({j \in late : j < i})], late, Cardinality(late))
<1> DEFINE Before(i) == {j \in late : j < i}
           c == Cardinality(late)
           rank == [i \in late |-> Cardinality(Before(i))]
<1>0. NStrm \in Nat /\ NStrm > 0
  BY Constants
<1>1. IsFiniteSet(Lanes) /\ Cardinality(Lanes) = NStrm
  <2>1. 0 \in Int /\ NStrm - 1 \in Int /\ NStrm - 1 - 0 + 1 = NStrm /\ ~(0 > NStrm - 1)
    BY <1>0
  <2> QED
    BY <2>1, FS_Interval DEF Lanes
<1>2. IsFiniteSet(late) /\ c <= NStrm /\ c \in Nat
  BY <1>1, FS_Subset, FS_CardinalityType
<1>3. late # {} => c > 0
  BY <1>2, FS_EmptySet
<1>4. \A i \in late : i \in Int
  BY <1>0 DEF Lanes
<1> HIDE DEF c
<1>5. ASSUME NEW i \in late
      PROVE  IsFiniteSet(Before(i)) /\ Cardinality(Before(i)) \in 0..c - 1
  <2> DEFINE more == Before(i) \cup {i}
  <2>1. IsFiniteSet(Before(i)) /\ Cardinality(Before(i)) \in Nat
    BY <1>2, FS_Subset, FS_CardinalityType
  <2>2. i \notin Before(i)
    BY <1>4
  <2>3. Cardinality(more) = Cardinality(Before(i)) + 1
    BY <2>1, <2>2, FS_AddElement
  <2>4. more \in SUBSET late
    OBVIOUS
  <2>5. Cardinality(more) <= c
    <3> HIDE DEF more
    <3> QED
      BY <2>4, <1>2, FS_Subset DEF c
  <2> QED
    BY <2>1, <2>3, <2>5, <1>2
<1>6. ASSUME NEW i \in late, NEW j \in late, i < j
      PROVE  Cardinality(Before(i)) < Cardinality(Before(j))
  <2> DEFINE more == Before(i) \cup {i}
  <2>1. IsFiniteSet(Before(i)) /\ Cardinality(Before(i)) \in Nat /\ i \notin Before(i)
    BY <1>4, <1>5
  <2>2. Cardinality(more) = Cardinality(Before(i)) + 1
    BY <2>1, FS_AddElement
  <2>3. more \in SUBSET Before(j)
    BY <1>4, <1>6
  <2>4. Cardinality(more) <= Cardinality(Before(j))
    <3> HIDE DEF more, Before
    <3> QED
      BY <2>3, <1>5, FS_Subset
  <2>5. Cardinality(Before(j)) \in Nat
    BY <1>5
  <2> QED
    BY <2>1, <2>2, <2>4, <2>5
<1>7. rank \in [late -> 0..c - 1]
  BY <1>5
<1>8. \A i, j \in late : rank[i] = rank[j] => i = j
  <2> SUFFICES ASSUME NEW i \in late, NEW j \in late, rank[i] = rank[j], i # j PROVE FALSE
    OBVIOUS
  <2>1. rank[i] = Cardinality(Before(i)) /\ rank[j] = Cardinality(Before(j)) /\ rank[i] \in Nat
    BY <1>5
  <2>2. i < j \/ j < i
    BY <1>4
  <2>3. i < j => rank[i] < rank[j]
    BY <1>6
  <2>4. j < i => rank[j] < rank[i]
    BY <1>6
  <2>5. rank[j] \in Nat
    BY <1>5
  <2> DEFINE a == rank[i]
             b == rank[j]
  <2>6. a = b /\ a \in Nat /\ b \in Nat /\ (a < b \/ b < a)
    BY <2>1, <2>2, <2>3, <2>4, <2>5
  <2> HIDE DEF a, b
  <2> QED
    BY <2>6
<1>9. \A x \in 0..c - 1 : \E i \in late : rank[i] = x
  <2> DEFINE T == 0..c - 1
  <2> HIDE DEF rank
  <2>1. rank \in Injection(late, T)
    BY <1>7, <1>8 DEF Injection, IsInjective
  <2>2. IsFiniteSet(T) /\ Cardinality(T) = c
    <3>1. 0 \in Int /\ c - 1 \in Int /\ (c - 1) - 0 + 1 = c /\ (0 > c - 1 => c = 0)
      BY <1>2
    <3> QED
      BY <3>1, FS_Interval
  <2> HIDE DEF T
  <2>3. rank \in Surjection(late, T)
    BY <2>1, <2>2, FS_Injection DEF c
  <2>4. \A x \in T : \E i \in late : rank[i] = x
    BY <2>3 DEF Surjection
  <2> QED
    BY <2>4 DEF T
<1>10. Ranks(rank, late, c)
  <2> HIDE DEF rank
  <2> QED
    BY <1>7, <1>8, <1>9 DEF Ranks
<1> QED
  BY <1>2, <1>3, <1>10 DEF c

-----------------------------------------------------------------------------
(* How far the distribution is, and what it still holds.                   *)

(* The input, cut into n full chunks and a last one with l elements, is t  *)
(* elements; cs are the chunks.                                            *)
Dealing(cs, n, t, l) ==
    /\ n \in Nat /\ l \in 0..NStrm - 1 /\ t = (n * NStrm) + l
    /\ cs \in Seq(Words) /\ Len(cs) = n + 1
    /\ \A x \in 1..n + 1 : Elements(cs[x]) \in Group
    /\ \A x \in 1..n + 1 : \A e \in 1..NStrm :
         ((x - 1) * NStrm) + e <= t => Elements(cs[x])[e] = El(((x - 1) * NStrm) + e)

Phases == {"loop", "rings", "array", "register", "last", "done"}

Locals == [pc : Phases, bak1 : SUBSET Lanes, ld : Int, ld2 : Int, rn : Int,
           ldFlg : BOOLEAN, newR : BOOLEAN, wb : BOOLEAN, high : BOOLEAN,
           r : Group, p : Group, q : Group, base : Nat, sid : Lanes, at : Nat]

(* The chunks still to come after f of them.                               *)
Unread(cs, n, c, f) ==
    /\ f \in 0..n
    /\ c \in Seq(Words) /\ Len(c) = (n + 1) - f
    /\ \A k \in 1..Len(c) : c[k] = cs[f + k]

(* Element x, counted from 1, in the two halves of buf_arr.                *)
PlaceOf(x) == ((x - 1) % (2 * NStrm)) + 1

(* What of the first m elements has not been dealt yet is in buf_arr.      *)
Holds(p, q, n, m) == \A x \in n + 1..m : (p \o q)[PlaceOf(x)] = El(x)

Fetched(d, L) == IF d.newR THEN L + 1 ELSE L
Kept(d) == d.ld2 - d.rn

(* In the loop: L chunks have been put into buf_arr, and one more is in    *)
(* buff_r if newR. Of the L chunks D elements have been dealt. There is no *)
(* fetch while a chunk waits in buff_r, and always one when too little is  *)
(* left in buf_arr for a round in which all lanes get an element.          *)
Looping(cs, n, c, d, L, D) ==
    /\ L \in Nat /\ Unread(cs, n, c, Fetched(d, L))
    /\ D + Kept(d) = L * NStrm
    /\ 0 <= Kept(d) /\ Kept(d) < 2 * NStrm
    /\ d.ld = IF d.newR THEN d.ld2 + NStrm ELSE d.ld2
    /\ d.newR => ~d.ldFlg
    /\ ~d.newR /\ Kept(d) < NStrm => d.ldFlg
    /\ d.high <=> Fetched(d, L) % 2 = 0
    /\ d.base = D % (2 * NStrm)
    /\ Fetched(d, L) > 0 => d.r = Elements(cs[Fetched(d, L)])
    /\ Holds(d.p, d.q, D, L * NStrm)
    /\ Fetched(d, L) = n => d.wb = ~d.newR

(* Then the rest of buf_arr goes out, then what is in buff_r, then the     *)
(* last chunk.                                                             *)
Arrayed(cs, n, c, d, L, D) ==
    /\ L \in Nat /\ Fetched(d, L) = n /\ Unread(cs, n, c, n)
    /\ D + d.ld2 = L * NStrm /\ d.ld2 \in Nat
    /\ d.at = D % (2 * NStrm)
    /\ n > 0 => d.r = Elements(cs[n])
    /\ Holds(d.p, d.q, D, L * NStrm)
    /\ d.wb = ~d.newR

Registered(cs, n, c, d, D) ==
    /\ Unread(cs, n, c, n)
    /\ d.at \in 0..NStrm /\ D + NStrm = (n * NStrm) + d.at
    /\ d.at < NStrm => n > 0 /\ d.r = Elements(cs[n])

Lasting(cs, n, l, d, D) ==
    /\ d.at \in 0..l /\ D = (n * NStrm) + d.at
    /\ d.r = Elements(cs[n + 1])

Progress(cs, n, t, l, c, d, q, e, D) ==
    /\ d \in Locals
    /\ d.pc = "loop" => \E L \in 0..n : Looping(cs, n, c, d, L, D)
    /\ d.pc = "rings" => \E L \in 0..n : Looping(cs, n, c, d, L, D) /\ Fetched(d, L) = n
    /\ d.pc = "array" => \E L \in 0..n : Arrayed(cs, n, c, d, L, D)
    /\ d.pc = "register" => Registered(cs, n, c, d, D)
    /\ d.pc = "last" => Lasting(cs, n, l, d, D)
    /\ d.pc = "done" => D = t
    /\ d.pc \notin {"loop", "rings"} => \A i \in Lanes : q[i] = << >>
    /\ e # {} => d.pc = "done"

DealtTo(D) ==
    /\ D \in Nat /\ D <= Total
    /\ Spread(got, deq, D)
    /\ Progress(Chunks, Full, Total, LeftN, chunks, ds, deq, ended, D)

DealInv == call \in Nat /\ \E D \in 0..Total : DealtTo(D)

(* The input as the lemmas below see it.                                   *)
LEMMA InputDeals ==
    ASSUME call \in Nat
    PROVE  Dealing(Chunks, Full, Total, LeftN)
<1>1. /\ Full \in Nat /\ Chunks \in Seq(Words) /\ Len(Chunks) = Full + 1
      /\ LeftN = Total - (Full * NStrm)
  BY ChunksAre DEF Words
<1>2. LeftN \in 0..NStrm - 1 /\ Total \in Nat /\ Full * NStrm \in Nat
  BY LeftIs
<1>3. Total = (Full * NStrm) + LeftN
  <2> DEFINE a == Full * NStrm
  <2>1. a \in Nat /\ LeftN = Total - a
    BY <1>1, <1>2
  <2> HIDE DEF a
  <2>2. Total = a + LeftN
    BY <2>1, <1>2
  <2> QED
    BY <2>2 DEF a
<1>4. \A x \in 1..Full + 1 : Elements(Chunks[x]) \in Group
  BY <1>1, ElementsTyped
<1>5. \A x \in 1..Full + 1 : \A e \in 1..NStrm :
        ((x - 1) * NStrm) + e <= Total => Elements(Chunks[x])[e] = El(((x - 1) * NStrm) + e)
  BY ElementIs
<1> QED
  BY <1>1, <1>2, <1>3, <1>4, <1>5 DEF Dealing

(* The e-th element of the chunk after c chunks.                           *)
LEMMA ElementOf ==
    ASSUME NEW cs, NEW n, NEW t, NEW l, Dealing(cs, n, t, l),
           NEW c \in 0..n, NEW e \in 1..NStrm, c < n \/ e <= l
    PROVE  /\ Elements(cs[c + 1]) \in Group
           /\ Elements(cs[c + 1])[e] = El((c * NStrm) + e)
<1>1. /\ n \in Nat /\ l \in 0..NStrm - 1 /\ t = (n * NStrm) + l /\ NStrm \in Nat
  BY Constants DEF Dealing
<1>2. c \in Nat /\ c + 1 \in 1..n + 1 /\ (c + 1) - 1 = c
  BY <1>1
<1>3. (c * NStrm) + e <= t
  <2>1. c <= n /\ (c < n => (c * NStrm) + NStrm <= n * NStrm)
        /\ c * NStrm \in Nat /\ n * NStrm \in Nat
    BY <1>1, <1>2, ProductsOrdered
  <2>2. CASE c < n
    <3> DEFINE a == c * NStrm
               b == n * NStrm
    <3>1. a \in Nat /\ b \in Nat /\ a + NStrm <= b /\ t = b + l
      BY <1>1, <2>1, <2>2
    <3> HIDE DEF a, b
    <3>2. a + e <= t
      BY <3>1, <1>1
    <3> QED
      BY <3>2 DEF a
  <2>3. CASE c = n
    <3> DEFINE b == n * NStrm
    <3>1. b \in Nat /\ t = b + l /\ e <= l
      BY <1>1, <2>1, <2>3
    <3> HIDE DEF b
    <3>2. b + e <= t
      BY <3>1, <1>1
    <3> QED
      BY <3>2, <2>3 DEF b
  <2> QED
    BY <2>1, <2>2, <2>3, <1>1
<1>4. Elements(cs[c + 1]) \in Group
  BY <1>2 DEF Dealing
<1>5. \A x \in 1..n + 1 : \A y \in 1..NStrm :
         ((x - 1) * NStrm) + y <= t => Elements(cs[x])[y] = El(((x - 1) * NStrm) + y)
  BY DEF Dealing
<1> QED
  BY <1>2, <1>3, <1>4, <1>5

(* The halves of buf_arr take turns: element e of a chunk goes to the      *)
(* first half when an even number of chunks came before.                   *)
LEMMA HalfOf ==
    ASSUME NEW c \in Nat, NEW e \in 1..NStrm
    PROVE  PlaceOf((c * NStrm) + e) = IF c % 2 = 0 THEN e ELSE NStrm + e
<1>0. NStrm \in Nat /\ NStrm > 0 /\ 2 * NStrm \in Nat /\ 2 * NStrm > 0
  BY Constants
<1> DEFINE h == c \div 2
           o == c % 2
<1>1. h \in Nat /\ o \in {0, 1} /\ c = (h * 2) + o
  BY Division
<1> HIDE DEF h, o
<1> DEFINE d == e - 1
           a == (o * NStrm) + d
<1>2. d \in Nat /\ d < NStrm
  BY <1>0
<1>3. a = (IF o = 0 THEN d ELSE NStrm + d)
  <2>1. CASE o = 0
    BY <2>1, <1>0, <1>2
  <2>2. CASE o = 1
    BY <2>2, <1>0, <1>2
  <2> QED
    BY <2>1, <2>2, <1>1
<1> HIDE DEF a
<1>4. a \in Nat /\ a < 2 * NStrm
  BY <1>0, <1>2, <1>3
<1>5. ((c * NStrm) + e) - 1 = (h * (2 * NStrm)) + a
  <2>1. c * NStrm = (h * (2 * NStrm)) + (o * NStrm)
    <3>1. ((h * 2) + o) * NStrm = (h * (2 * NStrm)) + (o * NStrm)
      BY <1>0, <1>1
    <3> QED
      BY <3>1, <1>1
  <2>2. (h * (2 * NStrm)) \in Nat /\ o * NStrm \in Nat
    BY <1>0, <1>1
  <2> DEFINE x == h * (2 * NStrm)
             y == o * NStrm
             z == c * NStrm
  <2>3. z = x + y /\ x \in Nat /\ y \in Nat /\ a = y + d
    BY <2>1, <2>2 DEF a
  <2> HIDE DEF x, y, z
  <2>4. (z + e) - 1 = x + a
    BY <2>3, <1>0
  <2> QED
    BY <2>4 DEF x, z
<1>6. ((h * (2 * NStrm)) + a) % (2 * NStrm) = a
  <2> DEFINE b == 2 * NStrm
  <2>1. b \in Nat /\ b > 0 /\ a < b
    BY <1>0, <1>4
  <2> HIDE DEF b
  <2>2. ((h * b) + a) % b = a % b /\ a % b = a
    BY <2>1, <1>1, <1>4, RemainderAdd, RemainderSmall
  <2> QED
    BY <2>2 DEF b
<1>7. PlaceOf((c * NStrm) + e) = a + 1
  BY <1>5, <1>6 DEF PlaceOf
<1>8. d + 1 = e /\ (NStrm + d) + 1 = NStrm + e
  BY <1>0
<1> HIDE DEF d
<1> QED
  BY <1>7, <1>3, <1>8 DEF o

LEMMA BothHalves ==
    ASSUME NEW p \in Group, NEW q \in Group
    PROVE  \A e \in 1..NStrm : (p \o q)[e] = p[e] /\ (p \o q)[NStrm + e] = q[e]
<1>0. NStrm \in Nat
  BY Constants
<1>1. \A S : \A l \in Nat : \A s \in [1..l -> S] : s \in Seq(S) /\ Len(s) = l
  OBVIOUS
<1>2. p \in Seq(Elem) /\ q \in Seq(Elem) /\ Len(p) = NStrm /\ Len(q) = NStrm
  BY <1>0, <1>1 DEF Group
<1>3. \A x \in 1..NStrm + NStrm : (p \o q)[x] = IF x <= NStrm THEN p[x] ELSE q[x - NStrm]
  <2>1. \A x \in 1..Len(p) + Len(q) : (p \o q)[x] = IF x <= Len(p) THEN p[x] ELSE q[x - Len(p)]
    BY <1>2, ConcatProperties, Zenon
  <2> QED
    BY <1>2, <2>1
<1>4. \A e \in 1..NStrm : /\ e \in 1..NStrm + NStrm /\ e <= NStrm
                          /\ NStrm + e \in 1..NStrm + NStrm /\ ~(NStrm + e <= NStrm)
                          /\ (NStrm + e) - NStrm = e
  BY <1>0
<1> QED
  BY <1>3, <1>4

(* Element x is element e of the chunk after c others.                     *)
LEMMA ChunkOf ==
    ASSUME NEW x \in Nat, x > 0
    PROVE  \E c \in Nat : \E e \in 1..NStrm : x = (c * NStrm) + e
<1> DEFINE y == x - 1
           c == y \div NStrm
           e == y % NStrm
<1>1. y \in Nat /\ NStrm \in Nat /\ NStrm > 0 /\ x = y + 1
  BY Constants
<1> HIDE DEF y
<1>2. c \in Nat /\ e \in Nat /\ e < NStrm /\ y = (c * NStrm) + e
  BY <1>1, Division
<1> HIDE DEF c, e
<1>3. e + 1 \in 1..NStrm /\ x = (c * NStrm) + (e + 1)
  <2>1. c * NStrm \in Nat
    BY <1>1, <1>2
  <2> QED
    BY <2>1, <1>1, <1>2
<1> QED
  BY <1>2, <1>3

(* A chunk goes into the half that has been dealt: what is left of the     *)
(* chunk before is in the other.                                           *)
LEMMA LoadHolds ==
    ASSUME NEW cs, NEW n, NEW t, NEW l, Dealing(cs, n, t, l),
           NEW L \in Nat, L < n, NEW D \in Nat, L * NStrm < D + NStrm, D <= L * NStrm,
           NEW p \in Group, NEW q \in Group, Holds(p, q, D, L * NStrm),
           NEW r, r = Elements(cs[L + 1]),
           NEW P, P = (IF L % 2 = 0 THEN r ELSE p), NEW Q, Q = (IF L % 2 = 0 THEN q ELSE r)
    PROVE  Holds(P, Q, D, (L + 1) * NStrm)
<1>0. NStrm \in Nat /\ NStrm > 0 /\ n \in Nat
  BY Constants DEF Dealing
<1>1. r \in Group /\ \A e \in 1..NStrm : r[e] = El((L * NStrm) + e)
  <2>1. L \in 0..n /\ 1 \in 1..NStrm
    BY <1>0
  <2> QED
    BY <2>1, ElementOf
<1>2. P \in Group /\ Q \in Group
  BY <1>1
<1>3. (L + 1) * NStrm = (L * NStrm) + NStrm /\ L * NStrm \in Nat
  BY <1>0
<1>4. \A e \in 1..NStrm : (p \o q)[e] = p[e] /\ (p \o q)[NStrm + e] = q[e]
  BY BothHalves
<1>5. \A e \in 1..NStrm : (P \o Q)[e] = P[e] /\ (P \o Q)[NStrm + e] = Q[e]
  BY <1>2, BothHalves
<1> SUFFICES ASSUME NEW x \in D + 1..(L + 1) * NStrm
             PROVE  (P \o Q)[PlaceOf(x)] = El(x)
  BY DEF Holds
<1>6. x \in Nat /\ x > 0 /\ D < x /\ x <= (L * NStrm) + NStrm
  BY <1>3
<1>7. CASE x > L * NStrm
  <2> DEFINE a == L * NStrm
             e == x - a
  <2>1. e \in 1..NStrm /\ x = a + e
    <3>1. a \in Nat /\ x > a /\ x <= a + NStrm
      BY <1>3, <1>6, <1>7
    <3> HIDE DEF a
    <3> QED
      BY <3>1, <1>0, <1>6
  <2> HIDE DEF e
  <2>2. PlaceOf(x) = IF L % 2 = 0 THEN e ELSE NStrm + e
    BY <2>1, HalfOf
  <2>3. r[e] = El(x)
    BY <2>1, <1>1
  <2> QED
    BY <2>1, <2>2, <2>3, <1>5
<1>8. CASE x <= L * NStrm
  <2>1. (p \o q)[PlaceOf(x)] = El(x)
    <3>1. x \in D + 1..L * NStrm
      BY <1>3, <1>6, <1>8
    <3> QED
      BY <3>1 DEF Holds
  <2>2. L > 0
    <3>1. 0 * NStrm = 0
      BY <1>0
    <3> QED
      BY <3>1, <1>6, <1>8
  <2> DEFINE c == L - 1
             a == c * NStrm
             e == x - a
  <2>3. c \in Nat /\ L = c + 1
    BY <2>2
  <2>4. L * NStrm = a + NStrm /\ a \in Nat
    <3>1. (c + 1) * NStrm = a + NStrm
      BY <2>3, <1>0
    <3> QED
      BY <3>1, <2>3, <1>0
  <2> HIDE DEF c
  <2>5. e \in 1..NStrm /\ x = a + e
    <3>1. D < x /\ x <= a + NStrm /\ a + NStrm < D + NStrm
      BY <2>4, <1>6, <1>8
    <3> HIDE DEF a
    <3> QED
      BY <3>1, <2>4, <1>0, <1>6
  <2> HIDE DEF e
  <2>6. PlaceOf(x) = IF c % 2 = 0 THEN e ELSE NStrm + e
    BY <2>3, <2>5, HalfOf
  <2>7. c % 2 = 0 <=> ~(L % 2 = 0)
    BY <2>3
  <2>8. CASE c % 2 = 0
    <3>1. PlaceOf(x) = e /\ P = p
      BY <2>6, <2>7, <2>8
    <3>2. (p \o q)[e] = El(x)
      BY <2>1, <3>1
    <3>3. p[e] = El(x)
      BY <3>2, <2>5, <1>4
    <3>4. (P \o Q)[e] = p[e]
      BY <3>1, <2>5, <1>5
    <3> QED
      BY <3>1, <3>3, <3>4
  <2>9. CASE ~(c % 2 = 0)
    <3>1. PlaceOf(x) = NStrm + e /\ Q = q
      BY <2>6, <2>7, <2>9
    <3>2. (p \o q)[NStrm + e] = El(x)
      BY <2>1, <3>1
    <3>3. q[e] = El(x)
      BY <3>2, <2>5, <1>4
    <3>4. (P \o Q)[NStrm + e] = q[e]
      BY <3>1, <2>5, <1>5
    <3> QED
      BY <3>1, <3>3, <3>4
  <2> QED
    BY <2>8, <2>9
<1>9. x > L * NStrm \/ x <= L * NStrm
  BY <1>3, <1>6
<1> QED
  BY <1>7, <1>8, <1>9

-----------------------------------------------------------------------------
(* The steps of the loop.                                                  *)

(* The counts of one iteration: k elements kept, a chunk fetched or not,   *)
(* put into buf_arr or not, and m elements dealt.                          *)
Counted(m, k, any, newR, ldFlg, fetch, load, newR2, ld, k2, flg) ==
    /\ m \in 0..NStrm /\ k \in Int /\ 0 <= k /\ k < 2 * NStrm
    /\ any \in BOOLEAN /\ newR \in BOOLEAN /\ ldFlg \in BOOLEAN
    /\ newR => ~ldFlg
    /\ ~newR /\ k < NStrm => ldFlg
    /\ m > 0 => any
    /\ fetch = (any /\ ldFlg)
    /\ load = ((fetch \/ newR) /\ k < NStrm)
    /\ newR2 = ((fetch \/ newR) /\ ~load)
    /\ ld = (k + IF newR THEN NStrm ELSE 0) + IF fetch THEN NStrm ELSE 0
    /\ k2 = IF load THEN k + NStrm ELSE k
    /\ flg = (ld < 2 * NStrm /\ ld <= IF k < NStrm THEN k + 2 * NStrm ELSE k + NStrm)

LEMMA Counts ==
    ASSUME NEW m, NEW k, NEW any, NEW newR, NEW ldFlg, NEW fetch, NEW load, NEW newR2,
           NEW ld, NEW k2, NEW flg,
           Counted(m, k, any, newR, ldFlg, fetch, load, newR2, ld, k2, flg)
    PROVE  /\ k2 \in Int /\ 0 <= k2 - m /\ k2 - m < 2 * NStrm
           /\ ld = IF newR2 THEN k2 + NStrm ELSE k2
           /\ newR2 => ~flg
           /\ ~newR2 /\ k2 - m < NStrm => flg
           /\ ~(fetch /\ newR)
<1> DEFINE N == NStrm
<1>0. N \in Nat /\ N > 0
  BY Constants
<1>a. /\ m \in 0..N /\ k \in Int /\ 0 <= k /\ k < 2 * N
      /\ any \in BOOLEAN /\ newR \in BOOLEAN /\ ldFlg \in BOOLEAN
      /\ newR => ~ldFlg
      /\ ~newR /\ k < N => ldFlg
      /\ m > 0 => any
      /\ fetch = (any /\ ldFlg)
      /\ load = ((fetch \/ newR) /\ k < N)
      /\ newR2 = ((fetch \/ newR) /\ ~load)
      /\ ld = (k + IF newR THEN N ELSE 0) + IF fetch THEN N ELSE 0
      /\ k2 = IF load THEN k + N ELSE k
      /\ flg = (ld < 2 * N /\ ld <= IF k < N THEN k + 2 * N ELSE k + N)
  BY DEF Counted
<1> HIDE DEF N
<1>1. ~(fetch /\ newR)
  BY <1>0, <1>a
<1>2. k2 \in Int /\ 0 <= k2 - m /\ k2 - m < 2 * N
  BY <1>0, <1>a
<1>3. ld = IF newR2 THEN k2 + N ELSE k2
  BY <1>0, <1>a
<1>4. newR2 => ~flg
  BY <1>0, <1>a
<1>5. ASSUME ~newR2 PROVE flg
  <2>1. CASE load
    <3>1. ld = k + N /\ k < N
      BY <1>0, <1>a, <1>1, <2>1
    <3>2. ld < 2 * N /\ ld <= k + 2 * N
      BY <1>0, <1>a, <3>1
    <3> QED
      BY <1>0, <1>a, <3>1, <3>2
  <2>2. CASE ~load
    <3>1. ld = k
      BY <1>0, <1>a, <1>5, <2>2
    <3>2. ld < 2 * N /\ ld <= k + 2 * N /\ ld <= k + N
      BY <1>0, <1>a, <3>1
    <3> QED
      BY <1>0, <1>a, <2>2, <3>2
  <2> QED
    BY <1>a, <2>1, <2>2
<1> QED
  BY <1>1, <1>2, <1>3, <1>4, <1>5 DEF N

(* One iteration on the counts and the buffers: m lanes get an element,    *)
(* and full are the lanes that are full now.                               *)
Round(d, c, full, m, fetch, load, r, high, ld, kept, p, q, c2, d2) ==
    /\ fetch = Fetches(d)
    /\ r = IF fetch THEN Elements(Head(c)) ELSE d.r
    /\ high = IF fetch THEN ~d.high ELSE d.high
    /\ ld = d.ld - d.rn + IF fetch THEN NStrm ELSE 0
    /\ kept = d.ld2 - d.rn
    /\ load = ((fetch \/ d.newR) /\ kept < NStrm)
    /\ p = IF load /\ ~high THEN r ELSE d.p
    /\ q = IF load /\ high THEN r ELSE d.q
    /\ c2 = IF fetch THEN Tail(c) ELSE c
    /\ d2 = [d EXCEPT !.bak1 = full, !.ld = ld,
                      !.ld2 = IF load THEN kept + NStrm ELSE kept,
                      !.rn = m,
                      !.ldFlg = RoomLeft(ld, kept),
                      !.newR = (fetch \/ d.newR) /\ ~load,
                      !.wb = load, !.high = high, !.r = r, !.p = p, !.q = q,
                      !.base = PlaceAfter(d, m)]

LEMMA RoundFields ==
    ASSUME NEW d \in Locals, NEW c, NEW full, NEW m, NEW fetch, NEW load, NEW r, NEW high,
           NEW ld, NEW kept, NEW p, NEW q, NEW c2, NEW d2,
           Round(d, c, full, m, fetch, load, r, high, ld, kept, p, q, c2, d2)
    PROVE  /\ d2.bak1 = full /\ d2.ld = ld /\ d2.ld2 = (IF load THEN kept + NStrm ELSE kept)
           /\ d2.rn = m /\ d2.ldFlg = RoomLeft(ld, kept)
           /\ d2.newR = ((fetch \/ d.newR) /\ ~load)
           /\ d2.wb = load /\ d2.high = high /\ d2.r = r /\ d2.p = p /\ d2.q = q
           /\ d2.base = PlaceAfter(d, m) /\ d2.pc = d.pc
BY DEF Locals, Round

LEMMA RoundTyped ==
    ASSUME NEW d \in Locals, NEW c, NEW full \in SUBSET Lanes, NEW m \in Int,
           NEW fetch, NEW load \in BOOLEAN, NEW r \in Group, NEW high \in BOOLEAN,
           NEW ld \in Int, NEW kept \in Int, NEW p \in Group, NEW q \in Group, NEW c2, NEW d2,
           Round(d, c, full, m, fetch, load, r, high, ld, kept, p, q, c2, d2),
           PlaceAfter(d, m) \in Nat
    PROVE  d2 \in Locals
<1> DEFINE flg == RoomLeft(ld, kept)
           newR == (fetch \/ d.newR) /\ ~load
           ld2 == IF load THEN kept + NStrm ELSE kept
           base == PlaceAfter(d, m)
<1>1. flg \in BOOLEAN /\ newR \in BOOLEAN /\ ld2 \in Int /\ base \in Nat
  BY Constants DEF RoomLeft
<1>2. d2 = [d EXCEPT !.bak1 = full, !.ld = ld, !.ld2 = ld2, !.rn = m, !.ldFlg = flg,
                     !.newR = newR, !.wb = load, !.high = high, !.r = r, !.p = p, !.q = q,
                     !.base = base]
  BY DEF Round
<1> HIDE DEF flg, newR, ld2, base
<1> DEFINE e == [d EXCEPT !.bak1 = full, !.ld = ld, !.ld2 = ld2, !.rn = m, !.ldFlg = flg,
                          !.newR = newR]
<1>3. e \in Locals
  BY <1>1 DEF Locals
<1> DEFINE f == [e EXCEPT !.wb = load, !.high = high, !.r = r]
<1>4. d2 = [f EXCEPT !.p = p, !.q = q, !.base = base]
  BY <1>2
<1> HIDE DEF e
<1>5. f \in Locals
  BY <1>3 DEF Locals
<1> HIDE DEF f
<1> QED
  BY <1>1, <1>4, <1>5 DEF Locals

LEMMA IterateData ==
    ASSUME NEW cs, NEW n, NEW t, NEW l, Dealing(cs, n, t, l),
           NEW d \in Locals, NEW c, NEW L \in Nat, NEW D \in Nat,
           Looping(cs, n, c, d, L, D), Len(c) > 1,
           NEW full \in SUBSET Lanes, NEW m \in 0..NStrm, Lanes \ d.bak1 # {} <=> m > 0,
           NEW fetch, NEW load, NEW r, NEW high, NEW ld, NEW kept, NEW p, NEW q, NEW c2, NEW d2,
           Round(d, c, full, m, fetch, load, r, high, ld, kept, p, q, c2, d2),
           NEW L2, L2 = IF load THEN L + 1 ELSE L
    PROVE  /\ d2 \in Locals /\ d2.pc = d.pc
           /\ L2 \in 0..n /\ Looping(cs, n, c2, d2, L2, D + m)
           /\ Holds(p, q, D, D + m)
<1>0. NStrm \in Nat /\ NStrm > 0 /\ n \in Nat
  BY Constants DEF Dealing
<1>1. /\ d.bak1 \in SUBSET Lanes /\ d.ld \in Int /\ d.ld2 \in Int /\ d.rn \in Int
      /\ d.ldFlg \in BOOLEAN /\ d.newR \in BOOLEAN /\ d.high \in BOOLEAN
      /\ d.r \in Group /\ d.p \in Group /\ d.q \in Group /\ d.base \in Nat
  BY DEF Locals
<1>a. /\ fetch = Fetches(d) /\ kept = d.ld2 - d.rn
      /\ high = IF fetch THEN ~d.high ELSE d.high
      /\ load = ((fetch \/ d.newR) /\ kept < NStrm)
  BY DEF Round
<1>b. ld = d.ld - d.rn + IF fetch THEN NStrm ELSE 0
  BY DEF Round
<1>c. /\ fetch => r = Elements(Head(c)) /\ c2 = Tail(c)
      /\ ~fetch => r = d.r /\ c2 = c
  BY DEF Round
<1>d. /\ p = IF load /\ ~high THEN r ELSE d.p
      /\ q = IF load /\ high THEN r ELSE d.q
  BY DEF Round
<1> DEFINE F == Fetched(d, L)
<1>2. /\ Unread(cs, n, c, F)
      /\ D + kept = L * NStrm /\ kept \in Int /\ 0 <= kept /\ kept < 2 * NStrm
      /\ d.ld = IF d.newR THEN d.ld2 + NStrm ELSE d.ld2
      /\ d.newR => ~d.ldFlg
      /\ ~d.newR /\ kept < NStrm => d.ldFlg
      /\ d.high <=> F % 2 = 0
      /\ d.base = D % (2 * NStrm)
      /\ F > 0 => d.r = Elements(cs[F])
      /\ Holds(d.p, d.q, D, L * NStrm)
  BY <1>1, <1>a DEF Looping, Kept
<1>3. fetch \in BOOLEAN /\ load \in BOOLEAN /\ high \in BOOLEAN
  BY <1>1, <1>a DEF Fetches
<1> DEFINE newR2 == (fetch \/ d.newR) /\ ~load
           ld2 == IF load THEN kept + NStrm ELSE kept
           flg == RoomLeft(ld, kept)
<1>4. /\ ld2 \in Int /\ 0 <= ld2 - m /\ ld2 - m < 2 * NStrm
      /\ ld = IF newR2 THEN ld2 + NStrm ELSE ld2
      /\ newR2 => ~flg
      /\ ~newR2 /\ ld2 - m < NStrm => flg
      /\ ~(fetch /\ d.newR)
  <2> DEFINE any == d.bak1 # Lanes
  <2>1. fetch = (any /\ d.ldFlg) /\ any \in BOOLEAN /\ (m > 0 => any)
    BY <1>a DEF Fetches
  <2>2. ld = ((kept + IF d.newR THEN NStrm ELSE 0) + IF fetch THEN NStrm ELSE 0)
    <3>1. d.ld - d.rn = kept + IF d.newR THEN NStrm ELSE 0
      <4> DEFINE a == d.ld
                 b == d.ld2
                 e == d.rn
      <4>1. a \in Int /\ b \in Int /\ e \in Int /\ kept = b - e
            /\ a = (IF d.newR THEN b + NStrm ELSE b)
        BY <1>1, <1>2, <1>a
      <4> HIDE DEF a, b, e
      <4>2. a - e = kept + IF d.newR THEN NStrm ELSE 0
        BY <4>1, <1>0
      <4> QED
        BY <4>2 DEF a, e
    <3> QED
      BY <3>1, <1>b
  <2>3. flg = (ld < 2 * NStrm /\ ld <= IF kept < NStrm THEN kept + 2 * NStrm ELSE kept + NStrm)
    BY DEF RoomLeft
  <2>6. load = ((fetch \/ d.newR) /\ kept < NStrm) /\ ld2 = (IF load THEN kept + NStrm ELSE kept)
        /\ newR2 = ((fetch \/ d.newR) /\ ~load)
    BY <1>a
  <2> HIDE DEF any, flg, newR2, ld2
  <2>4. /\ kept \in Int /\ 0 <= kept /\ kept < 2 * NStrm
        /\ d.newR => ~d.ldFlg
        /\ ~d.newR /\ kept < NStrm => d.ldFlg
    BY <1>2
  <2>5. d.newR \in BOOLEAN /\ d.ldFlg \in BOOLEAN
    BY <1>1
  <2> QED
    <3>1. Counted(m, kept, any, d.newR, d.ldFlg, fetch, load, newR2, ld, ld2, flg)
      BY <1>2, <2>1, <2>2, <2>3, <2>4, <2>5, <2>6 DEF Counted
    <3> QED
      BY <3>1, Counts
<1> HIDE DEF flg
<1>5. /\ d2.bak1 = full /\ d2.ld = ld /\ d2.ld2 = ld2 /\ d2.rn = m /\ d2.ldFlg = flg
      /\ d2.newR = newR2 /\ d2.wb = load /\ d2.high = high /\ d2.r = r /\ d2.p = p /\ d2.q = q
      /\ d2.base = PlaceAfter(d, m) /\ d2.pc = d.pc
  BY RoundFields DEF flg
<1> DEFINE F2 == Fetched(d2, L2)
<1>6. /\ F \in 0..n /\ F < n /\ Len(c) = (n + 1) - F /\ c \in Seq(Words)
      /\ \A k \in 1..Len(c) : c[k] = cs[F + k]
  <2>1. /\ F \in 0..n /\ Len(c) = (n + 1) - F /\ c \in Seq(Words)
        /\ \A k \in 1..Len(c) : c[k] = cs[F + k]
    BY <1>2 DEF Unread
  <2> QED
    BY <2>1, <1>0
<1>7. F2 = (IF fetch THEN F + 1 ELSE F) /\ (load => F2 = L + 1)
  <2>1. F2 = IF newR2 THEN L2 + 1 ELSE L2
    BY <1>5 DEF Fetched
  <2>2. F = IF d.newR THEN L + 1 ELSE L
    BY DEF Fetched
  <2> HIDE DEF F, F2
  <2> QED
    BY <2>1, <2>2, <1>1, <1>3, <1>4, <1>a
<1>8. F2 \in 0..n /\ L2 \in 0..n
  <2>1. F2 \in 0..n
    BY <1>0, <1>6, <1>7
  <2>2. L <= F
    BY <1>1 DEF Fetched
  <2> HIDE DEF F, F2
  <2> QED
    BY <2>1, <2>2, <1>0, <1>6, <1>7
<1>9. Unread(cs, n, c2, F2)
  <2> HIDE DEF F2, F
  <2>1. CASE fetch
    <3>1. c # << >> /\ c2 = Tail(c)
      BY <1>6, <1>0, <1>c, <2>1
    <3>2. /\ Tail(c) \in Seq(Words) /\ Len(Tail(c)) = Len(c) - 1
          /\ \A k \in 1..Len(Tail(c)) : Tail(c)[k] = c[k + 1]
      BY <1>6, <3>1, HeadTailProperties
    <3>3. Len(c) - 1 = (n + 1) - F2 /\ F2 = F + 1
      BY <1>0, <1>6, <1>7, <2>1
    <3>4. \A k \in 1..Len(c) - 1 : k + 1 \in 1..Len(c) /\ F + (k + 1) = F2 + k
      BY <1>0, <1>6, <3>3
    <3>5. \A k \in 1..Len(c2) : c2[k] = cs[F2 + k]
      <4> SUFFICES ASSUME NEW k \in 1..Len(c2)
                   PROVE  c2[k] = cs[F2 + k]
        OBVIOUS
      <4>1. k \in 1..Len(c) - 1 /\ c2[k] = c[k + 1]
        BY <3>1, <3>2
      <4>2. c[k + 1] = cs[F + (k + 1)]
        BY <4>1, <3>4, <1>6
      <4> QED
        BY <4>1, <4>2, <3>4
    <3> QED
      BY <1>8, <3>1, <3>2, <3>3, <3>5 DEF Unread
  <2>2. CASE ~fetch
    BY <1>2, <1>7, <1>c, <2>2
  <2> QED
    BY <2>1, <2>2, <1>3
<1>10. r \in Group /\ (F2 > 0 => r = Elements(cs[F2]))
  <2> HIDE DEF F2, F
  <2>1. CASE fetch
    <3>1. Head(c) = c[1] /\ 1 \in 1..Len(c)
      BY <1>6
    <3>2. c[1] = cs[F + 1]
      BY <3>1, <1>6
    <3>3. r = Elements(cs[F + 1]) /\ F2 = F + 1 /\ F + 1 \in 1..n + 1
      BY <2>1, <3>1, <3>2, <1>0, <1>6, <1>7, <1>c
    <3>4. Elements(cs[F + 1]) \in Group
      BY <3>3 DEF Dealing
    <3> QED
      BY <3>3, <3>4
  <2>2. CASE ~fetch
    BY <2>2, <1>1, <1>2, <1>7, <1>c
  <2> QED
    BY <2>1, <2>2, <1>3
<1>11. high <=> F2 % 2 = 0
  <2> HIDE DEF F2
  <2>1. CASE fetch
    <3>1. high = ~d.high /\ F2 = F + 1 /\ F \in Nat
      BY <2>1, <1>6, <1>7, <1>a
    <3> HIDE DEF F
    <3>2. (F + 1) % 2 = 0 <=> ~(F % 2 = 0)
      BY <3>1
    <3> QED
      BY <3>1, <3>2, <1>2, <1>1
  <2>2. CASE ~fetch
    BY <2>2, <1>2, <1>7, <1>1, <1>a
  <2> QED
    BY <2>1, <2>2, <1>3
<1>12. p \in Group /\ q \in Group
  BY <1>1, <1>10, <1>d
<1>13. D + ld2 = L2 * NStrm /\ (L + 1) * NStrm = (L * NStrm) + NStrm /\ L * NStrm \in Nat
  <2>1. (L + 1) * NStrm = (L * NStrm) + NStrm /\ L * NStrm \in Nat
    BY <1>0
  <2>2. CASE load
    <3> DEFINE a == L * NStrm
    <3>1. D + kept = a /\ L2 * NStrm = a + NStrm /\ ld2 = kept + NStrm /\ a \in Nat
      BY <2>1, <2>2, <1>2
    <3> HIDE DEF a
    <3>a. kept \in Int /\ D \in Int /\ NStrm \in Int
      BY <1>0, <1>2
    <3> HIDE DEF ld2
    <3>2. D + ld2 = a + NStrm
      BY <3>1, <3>a
    <3> QED
      BY <2>1, <3>1, <3>2
  <2>3. CASE ~load
    BY <2>1, <2>3, <1>2
  <2> QED
    BY <2>2, <2>3, <1>3
<1>14. Holds(p, q, D, L2 * NStrm)
  <2>1. CASE load
    <3>1. L2 = L + 1 /\ F2 = L + 1 /\ kept < NStrm /\ L < n
      <4>1. L2 = L + 1 /\ F2 = L + 1 /\ kept < NStrm
        BY <2>1, <1>7, <1>a
      <4>2. L + 1 \in 0..n
        BY <4>1, <1>8
      <4> QED
        BY <4>1, <4>2, <1>0
    <3>2. high <=> ~(L % 2 = 0)
      <4>1. (L + 1) % 2 = 0 <=> ~(L % 2 = 0)
        OBVIOUS
      <4> QED
        BY <4>1, <3>1, <1>11
    <3>3. r = Elements(cs[L + 1])
      <4>1. L + 1 > 0
        OBVIOUS
      <4> QED
        BY <4>1, <3>1, <1>10
    <3>4. L * NStrm < D + NStrm /\ D <= L * NStrm
      <4> DEFINE a == L * NStrm
      <4>1. D + kept = a /\ a \in Nat
        BY <1>2, <1>13
      <4> HIDE DEF a
      <4>2. a < D + NStrm /\ D <= a
        BY <4>1, <3>1, <1>0, <1>2
      <4> QED
        BY <4>2 DEF a
    <3>5. p = (IF L % 2 = 0 THEN r ELSE d.p) /\ q = (IF L % 2 = 0 THEN d.q ELSE r)
      BY <2>1, <3>2, <1>d
    <3>6. Holds(p, q, D, (L + 1) * NStrm)
      <4>1. d.p \in Group /\ d.q \in Group /\ L < n /\ Holds(d.p, d.q, D, L * NStrm)
        BY <3>1, <1>1, <1>2
      <4> QED
        BY <3>3, <3>4, <3>5, <4>1, LoadHolds
    <3> QED
      BY <3>1, <3>6
  <2>2. CASE ~load
    <3>1. L2 = L /\ p = d.p /\ q = d.q
      BY <2>2, <1>d
    <3> QED
      BY <3>1, <1>2
  <2> QED
    BY <2>1, <2>2, <1>3
<1>15. Holds(p, q, D, D + m) /\ Holds(p, q, D + m, L2 * NStrm)
  <2> DEFINE a == L2 * NStrm
  <2>1. a = D + ld2 /\ m <= ld2 /\ m \in Nat /\ ld2 \in Int
    BY <1>0, <1>4, <1>13
  <2> HIDE DEF a, ld2
  <2>2. D + m <= a /\ a \in Int
    BY <2>1
  <2>3. \A x \in D + 1..D + m : x \in D + 1..a
    BY <2>2, <2>1
  <2>4. \A x \in (D + m) + 1..a : x \in D + 1..a
    BY <2>2, <2>1
  <2> QED
    BY <2>3, <2>4, <1>14 DEF Holds, a
<1>16. d2.base = (D + m) % (2 * NStrm) /\ d2.base \in Nat
  <2> DEFINE b == 2 * NStrm
  <2>1. b \in Nat /\ b > 0 /\ m \in Nat
    BY <1>0
  <2> HIDE DEF b
  <2>2. ((D % b) + m) % b = (D + m) % b
    BY <2>1, RemainderMore
  <2>3. (D + m) % b \in Nat
    BY <2>1, Division
  <2>4. d2.base = (D + m) % b
    BY <2>2, <1>2, <1>5 DEF PlaceAfter, b
  <2> QED
    BY <2>3, <2>4 DEF b
<1>17. d2 \in Locals
  <2>1. ld \in Int /\ m \in Int /\ kept \in Int
    BY <1>0, <1>1, <1>3, <1>b, <1>2
  <2>2. PlaceAfter(d, m) \in Nat
    BY <1>5, <1>16
  <2> QED
    BY <2>1, <2>2, <1>3, <1>10, <1>12, RoundTyped
<1>18. (D + m) + Kept(d2) = L2 * NStrm /\ 0 <= Kept(d2) /\ Kept(d2) < 2 * NStrm
  <2>1. Kept(d2) = ld2 - m
    BY <1>5 DEF Kept
  <2> DEFINE a == L2 * NStrm
  <2>2. D + ld2 = a
    BY <1>13
  <2>3. m \in Int /\ ld2 \in Int
    BY <1>4
  <2> HIDE DEF a, ld2
  <2>4. (D + m) + (ld2 - m) = a
    BY <2>2, <2>3
  <2> QED
    BY <2>1, <2>4, <1>4 DEF a
<1>19. F2 = n => d2.wb = ~d2.newR
  <2>1. F2 = n => fetch
    BY <1>6, <1>7
  <2> QED
    BY <2>1, <1>5, <1>3
<1>20. /\ d2.ld = IF d2.newR THEN d2.ld2 + NStrm ELSE d2.ld2
       /\ d2.newR => ~d2.ldFlg
       /\ ~d2.newR /\ Kept(d2) < NStrm => d2.ldFlg
  <2>1. Kept(d2) = ld2 - m
    BY <1>5 DEF Kept
  <2> QED
    BY <2>1, <1>4, <1>5
<1>21. /\ d2.high <=> F2 % 2 = 0
       /\ F2 > 0 => d2.r = Elements(cs[F2])
       /\ Holds(d2.p, d2.q, D + m, L2 * NStrm)
  BY <1>5, <1>10, <1>11, <1>15
<1>22. L2 \in Nat
  BY <1>8
<1>23. Looping(cs, n, c2, d2, L2, D + m)
  BY <1>9, <1>16, <1>18, <1>19, <1>20, <1>21, <1>22 DEF Looping
<1> QED
  BY <1>5, <1>8, <1>15, <1>17, <1>23

(* An iteration deals the next elements of the input, and no other.        *)
LEMMA LoopIterates ==
    ASSUME call \in Nat, NEW D \in Nat, Spread(got, deq, D), ds \in Locals,
           NEW L \in 0..Full, Looping(Chunks, Full, chunks, ds, L, D), Iterate
    PROVE  \E D2 \in Nat : \E L2 \in 0..Full :
              /\ ds' \in Locals /\ ds'.pc = ds.pc
              /\ Looping(Chunks, Full, chunks', ds', L2, D2)
              /\ Spread(got', deq', D2)
<1> DEFINE open == {i \in Lanes \ FullLanes : deq[i] # << >>}
           late == Late(ds)
           fetch == Fetches(ds)
           r == IF fetch THEN Elements(Head(chunks)) ELSE ds.r
           high == IF fetch THEN ~ds.high ELSE ds.high
           ld == ds.ld - ds.rn + IF fetch THEN NStrm ELSE 0
           kept == ds.ld2 - ds.rn
           load == (fetch \/ ds.newR) /\ kept < NStrm
           p == IF load /\ ~high THEN r ELSE ds.p
           q == IF load /\ high THEN r ELSE ds.q
           before(i) == Cardinality({j \in late : j < i})
           m == Cardinality(late)
           rank == [i \in late |-> before(i)]
           rest == Popped(deq, open)
           at(i) == (p \o q)[PlaceAfter(ds, before(i)) + 1]
<1>1. /\ got' = Written(got, deq, open)
      /\ deq' = [i \in Lanes |-> IF i \in late THEN Append(rest[i], at(i)) ELSE rest[i]]
      /\ Len(chunks) > 1
  BY DEF Iterate, Written, Popped
<1>2. /\ chunks' = (IF fetch THEN Tail(chunks) ELSE chunks)
      /\ ds' = [ds EXCEPT !.bak1 = FullLanes, !.ld = ld,
                          !.ld2 = IF load THEN kept + NStrm ELSE kept,
                          !.rn = m,
                          !.ldFlg = RoomLeft(ld, kept),
                          !.newR = (fetch \/ ds.newR) /\ ~load,
                          !.wb = load, !.high = high, !.r = r, !.p = p, !.q = q,
                          !.base = PlaceAfter(ds, m)]
  BY DEF Iterate
<1>3. Round(ds, chunks, FullLanes, m, fetch, load, r, high, ld, kept, p, q, chunks', ds')
  BY <1>2 DEF Round
<1>4. late \in SUBSET Lanes /\ late = Lanes \ ds.bak1 /\ open \in SUBSET Lanes
  BY DEF Late
<1>5. m \in 0..NStrm /\ (late # {} => m > 0) /\ Ranks(rank, late, m)
  <2> HIDE DEF late
  <2> QED
    BY <1>4, BeforeRanks
<1>6. late # {} <=> m > 0
  <2>1. late = {} => m = 0
    BY FS_EmptySet
  <2> HIDE DEF m
  <2> QED
    BY <1>5, <2>1
<1>7. FullLanes \in SUBSET Lanes
  BY DEF FullLanes
<1>8. Dealing(Chunks, Full, Total, LeftN) /\ L \in Nat
  BY InputDeals
<1> DEFINE L2 == IF load THEN L + 1 ELSE L
<1> HIDE DEF late, open, fetch, load, r, high, ld, kept, p, q, m, before
<1>9. /\ ds' \in Locals /\ ds'.pc = ds.pc
      /\ L2 \in 0..Full /\ Looping(Chunks, Full, chunks', ds', L2, D + m)
      /\ Holds(p, q, D, D + m)
  <2>1. Lanes \ ds.bak1 # {} <=> m > 0
    BY <1>4, <1>6
  <2> QED
    BY <1>1, <1>3, <1>5, <1>7, <1>8, <2>1, IterateData
<1>10. ASSUME NEW i \in late PROVE at(i) = El((D + rank[i]) + 1)
  <2> DEFINE b == 2 * NStrm
             k == before(i)
             x == (D + k) + 1
  <2>1. rank[i] = k /\ rank[i] \in 0..m - 1
    BY <1>5 DEF Ranks
  <2>2. b \in Nat /\ b > 0 /\ k \in Nat /\ k < m /\ m \in Nat
    BY <1>5, <2>1, Constants
  <2> HIDE DEF b, k
  <2>3. ds.base = D % b
    BY DEF Looping, b
  <2>4. ((D % b) + k) % b = (D + k) % b
    BY <2>2, RemainderMore
  <2>5. PlaceAfter(ds, k) + 1 = PlaceOf(x)
    <3>1. x - 1 = D + k
      BY <2>2
    <3> QED
      BY <2>3, <2>4, <3>1 DEF PlaceAfter, PlaceOf, b
  <2>6. x \in D + 1..D + m
    BY <2>2
  <2>7. (p \o q)[PlaceOf(x)] = El(x)
    BY <2>6, <1>9 DEF Holds
  <2> QED
    BY <2>1, <2>5, <2>7 DEF k
<1>11. deq' = Refilled(rest, D, late, rank)
  <2> HIDE DEF at, rank, rest
  <2> QED
    BY <1>1, <1>10 DEF Refilled
<1>12. \A i \in open : deq[i] # << >>
  BY DEF open
<1>13. D + m \in Nat /\ m \in Nat
  BY <1>5
<1> HIDE DEF at, rank, L2
<1>14. Spread(got', deq', D + m)
  <2>1. Spread(Written(got, deq, open), Refilled(Popped(deq, open), D, late, rank), D + m)
    BY <1>4, <1>5, <1>12, <1>13, SpreadRound
  <2> QED
    BY <2>1, <1>1, <1>11
<1> QED
  BY <1>9, <1>13, <1>14

-----------------------------------------------------------------------------
(* The steps after the loop.                                               *)

LEMMA DealtIsInput ==
    ASSUME NEW cs, NEW n, NEW t, NEW l, Dealing(cs, n, t, l),
           NEW c, NEW d, NEW q, NEW e, NEW D \in Nat,
           Progress(cs, n, t, l, c, d, q, e, D)
    PROVE  D <= t
<1>0. n \in Nat /\ l \in Nat /\ t = (n * NStrm) + l /\ NStrm \in Nat /\ NStrm > 0
  BY Constants DEF Dealing
<1>1. n * NStrm \in Nat
  BY <1>0
<1> DEFINE a == n * NStrm
<1>2. a \in Nat /\ t = a + l
  BY <1>0, <1>1
<1> HIDE DEF a
<1>d. d \in Locals
  BY DEF Progress
<1>l. ASSUME NEW L \in 0..n PROVE L * NStrm <= a /\ L * NStrm \in Nat
  <2>1. L \in Nat /\ L <= n
    BY <1>0
  <2> QED
    BY <2>1, <1>0, ProductsOrdered DEF a
<1>3. CASE d.pc \in {"loop", "rings"}
  <2>1. PICK L \in 0..n : Looping(cs, n, c, d, L, D)
    BY <1>3 DEF Progress
  <2> DEFINE b == L * NStrm
             k == Kept(d)
  <2>2. b <= a /\ b \in Nat /\ D + k = b /\ 0 <= k /\ k \in Int
    BY <2>1, <1>l, <1>d DEF Looping, Kept, Locals
  <2> HIDE DEF b, k
  <2> QED
    BY <2>2, <1>0, <1>2
<1>4. CASE d.pc = "array"
  <2>1. PICK L \in 0..n : Arrayed(cs, n, c, d, L, D)
    BY <1>4 DEF Progress
  <2> DEFINE b == L * NStrm
             k == d.ld2
  <2>2. b <= a /\ b \in Nat /\ D + k = b /\ k \in Nat
    BY <2>1, <1>l DEF Arrayed
  <2> HIDE DEF b, k
  <2> QED
    BY <2>2, <1>0, <1>2
<1>5. CASE d.pc = "register"
  <2> DEFINE k == d.at
  <2>1. k \in 0..NStrm /\ D + NStrm = a + k
    BY <1>5 DEF Progress, Registered, a
  <2> HIDE DEF k
  <2> QED
    BY <2>1, <1>0, <1>2
<1>6. CASE d.pc = "last"
  <2> DEFINE k == d.at
  <2>1. k \in 0..l /\ D = a + k
    BY <1>6 DEF Progress, Lasting, a
  <2> HIDE DEF k
  <2> QED
    BY <2>1, <1>0, <1>2
<1>7. CASE d.pc = "done"
  BY <1>0, <1>2, <1>7 DEF Progress
<1> QED
  BY <1>d, <1>3, <1>4, <1>5, <1>6, <1>7 DEF Locals, Phases

LEMMA JunkTyped == JunkChunk \in Group
<1>1. Junk \in Nat
  BY DEF Junk
<1> QED
  BY <1>1 DEF JunkChunk, Group, Elem

LEMMA DealInit == Init => DealInv
<1> SUFFICES ASSUME Init PROVE DealInv
  OBVIOUS
<1>1. call \in Nat
  BY ScatterAssumption DEF Init, ScatterAssumption
<1>2. Dealing(Chunks, Full, Total, LeftN) /\ Total \in Nat /\ Full \in Nat
  BY <1>1, InputDeals, LeftIs DEF Dealing
<1>3. PICK late \in SUBSET Lanes :
       ds = [pc |-> "loop", bak1 |-> late, ld |-> 0, ld2 |-> 0, rn |-> 0,
             ldFlg |-> TRUE, newR |-> FALSE, wb |-> TRUE, high |-> TRUE,
             r |-> JunkChunk, p |-> JunkChunk, q |-> JunkChunk,
             base |-> 0, sid |-> 0, at |-> 0]
  BY DEF Init
<1>4. 0 \in Lanes /\ NStrm \in Nat /\ NStrm > 0
  BY Constants DEF Lanes
<1>5. ds \in Locals
  <2>1. JunkChunk \in Group
    BY JunkTyped
  <2> HIDE DEF JunkChunk
  <2> QED
    BY <1>3, <1>4, <2>1 DEF Locals, Phases
<1>6. Spread(got, deq, 0)
  BY SpreadInit DEF Init
<1>7. Unread(Chunks, Full, chunks, 0)
  <2>1. chunks = Chunks
    BY DEF Init, Chunks
  <2>2. \A k \in 1..Len(Chunks) : 0 + k = k
    BY <1>2 DEF Dealing
  <2>3. Full + 1 = (Full + 1) - 0 /\ 0 \in 0..Full
    BY <1>2
  <2> QED
    BY <1>2, <2>1, <2>2, <2>3 DEF Dealing, Unread
<1>8. /\ ds.pc = "loop" /\ Fetched(ds, 0) = 0 /\ Kept(ds) = 0 /\ ds.ld = 0 /\ ds.ld2 = 0
      /\ ds.ldFlg = TRUE /\ ds.newR = FALSE /\ ds.high = TRUE /\ ds.base = 0 /\ ds.wb = TRUE
  BY <1>3 DEF Fetched, Kept
<1>9. 0 * NStrm = 0 /\ 0 % (2 * NStrm) = 0 /\ 0 % 2 = 0
  BY <1>4, RemainderSmall
<1>10. Holds(ds.p, ds.q, 0, 0 * NStrm)
  BY <1>9 DEF Holds
<1>11. Looping(Chunks, Full, chunks, ds, 0, 0)
  <2>1. /\ 0 \in Nat /\ 0 + 0 = 0 * NStrm /\ 0 <= 0 /\ 0 < 2 * NStrm /\ ~(0 > 0)
    BY <1>4, <1>9
  <2> QED
    BY <2>1, <1>7, <1>8, <1>9, <1>10 DEF Looping
<1>12. Progress(Chunks, Full, Total, LeftN, chunks, ds, deq, ended, 0)
  <2>1. 0 \in 0..Full /\ ended = {}
    BY <1>2 DEF Init
  <2> QED
    BY <1>5, <1>8, <1>11, <2>1 DEF Progress
<1>13. 0 \in Nat /\ 0 <= Total /\ 0 \in 0..Total
  BY <1>2
<1>14. DealtTo(0)
  BY <1>6, <1>12, <1>13 DEF DealtTo
<1> QED
  BY <1>1, <1>13, <1>14 DEF DealInv

(* The end of the loop: the rest of the chunks is the last one.            *)
LEMMA LoopLeft ==
    ASSUME NEW cs, NEW n, NEW t, NEW l, Dealing(cs, n, t, l),
           NEW c, NEW d, NEW L, NEW D, Looping(cs, n, c, d, L, D), Len(c) = 1
    PROVE  Fetched(d, L) = n
<1> DEFINE f == Fetched(d, L)
<1>1. n \in Nat /\ f \in 0..n /\ 1 = (n + 1) - f
  BY DEF Dealing, Looping, Unread
<1> HIDE DEF f
<1>2. f = n
  BY <1>1
<1> QED
  BY <1>2 DEF f

(* The rings are empty: what buf_arr holds comes next.                     *)
LEMMA RingsLeft ==
    ASSUME NEW cs, NEW n, NEW t, NEW l, Dealing(cs, n, t, l),
           NEW c, NEW d \in Locals, NEW L \in 0..n, NEW D \in Nat,
           Looping(cs, n, c, d, L, D), Fetched(d, L) = n,
           NEW d2, d2 = [d EXCEPT !.pc = "array", !.ld2 = @ - d.rn, !.at = d.base]
    PROVE  d2 \in Locals /\ d2.pc = "array" /\ Arrayed(cs, n, c, d2, L, D)
<1>1. /\ d2.pc = "array" /\ d2.ld2 = Kept(d) /\ d2.at = d.base /\ d2.newR = d.newR
      /\ d2.r = d.r /\ d2.p = d.p /\ d2.q = d.q /\ d2.wb = d.wb
  BY DEF Locals, Kept
<1>2. d2 \in Locals
  <2> DEFINE k == d.ld2 - d.rn
             at == d.base
  <2>1. k \in Int /\ at \in Nat /\ "array" \in Phases
    BY DEF Locals, Phases
  <2>2. d2 = [d EXCEPT !.pc = "array", !.ld2 = k, !.at = at]
    OBVIOUS
  <2> HIDE DEF k, at
  <2> QED
    BY <2>1, <2>2 DEF Locals
<1>3. Kept(d) \in Nat
  <2>1. d.ld2 \in Int /\ d.rn \in Int /\ 0 <= Kept(d)
    BY DEF Locals, Looping
  <2> QED
    BY <2>1 DEF Kept
<1>4. Fetched(d2, L) = n
  BY <1>1 DEF Fetched
<1>5. /\ L \in Nat /\ Unread(cs, n, c, n) /\ D + d2.ld2 = L * NStrm
      /\ d2.at = D % (2 * NStrm) /\ Holds(d2.p, d2.q, D, L * NStrm)
  BY <1>1 DEF Looping
<1>6. d2.wb = ~d2.newR /\ (n > 0 => d2.r = Elements(cs[n]))
  BY <1>1 DEF Looping
<1> QED
  BY <1>1, <1>2, <1>3, <1>4, <1>5, <1>6 DEF Arrayed

(* The locals after the next element of buf_arr, or of buff_r, is given,   *)
(* and after the turn has moved.                                           *)
ArrayNext(d) == [d EXCEPT !.ld2 = @ - 1, !.at = (@ + 1) % (2 * NStrm)]
RegisterNext(d) == [d EXCEPT !.at = @ + 1]
Turned(d) == [d EXCEPT !.sid = NextLane(@)]

LEMMA NextLaneIs ==
    ASSUME NEW i \in Lanes
    PROVE  NextLane(i) \in Lanes
<1> DEFINE x == (i + 1) % NStrm
<1>1. NStrm \in Nat /\ NStrm > 0 /\ i + 1 \in Nat
  BY Constants DEF Lanes
<1>2. \A y \in Nat : y % NStrm \in Nat /\ y % NStrm < NStrm
  BY <1>1, Division
<1>3. x \in Nat /\ x < NStrm
  BY <1>1, <1>2
<1> HIDE DEF x
<1>4. x \in 0..NStrm - 1
  BY <1>1, <1>3
<1> QED
  BY <1>4 DEF x, NextLane, Lanes

(* The next element of buf_arr.                                            *)
LEMMA ArrayDeals ==
    ASSUME NEW cs, NEW n, NEW t, NEW l, Dealing(cs, n, t, l),
           NEW c, NEW d \in Locals, NEW L \in 0..n, NEW D \in Nat,
           Arrayed(cs, n, c, d, L, D), d.ld2 > 0
    PROVE  /\ BufArr(d)[d.at + 1] = El(D + 1)
           /\ Turned(ArrayNext(d)) \in Locals /\ Turned(ArrayNext(d)).pc = d.pc
           /\ Arrayed(cs, n, c, Turned(ArrayNext(d)), L, D + 1)
<1> DEFINE d2 == Turned(ArrayNext(d))
           sid == NextLane(d.sid)
           b == 2 * NStrm
           a == L * NStrm
           k == d.ld2
<1>d. d2 = [d EXCEPT !.ld2 = @ - 1, !.at = (@ + 1) % (2 * NStrm), !.sid = sid]
  BY DEF Turned, ArrayNext, Locals
<1>s. sid \in Lanes
  BY NextLaneIs DEF Locals
<1> HIDE DEF d2, sid
<1>0. b \in Nat /\ b > 0 /\ a \in Nat
  BY Constants DEF Dealing
<1>1. /\ D + k = a /\ k \in Nat /\ k > 0 /\ d.at = D % b /\ Holds(d.p, d.q, D, a)
  BY DEF Arrayed
<1>2. /\ d2.ld2 = k - 1 /\ d2.at = (d.at + 1) % b /\ d2.newR = d.newR /\ d2.pc = d.pc
      /\ d2.r = d.r /\ d2.p = d.p /\ d2.q = d.q /\ d2.wb = d.wb
  BY <1>d DEF Locals
<1> HIDE DEF b, a, k
<1>3. D + 1 \in D + 1..a /\ (D + 1) + (k - 1) = a /\ k - 1 \in Nat /\ (D + 1) - 1 = D
  BY <1>0, <1>1
<1>4. BufArr(d)[d.at + 1] = El(D + 1)
  <2>1. PlaceOf(D + 1) = d.at + 1
    BY <1>1, <1>3 DEF PlaceOf, b
  <2>2. (d.p \o d.q)[PlaceOf(D + 1)] = El(D + 1)
    BY <1>1, <1>3 DEF Holds
  <2> QED
    BY <2>1, <2>2 DEF BufArr
<1>5. d2.at = (D + 1) % b /\ d2.at \in Nat
  <2>1. ((D % b) + 1) % b = (D + 1) % b
    BY <1>0, RemainderMore
  <2>2. (D + 1) % b \in Nat
    <3>1. \A x \in Nat : x % b \in Nat
      BY <1>0, Division
    <3> QED
      BY <3>1
  <2> QED
    BY <2>1, <2>2, <1>1, <1>2
<1>6. d2 \in Locals
  <2> DEFINE k2 == k - 1
             at == (d.at + 1) % b
  <2>1. k2 \in Int /\ at \in Nat
    BY <1>2, <1>3, <1>5
  <2>2. d2 = [d EXCEPT !.ld2 = k2, !.at = at, !.sid = sid]
    BY <1>d DEF k, b
  <2> HIDE DEF k2, at
  <2> QED
    BY <2>1, <2>2, <1>s DEF Locals
<1>7. Holds(d2.p, d2.q, D + 1, a)
  <2>1. \A x \in (D + 1) + 1..a : x \in D + 1..a
    BY <1>0
  <2> QED
    BY <2>1, <1>1, <1>2 DEF Holds
<1>8. Fetched(d2, L) = n /\ L \in Nat /\ Unread(cs, n, c, n) /\ (n > 0 => d2.r = Elements(cs[n]))
      /\ d2.wb = ~d2.newR
  BY <1>2 DEF Arrayed, Fetched
<1>9. Arrayed(cs, n, c, d2, L, D + 1)
  BY <1>2, <1>3, <1>5, <1>7, <1>8 DEF Arrayed, a, b
<1> QED
  BY <1>2, <1>4, <1>6, <1>9 DEF d2

(* buf_arr is empty: what is in buff_r comes next, unless it was put there.*)
LEMMA ArrayLeft ==
    ASSUME NEW cs, NEW n, NEW t, NEW l, Dealing(cs, n, t, l),
           NEW c, NEW d \in Locals, NEW L \in 0..n, NEW D \in Nat,
           Arrayed(cs, n, c, d, L, D), d.ld2 <= 0,
           NEW d2, d2 = [d EXCEPT !.pc = "register", !.at = RegisterFrom(d)]
    PROVE  d2 \in Locals /\ d2.pc = "register" /\ Registered(cs, n, c, d2, D)
<1>0. NStrm \in Nat /\ NStrm > 0 /\ n \in Nat
  BY Constants DEF Dealing
<1> DEFINE a == L * NStrm
           b == n * NStrm
           k == d.ld2
           at == RegisterFrom(d)
<1>1. /\ D + k = a /\ k \in Nat /\ k <= 0 /\ d.wb = ~d.newR
      /\ (n > 0 => d.r = Elements(cs[n])) /\ n = (IF d.newR THEN L + 1 ELSE L)
      /\ L \in Nat /\ Unread(cs, n, c, n)
  BY DEF Arrayed, Fetched
<1>2. d.newR \in BOOLEAN /\ d.wb \in BOOLEAN
  BY DEF Locals
<1>3. at = IF d.newR THEN 0 ELSE NStrm
  BY <1>1, <1>2 DEF RegisterFrom
<1>4. at \in 0..NStrm /\ at \in Nat
  BY <1>0, <1>3
<1> HIDE DEF at
<1>5. d2.pc = "register" /\ d2.at = at /\ d2.r = d.r
  BY DEF Locals, at
<1>6. d2 \in Locals
  <2>1. d2 = [d EXCEPT !.pc = "register", !.at = at] /\ "register" \in Phases
    BY DEF at, Phases
  <2> QED
    BY <2>1, <1>4 DEF Locals
<1>7. (L + 1) * NStrm = a + NStrm /\ a \in Nat /\ b \in Nat
  BY <1>0
<1> HIDE DEF a, k
<1>8. D = a
  BY <1>1, <1>7
<1>9. D + NStrm = b + at /\ (at < NStrm => n > 0)
  <2>1. CASE d.newR
    <3>1. n = L + 1 /\ at = 0 /\ b = a + NStrm
      BY <2>1, <1>1, <1>3, <1>7
    <3> HIDE DEF b
    <3> QED
      BY <3>1, <1>0, <1>1, <1>7, <1>8
  <2>2. CASE ~d.newR
    <3>1. b = a /\ at = NStrm
      BY <2>2, <1>1, <1>3 DEF a
    <3> HIDE DEF b
    <3> QED
      BY <3>1, <1>0, <1>7, <1>8
  <2> QED
    BY <2>1, <2>2, <1>2
<1>10. Registered(cs, n, c, d2, D)
  BY <1>1, <1>4, <1>5, <1>9 DEF Registered, b
<1> QED
  BY <1>5, <1>6, <1>10

(* The next element of buff_r.                                             *)
LEMMA RegisterDeals ==
    ASSUME NEW cs, NEW n, NEW t, NEW l, Dealing(cs, n, t, l),
           NEW c, NEW d \in Locals, NEW D \in Nat,
           Registered(cs, n, c, d, D), d.at < NStrm
    PROVE  /\ d.r[d.at + 1] = El(D + 1)
           /\ Turned(RegisterNext(d)) \in Locals /\ Turned(RegisterNext(d)).pc = d.pc
           /\ Registered(cs, n, c, Turned(RegisterNext(d)), D + 1)
<1> DEFINE d2 == Turned(RegisterNext(d))
           sid == NextLane(d.sid)
           k == d.at
           m == n - 1
           a == m * NStrm
<1>d. d2 = [d EXCEPT !.at = @ + 1, !.sid = sid]
  BY DEF Turned, RegisterNext, Locals
<1>s. sid \in Lanes
  BY NextLaneIs DEF Locals
<1> HIDE DEF d2, sid
<1>0. NStrm \in Nat /\ NStrm > 0 /\ n \in Nat
  BY Constants DEF Dealing
<1>1. /\ k \in 0..NStrm /\ k < NStrm /\ n > 0 /\ d.r = Elements(cs[n])
      /\ D + NStrm = (n * NStrm) + k /\ Unread(cs, n, c, n)
  BY DEF Registered
<1>2. d2.at = k + 1 /\ d2.pc = d.pc /\ d2.r = d.r
  BY <1>d DEF Locals
<1> HIDE DEF k
<1>3. k \in Nat /\ k + 1 \in 1..NStrm /\ k + 1 \in 0..NStrm
  BY <1>0, <1>1
<1>4. m \in 0..n /\ m < n /\ n = m + 1 /\ n * NStrm = a + NStrm /\ a \in Nat
  <2>1. m \in Nat /\ m < n /\ n = m + 1
    BY <1>0, <1>1
  <2> HIDE DEF m
  <2>2. (m + 1) * NStrm = a + NStrm /\ a \in Nat
    BY <2>1, <1>0
  <2> QED
    BY <2>1, <2>2, <1>0
<1> HIDE DEF m
<1>5. D + 1 = a + (k + 1)
  <2> HIDE DEF a
  <2>1. D + NStrm = (a + NStrm) + k
    BY <1>1, <1>4
  <2> QED
    BY <2>1, <1>0, <1>3, <1>4
<1>6. d.r[k + 1] = El(D + 1)
  <2> DEFINE e == k + 1
  <2>1. e \in 1..NStrm
    BY <1>3
  <2> HIDE DEF e
  <2>2. Elements(cs[m + 1])[e] = El((m * NStrm) + e)
    BY <2>1, <1>4, ElementOf
  <2> QED
    BY <2>2, <1>1, <1>4, <1>5 DEF e
<1>7. d2 \in Locals
  <2>1. d2 = [d EXCEPT !.at = k + 1, !.sid = sid] /\ k + 1 \in Nat
    BY <1>3, <1>d DEF k
  <2> QED
    BY <2>1, <1>s DEF Locals
<1>8. (D + 1) + NStrm = (n * NStrm) + (k + 1)
  <2> DEFINE b == n * NStrm
  <2>1. b \in Nat /\ D + NStrm = b + k
    BY <1>1, <1>4, <1>0
  <2> HIDE DEF b
  <2>2. (D + 1) + NStrm = b + (k + 1)
    BY <2>1, <1>0, <1>3
  <2> QED
    BY <2>2 DEF b
<1>9. Registered(cs, n, c, d2, D + 1)
  BY <1>1, <1>2, <1>3, <1>8 DEF Registered
<1> QED
  BY <1>2, <1>6, <1>7, <1>9 DEF k, d2

LEMMA LocalsAt ==
    ASSUME NEW d \in Locals, NEW pc \in Phases, NEW at \in Nat, NEW r \in Group
    PROVE  [d EXCEPT !.pc = pc, !.at = at, !.r = r] \in Locals
BY DEF Locals

(* buff_r takes the last chunk.                                            *)
LEMMA RegisterLeft ==
    ASSUME NEW cs, NEW n, NEW t, NEW l, Dealing(cs, n, t, l),
           NEW c, NEW d \in Locals, NEW D \in Nat,
           Registered(cs, n, c, d, D), d.at = NStrm,
           NEW d2, d2 = [d EXCEPT !.pc = "last", !.at = 0, !.r = Elements(Head(c))]
    PROVE  d2 \in Locals /\ d2.pc = "last" /\ Lasting(cs, n, l, d2, D)
<1>0. NStrm \in Nat /\ NStrm > 0 /\ n \in Nat /\ l \in Nat
  BY Constants DEF Dealing
<1>1. D + NStrm = (n * NStrm) + NStrm /\ Unread(cs, n, c, n)
  BY DEF Registered
<1>2. Head(c) = cs[n + 1]
  <2>1. c \in Seq(Words) /\ Len(c) = (n + 1) - n /\ \A k \in 1..Len(c) : c[k] = cs[n + k]
    BY <1>1 DEF Unread
  <2>2. Len(c) = 1
    BY <2>1, <1>0
  <2>3. \A S : \A s \in Seq(S) : Head(s) = s[1]
    OBVIOUS
  <2>4. 1 \in 1..Len(c)
    BY <2>2
  <2>5. Head(c) = c[1] /\ c[1] = cs[n + 1]
    BY <2>1, <2>3, <2>4
  <2> QED
    BY <2>5
<1> DEFINE r == Elements(Head(c))
<1>3. r = Elements(cs[n + 1]) /\ r \in Group
  <2>1. n + 1 \in 1..n + 1
    BY <1>0
  <2>2. Elements(cs[n + 1]) \in Group
    BY <2>1 DEF Dealing
  <2> QED
    BY <2>2, <1>2
<1> HIDE DEF r
<1>4. d2 = [d EXCEPT !.pc = "last", !.at = 0, !.r = r] /\ "last" \in Phases
  BY DEF r, Phases
<1>5. d2 \in Locals
  <2>1. 0 \in Nat /\ "last" \in Phases
    BY <1>4
  <2>2. [d EXCEPT !.pc = "last", !.at = 0, !.r = r] \in Locals
    BY <2>1, <1>3, LocalsAt, Zenon
  <2> QED
    BY <2>2, <1>4, Zenon
<1>6. d2.pc = "last" /\ d2.at = 0 /\ d2.r = r
  BY <1>4 DEF Locals
<1>7. D = (n * NStrm) + 0 /\ 0 \in 0..l
  <2> DEFINE b == n * NStrm
  <2>1. b \in Nat /\ D + NStrm = b + NStrm
    BY <1>0, <1>1
  <2> HIDE DEF b
  <2>2. D = b + 0
    BY <2>1, <1>0
  <2> QED
    BY <2>2, <1>0 DEF b
<1> QED
  BY <1>3, <1>5, <1>6, <1>7 DEF Lasting

(* The next element of the last chunk.                                     *)
LEMMA LastDeals ==
    ASSUME NEW cs, NEW n, NEW t, NEW l, Dealing(cs, n, t, l),
           NEW d \in Locals, NEW D \in Nat,
           Lasting(cs, n, l, d, D), d.at < l
    PROVE  /\ d.r[d.at + 1] = El(D + 1)
           /\ Turned(RegisterNext(d)) \in Locals /\ Turned(RegisterNext(d)).pc = d.pc
           /\ Lasting(cs, n, l, Turned(RegisterNext(d)), D + 1)
<1> DEFINE d2 == Turned(RegisterNext(d))
           sid == NextLane(d.sid)
           k == d.at
           b == n * NStrm
<1>d. d2 = [d EXCEPT !.at = @ + 1, !.sid = sid]
  BY DEF Turned, RegisterNext, Locals
<1>s. sid \in Lanes
  BY NextLaneIs DEF Locals
<1> HIDE DEF d2, sid
<1>0. NStrm \in Nat /\ NStrm > 0 /\ n \in Nat /\ l \in 0..NStrm - 1
  BY Constants DEF Dealing
<1>1. k \in 0..l /\ k < l /\ d.r = Elements(cs[n + 1]) /\ D = b + k
  BY DEF Lasting
<1>2. d2.at = k + 1 /\ d2.pc = d.pc /\ d2.r = d.r
  BY <1>d DEF Locals
<1> HIDE DEF k
<1>3. k \in Nat /\ k + 1 \in 1..NStrm /\ k + 1 <= l /\ k + 1 \in 0..l
  BY <1>0, <1>1
<1>4. D + 1 = b + (k + 1)
  <2>1. b \in Nat
    BY <1>0
  <2> HIDE DEF b
  <2> QED
    BY <2>1, <1>1, <1>3
<1>5. d.r[k + 1] = El(D + 1)
  <2> DEFINE e == k + 1
  <2>1. e \in 1..NStrm /\ e <= l /\ n \in 0..n
    BY <1>0, <1>3
  <2> HIDE DEF e
  <2>2. Elements(cs[n + 1])[e] = El((n * NStrm) + e)
    BY <2>1, ElementOf
  <2> QED
    BY <2>2, <1>1, <1>4 DEF e
<1>6. d2 \in Locals
  <2>1. d2 = [d EXCEPT !.at = k + 1, !.sid = sid] /\ k + 1 \in Nat
    BY <1>3, <1>d DEF k
  <2> QED
    BY <2>1, <1>s DEF Locals
<1>7. Lasting(cs, n, l, d2, D + 1)
  BY <1>1, <1>2, <1>3, <1>4 DEF Lasting
<1> QED
  BY <1>2, <1>5, <1>6, <1>7 DEF k, d2

LEMMA LastLeft ==
    ASSUME NEW cs, NEW n, NEW t, NEW l, Dealing(cs, n, t, l),
           NEW d, NEW D \in Nat, Lasting(cs, n, l, d, D), d.at >= l
    PROVE  D = t
<1> DEFINE k == d.at
           b == n * NStrm
<1>1. k \in 0..l /\ k >= l /\ D = b + k /\ t = b + l /\ l \in 0..NStrm - 1
  BY DEF Lasting, Dealing
<1>2. l \in Nat
  BY <1>1, Constants
<1> HIDE DEF k, b
<1>3. k = l
  BY <1>1, <1>2
<1> QED
  BY <1>1, <1>3

-----------------------------------------------------------------------------
(* Every step keeps what has been dealt and what is held in step.          *)

(* What a step has to give.                                                *)
LEMMA DealtNext ==
    ASSUME call \in Nat, call' = call, NEW D \in Nat, Spread(got', deq', D),
           Progress(Chunks, Full, Total, LeftN, chunks', ds', deq', ended', D)
    PROVE  DealInv'
<1>1. /\ Chunks' = Chunks /\ Full' = Full /\ Total' = Total /\ LeftN' = LeftN
      /\ call' \in Nat
  BY DEF Chunks, Full, Total, LeftN
<1>2. Total \in Nat /\ Dealing(Chunks, Full, Total, LeftN)
  BY LeftIs, InputDeals
<1>3. D <= Total
  BY <1>2, DealtIsInput
<1>4. D \in 0..Total
  BY <1>2, <1>3
<1> HIDE DEF Chunks, Full, Total, LeftN
<1>5. DealtTo(D)'
  BY <1>1, <1>3 DEF DealtTo
<1> QED
  BY <1>1, <1>4, <1>5 DEF DealInv

(* A lane is found full and passed over, or given the next element.        *)
LEMMA DealStep ==
    ASSUME NEW phase, NEW D \in Nat, Spread(got, deq, D), ds \in Locals, NEW next,
           NEW e, e = El(D + 1), Deal(phase, e, next)
    PROVE  /\ deq' = deq /\ chunks' = chunks /\ ended' = ended /\ call' = call
           /\ \/ /\ ds' = Turned(ds)
                 /\ Spread(got', deq', D)
              \/ /\ ds' = Turned(next)
                 /\ Spread(got', deq', D + 1)
<1>1. ds.sid \in Lanes
  BY DEF Locals
<1>2. deq' = deq /\ chunks' = chunks /\ ended' = ended /\ call' = call
  BY DEF Deal
<1>3. CASE ds.sid \in FullLanes
  <2>1. ds' = Turned(ds) /\ got' = got
    BY <1>3 DEF Deal, Turned
  <2> QED
    BY <2>1, <1>1, <1>2
<1>4. CASE ds.sid \notin FullLanes
  <2>1. ds' = Turned(next) /\ got' = [got EXCEPT ![ds.sid] = Append(@, El(D + 1))]
    BY <1>4 DEF Deal, Put, Turned
  <2>2. Spread([got EXCEPT ![ds.sid] = Append(@, El(D + 1))], deq, D + 1)
    BY <1>1, SpreadPut
  <2> QED
    BY <2>1, <2>2, <1>1, <1>2
<1> QED
  BY <1>3, <1>4

(* The turn moves on: nothing else changes.                                *)
LEMMA TurnMoves ==
    ASSUME NEW cs, NEW n, NEW t, NEW l, NEW c, NEW d \in Locals, NEW q, NEW e, NEW D,
           Progress(cs, n, t, l, c, d, q, e, D)
    PROVE  Progress(cs, n, t, l, c, Turned(d), q, e, D)
<1> DEFINE d2 == Turned(d)
<1>d. d2 = [d EXCEPT !.sid = NextLane(d.sid)] /\ NextLane(d.sid) \in Lanes
  BY NextLaneIs DEF Turned, Locals
<1> HIDE DEF d2
<1>1. /\ d2 \in Locals /\ d2.pc = d.pc /\ d2.newR = d.newR /\ d2.ld = d.ld /\ d2.ld2 = d.ld2
      /\ d2.rn = d.rn /\ d2.ldFlg = d.ldFlg /\ d2.high = d.high /\ d2.base = d.base
      /\ d2.r = d.r /\ d2.p = d.p /\ d2.q = d.q /\ d2.wb = d.wb /\ d2.at = d.at
  BY <1>d DEF Locals
<1>2. \A L : Fetched(d2, L) = Fetched(d, L)
  BY <1>1 DEF Fetched
<1>3. Kept(d2) = Kept(d)
  BY <1>1 DEF Kept
<1>4. \A L : Looping(cs, n, c, d, L, D) => Looping(cs, n, c, d2, L, D)
  BY <1>1, <1>2, <1>3 DEF Looping
<1>5. \A L : Arrayed(cs, n, c, d, L, D) => Arrayed(cs, n, c, d2, L, D)
  BY <1>1, <1>2 DEF Arrayed
<1>6. Registered(cs, n, c, d, D) => Registered(cs, n, c, d2, D)
  BY <1>1 DEF Registered
<1>7. Lasting(cs, n, l, d, D) => Lasting(cs, n, l, d2, D)
  BY <1>1 DEF Lasting
<1>8. /\ d.pc = "loop" => \E L \in 0..n : Looping(cs, n, c, d, L, D)
      /\ d.pc = "rings" => \E L \in 0..n : Looping(cs, n, c, d, L, D) /\ Fetched(d, L) = n
      /\ d.pc = "array" => \E L \in 0..n : Arrayed(cs, n, c, d, L, D)
      /\ d.pc = "register" => Registered(cs, n, c, d, D)
      /\ d.pc = "last" => Lasting(cs, n, l, d, D)
      /\ d.pc = "done" => D = t
      /\ d.pc \notin {"loop", "rings"} => \A i \in Lanes : q[i] = << >>
      /\ e # {} => d.pc = "done"
  BY DEF Progress
<1>9. /\ d2.pc = "loop" => \E L \in 0..n : Looping(cs, n, c, d2, L, D)
      /\ d2.pc = "rings" => \E L \in 0..n : Looping(cs, n, c, d2, L, D) /\ Fetched(d2, L) = n
      /\ d2.pc = "array" => \E L \in 0..n : Arrayed(cs, n, c, d2, L, D)
  BY <1>1, <1>2, <1>4, <1>5, <1>8
<1>10. /\ d2.pc = "register" => Registered(cs, n, c, d2, D)
       /\ d2.pc = "last" => Lasting(cs, n, l, d2, D)
       /\ d2.pc = "done" => D = t
       /\ d2.pc \notin {"loop", "rings"} => \A i \in Lanes : q[i] = << >>
       /\ e # {} => d2.pc = "done"
  BY <1>1, <1>6, <1>7, <1>8
<1>11. Progress(cs, n, t, l, c, d2, q, e, D)
  BY <1>1, <1>9, <1>10 DEF Progress
<1> QED
  BY <1>11 DEF d2

LEMMA SkipDeals ==
    ASSUME call \in Nat, NEW D \in Nat, ds \in Locals,
           Progress(Chunks, Full, Total, LeftN, chunks, ds, deq, ended, D),
           ds' = Turned(ds), Spread(got', deq', D),
           deq' = deq, chunks' = chunks, ended' = ended, call' = call
    PROVE  DealInv'
<1>1. Progress(Chunks, Full, Total, LeftN, chunks, Turned(ds), deq, ended, D)
  BY TurnMoves
<1>2. Progress(Chunks, Full, Total, LeftN, chunks', ds', deq', ended', D)
  BY <1>1
<1> QED
  BY <1>2, DealtNext

LEMMA IterateDeals ==
    ASSUME call \in Nat, NEW D \in Nat, Spread(got, deq, D),
           Progress(Chunks, Full, Total, LeftN, chunks, ds, deq, ended, D), Iterate
    PROVE  DealInv'
<1>1. ds \in Locals /\ ds.pc = "loop" /\ call' = call /\ ended' = ended
  BY DEF Progress, Iterate
<1>2. PICK L \in 0..Full : Looping(Chunks, Full, chunks, ds, L, D)
  BY <1>1 DEF Progress
<1>3. PICK D2 \in Nat, L2 \in 0..Full :
        /\ ds' \in Locals /\ ds'.pc = ds.pc
        /\ Looping(Chunks, Full, chunks', ds', L2, D2)
        /\ Spread(got', deq', D2)
  BY <1>1, <1>2, LoopIterates
<1>4. ended' = {}
  BY <1>1 DEF Progress
<1>5. Progress(Chunks, Full, Total, LeftN, chunks', ds', deq', ended', D2)
  <2> HIDE DEF Chunks, Full, Total, LeftN
  <2> QED
    BY <1>1, <1>3, <1>4 DEF Progress
<1> QED
  BY <1>1, <1>3, <1>5, DealtNext

LEMMA LeaveLoopDeals ==
    ASSUME call \in Nat, NEW D \in Nat, Spread(got, deq, D),
           Progress(Chunks, Full, Total, LeftN, chunks, ds, deq, ended, D), LeaveLoop
    PROVE  DealInv'
<1>1. /\ ds \in Locals /\ ds.pc = "loop" /\ Len(chunks) = 1 /\ ds' = [ds EXCEPT !.pc = "rings"]
      /\ chunks' = chunks /\ got' = got /\ deq' = deq /\ call' = call /\ ended' = ended
  BY DEF Progress, LeaveLoop
<1>2. PICK L \in 0..Full : Looping(Chunks, Full, chunks, ds, L, D)
  BY <1>1 DEF Progress
<1>3. Fetched(ds, L) = Full
  BY <1>1, <1>2, InputDeals, LoopLeft
<1>4. /\ ds' \in Locals /\ ds'.pc = "rings"
      /\ ds'.newR = ds.newR /\ ds'.ld = ds.ld /\ ds'.ld2 = ds.ld2 /\ ds'.rn = ds.rn
      /\ ds'.ldFlg = ds.ldFlg /\ ds'.high = ds.high /\ ds'.base = ds.base
      /\ ds'.r = ds.r /\ ds'.p = ds.p /\ ds'.q = ds.q /\ ds'.wb = ds.wb
  BY <1>1 DEF Locals, Phases
<1>5. Fetched(ds', L) = Fetched(ds, L) /\ Kept(ds') = Kept(ds)
  BY <1>4 DEF Fetched, Kept
<1>6. Looping(Chunks, Full, chunks, ds', L, D)
  BY <1>2, <1>4, <1>5 DEF Looping
<1>7. ended' = {}
  BY <1>1 DEF Progress
<1>8. Progress(Chunks, Full, Total, LeftN, chunks', ds', deq', ended', D)
  <2> HIDE DEF Chunks, Full, Total, LeftN
  <2> QED
    BY <1>1, <1>3, <1>4, <1>5, <1>6, <1>7 DEF Progress
<1> QED
  BY <1>1, <1>8, DealtNext

LEMMA EmptyRingDeals ==
    ASSUME call \in Nat, NEW D \in Nat, Spread(got, deq, D),
           Progress(Chunks, Full, Total, LeftN, chunks, ds, deq, ended, D), EmptyRing
    PROVE  DealInv'
<1>1. /\ ds \in Locals /\ ds.pc = "rings" /\ ds' = [ds EXCEPT !.sid = NextLane(@)]
      /\ chunks' = chunks /\ call' = call /\ ended' = ended
  BY DEF Progress, EmptyRing
<1>2. PICK i \in Lanes : /\ deq[i] # << >>
                         /\ got' = [got EXCEPT ![ds.sid] = Append(@, Head(deq[i]))]
                         /\ deq' = [deq EXCEPT ![i] = Tail(@)]
  BY DEF EmptyRing, Put
<1>3. ds.sid \in Lanes
  BY <1>1 DEF Locals
<1>4. Spread(got', deq', D)
  <2>1. Spread([got EXCEPT ![ds.sid] = Append(@, Head(deq[i]))], [deq EXCEPT ![i] = Tail(@)], D)
    BY <1>2, <1>3, SpreadMove
  <2> QED
    BY <2>1, <1>2
<1>5. Progress(Chunks, Full, Total, LeftN, chunks, ds', deq, ended, D)
  <2>1. Progress(Chunks, Full, Total, LeftN, chunks, Turned(ds), deq, ended, D)
    BY <1>1, TurnMoves
  <2> QED
    BY <1>1, <2>1 DEF Turned
<1>6. ds'.pc = "rings"
  BY <1>1 DEF Locals
<1>7. Progress(Chunks, Full, Total, LeftN, chunks', ds', deq', ended', D)
  <2> HIDE DEF Chunks, Full, Total, LeftN
  <2> QED
    BY <1>1, <1>5, <1>6 DEF Progress
<1> QED
  BY <1>1, <1>4, <1>7, DealtNext

LEMMA RingsEmptyDeals ==
    ASSUME call \in Nat, NEW D \in Nat, Spread(got, deq, D),
           Progress(Chunks, Full, Total, LeftN, chunks, ds, deq, ended, D), RingsEmpty
    PROVE  DealInv'
<1>1. /\ ds \in Locals /\ ds.pc = "rings" /\ \A i \in Lanes : deq[i] = << >>
      /\ ds' = [ds EXCEPT !.pc = "array", !.ld2 = @ - ds.rn, !.at = ds.base]
      /\ chunks' = chunks /\ got' = got /\ deq' = deq /\ call' = call /\ ended' = ended
  BY DEF Progress, RingsEmpty
<1>2. PICK L \in 0..Full : Looping(Chunks, Full, chunks, ds, L, D) /\ Fetched(ds, L) = Full
  BY <1>1 DEF Progress
<1>3. ds' \in Locals /\ ds'.pc = "array" /\ Arrayed(Chunks, Full, chunks, ds', L, D)
  <2> DEFINE cs == Chunks
             n == Full
             t == Total
             l == LeftN
             c == chunks
             d == ds
             d2 == ds'
  <2>1. /\ Dealing(cs, n, t, l) /\ L \in 0..n /\ Looping(cs, n, c, d, L, D) /\ Fetched(d, L) = n
        /\ d \in Locals /\ d.pc = "rings"
        /\ d2 = [d EXCEPT !.pc = "array", !.ld2 = @ - d.rn, !.at = d.base]
    BY <1>1, <1>2, InputDeals
  <2> HIDE DEF cs, n, t, l, c, d, d2
  <2>2. d2 \in Locals /\ d2.pc = "array" /\ Arrayed(cs, n, c, d2, L, D)
    BY <2>1, RingsLeft
  <2> QED
    BY <2>2 DEF cs, n, c, d2
<1>4. ended' = {}
  BY <1>1 DEF Progress
<1>5. Progress(Chunks, Full, Total, LeftN, chunks', ds', deq', ended', D)
  <2> HIDE DEF Chunks, Full, Total, LeftN
  <2> QED
    BY <1>1, <1>3, <1>4 DEF Progress
<1> QED
  BY <1>1, <1>5, DealtNext

LEMMA DealArrayDeals ==
    ASSUME call \in Nat, NEW D \in Nat, Spread(got, deq, D),
           Progress(Chunks, Full, Total, LeftN, chunks, ds, deq, ended, D), DealArray
    PROVE  DealInv'
<1> DEFINE next == ArrayNext(ds)
           new == Turned(next)
           e == BufArr(ds)[ds.at + 1]
<1>1. ds \in Locals /\ ds.pc = "array" /\ ds.ld2 > 0 /\ Deal("array", e, next)
  BY DEF Progress, DealArray, Deal, ArrayNext
<1>2. PICK L \in 0..Full : Arrayed(Chunks, Full, chunks, ds, L, D)
  BY <1>1 DEF Progress
<1>3. /\ e = El(D + 1) /\ new \in Locals /\ new.pc = ds.pc
      /\ Arrayed(Chunks, Full, chunks, new, L, D + 1)
  <2>1. Dealing(Chunks, Full, Total, LeftN)
    BY InputDeals
  <2>2. /\ BufArr(ds)[ds.at + 1] = El(D + 1) /\ Turned(ArrayNext(ds)) \in Locals
        /\ Turned(ArrayNext(ds)).pc = ds.pc
        /\ Arrayed(Chunks, Full, chunks, Turned(ArrayNext(ds)), L, D + 1)
    <3> HIDE DEF e, next, new
    <3>1. ds \in Locals /\ ds.ld2 > 0
      BY <1>1
    <3>2. Arrayed(Chunks, Full, chunks, ds, L, D) /\ L \in 0..Full
      BY <1>2
    <3> DEFINE cs == Chunks
               n == Full
               t == Total
               l == LeftN
               c == chunks
               d == ds
    <3>3. /\ Dealing(cs, n, t, l) /\ d \in Locals /\ d.ld2 > 0
          /\ Arrayed(cs, n, c, d, L, D) /\ L \in 0..n
      BY <2>1, <3>1, <3>2
    <3> HIDE DEF cs, n, t, l, c, d
    <3>4. /\ BufArr(d)[d.at + 1] = El(D + 1)
          /\ Turned(ArrayNext(d)) \in Locals
          /\ Turned(ArrayNext(d)).pc = d.pc
          /\ Arrayed(cs, n, c, Turned(ArrayNext(d)), L, D + 1)
      BY <3>3, ArrayDeals
    <3> QED
      BY <3>4 DEF cs, n, t, l, c, d
  <2> QED
    BY <2>2
<1> HIDE DEF next, e, new
<1>4. /\ deq' = deq /\ chunks' = chunks /\ ended' = ended /\ call' = call
      /\ (ds' = Turned(ds) /\ Spread(got', deq', D)) \/ (ds' = new /\ Spread(got', deq', D + 1))
  BY <1>1, <1>3, DealStep DEF new
<1>5. CASE ds' = Turned(ds) /\ Spread(got', deq', D)
  BY <1>1, <1>4, <1>5, SkipDeals
<1>6. CASE ds' = new /\ Spread(got', deq', D + 1)
  <2>1. (\A i \in Lanes : deq[i] = << >>) /\ ended' = {}
    BY <1>1, <1>4 DEF Progress
  <2>2. Progress(Chunks, Full, Total, LeftN, chunks', ds', deq', ended', D + 1)
    <3> HIDE DEF Chunks, Full, Total, LeftN
    <3> QED
      BY <1>1, <1>3, <1>4, <1>6, <2>1 DEF Progress
  <2> QED
    BY <1>4, <1>6, <2>2, DealtNext
<1> QED
  BY <1>4, <1>5, <1>6

LEMMA ArrayDoneDeals ==
    ASSUME call \in Nat, NEW D \in Nat, Spread(got, deq, D),
           Progress(Chunks, Full, Total, LeftN, chunks, ds, deq, ended, D), ArrayDone
    PROVE  DealInv'
<1>1. /\ ds \in Locals /\ ds.pc = "array" /\ ds.ld2 <= 0
      /\ ds' = [ds EXCEPT !.pc = "register", !.at = RegisterFrom(ds)]
      /\ chunks' = chunks /\ got' = got /\ deq' = deq /\ call' = call /\ ended' = ended
  BY DEF Progress, ArrayDone
<1>2. PICK L \in 0..Full : Arrayed(Chunks, Full, chunks, ds, L, D)
  BY <1>1 DEF Progress
<1>3. ds' \in Locals /\ ds'.pc = "register" /\ Registered(Chunks, Full, chunks, ds', D)
  <2> DEFINE cs == Chunks
             n == Full
             t == Total
             l == LeftN
             c == chunks
             d == ds
             d2 == ds'
  <2>1. /\ Dealing(cs, n, t, l) /\ L \in 0..n /\ Arrayed(cs, n, c, d, L, D)
        /\ d \in Locals /\ d.ld2 <= 0
        /\ d2 = [d EXCEPT !.pc = "register", !.at = RegisterFrom(d)]
    BY <1>1, <1>2, InputDeals
  <2> HIDE DEF cs, n, t, l, c, d, d2
  <2>2. d2 \in Locals /\ d2.pc = "register" /\ Registered(cs, n, c, d2, D)
    BY <2>1, ArrayLeft
  <2> QED
    BY <2>2 DEF cs, n, c, d2
<1>4. ended' = {} /\ \A i \in Lanes : deq[i] = << >>
  BY <1>1 DEF Progress
<1>5. Progress(Chunks, Full, Total, LeftN, chunks', ds', deq', ended', D)
  <2> HIDE DEF Chunks, Full, Total, LeftN
  <2> QED
    BY <1>1, <1>3, <1>4 DEF Progress
<1> QED
  BY <1>1, <1>5, DealtNext

LEMMA DealRegisterDeals ==
    ASSUME call \in Nat, NEW D \in Nat, Spread(got, deq, D),
           Progress(Chunks, Full, Total, LeftN, chunks, ds, deq, ended, D), DealRegister
    PROVE  DealInv'
<1> DEFINE next == RegisterNext(ds)
           new == Turned(next)
           e == ds.r[ds.at + 1]
<1>1. ds \in Locals /\ ds.pc = "register" /\ ds.at < NStrm /\ Deal("register", e, next)
  BY DEF Progress, DealRegister, Deal, RegisterNext
<1>2. Registered(Chunks, Full, chunks, ds, D)
  BY <1>1 DEF Progress
<1>3. /\ e = El(D + 1) /\ new \in Locals /\ new.pc = ds.pc
      /\ Registered(Chunks, Full, chunks, new, D + 1)
  <2>1. Dealing(Chunks, Full, Total, LeftN)
    BY InputDeals
  <2> QED
    BY <1>1, <1>2, <2>1, RegisterDeals
<1> HIDE DEF next, e, new
<1>4. /\ deq' = deq /\ chunks' = chunks /\ ended' = ended /\ call' = call
      /\ (ds' = Turned(ds) /\ Spread(got', deq', D)) \/ (ds' = new /\ Spread(got', deq', D + 1))
  BY <1>1, <1>3, DealStep DEF new
<1>5. CASE ds' = Turned(ds) /\ Spread(got', deq', D)
  BY <1>1, <1>4, <1>5, SkipDeals
<1>6. CASE ds' = new /\ Spread(got', deq', D + 1)
  <2>1. (\A i \in Lanes : deq[i] = << >>) /\ ended' = {}
    BY <1>1, <1>4 DEF Progress
  <2>2. Progress(Chunks, Full, Total, LeftN, chunks', ds', deq', ended', D + 1)
    <3> HIDE DEF Chunks, Full, Total, LeftN
    <3> QED
      BY <1>1, <1>3, <1>4, <1>6, <2>1 DEF Progress
  <2> QED
    BY <1>4, <1>6, <2>2, DealtNext
<1> QED
  BY <1>4, <1>5, <1>6

LEMMA RegisterDoneDeals ==
    ASSUME call \in Nat, NEW D \in Nat, Spread(got, deq, D),
           Progress(Chunks, Full, Total, LeftN, chunks, ds, deq, ended, D), RegisterDone
    PROVE  DealInv'
<1>1. /\ ds \in Locals /\ ds.pc = "register" /\ ds.at = NStrm
      /\ ds' = [ds EXCEPT !.pc = "last", !.at = 0, !.r = Elements(Head(chunks))]
      /\ got' = got /\ deq' = deq /\ call' = call /\ ended' = ended
  BY DEF Progress, RegisterDone
<1>2. Registered(Chunks, Full, chunks, ds, D)
  BY <1>1 DEF Progress
<1>3. ds' \in Locals /\ ds'.pc = "last" /\ Lasting(Chunks, Full, LeftN, ds', D)
  <2> DEFINE cs == Chunks
             n == Full
             t == Total
             l == LeftN
             c == chunks
             d == ds
             d2 == ds'
  <2>1. /\ Dealing(cs, n, t, l) /\ Registered(cs, n, c, d, D) /\ d \in Locals /\ d.at = NStrm
        /\ d2 = [d EXCEPT !.pc = "last", !.at = 0, !.r = Elements(Head(c))]
    BY <1>1, <1>2, InputDeals
  <2> HIDE DEF cs, n, t, l, c, d, d2
  <2>2. d2 \in Locals /\ d2.pc = "last" /\ Lasting(cs, n, l, d2, D)
    BY <2>1, RegisterLeft
  <2> QED
    BY <2>2 DEF cs, n, l, d2
<1>4. ended' = {} /\ \A i \in Lanes : deq[i] = << >>
  BY <1>1 DEF Progress
<1>5. Progress(Chunks, Full, Total, LeftN, chunks', ds', deq', ended', D)
  <2> HIDE DEF Chunks, Full, Total, LeftN
  <2> QED
    BY <1>1, <1>3, <1>4 DEF Progress
<1> QED
  BY <1>1, <1>5, DealtNext

LEMMA DealLastDeals ==
    ASSUME call \in Nat, NEW D \in Nat, Spread(got, deq, D),
           Progress(Chunks, Full, Total, LeftN, chunks, ds, deq, ended, D), DealLast
    PROVE  DealInv'
<1> DEFINE next == RegisterNext(ds)
           new == Turned(next)
           e == ds.r[ds.at + 1]
<1>1. ds \in Locals /\ ds.pc = "last" /\ ds.at < LeftN /\ Deal("last", e, next)
  BY DEF Progress, DealLast, Deal, RegisterNext
<1>2. Lasting(Chunks, Full, LeftN, ds, D)
  BY <1>1 DEF Progress
<1>3. /\ e = El(D + 1) /\ new \in Locals /\ new.pc = ds.pc
      /\ Lasting(Chunks, Full, LeftN, new, D + 1)
  <2>1. Dealing(Chunks, Full, Total, LeftN)
    BY InputDeals
  <2> QED
    BY <1>1, <1>2, <2>1, LastDeals
<1> HIDE DEF next, e, new
<1>4. /\ deq' = deq /\ chunks' = chunks /\ ended' = ended /\ call' = call
      /\ (ds' = Turned(ds) /\ Spread(got', deq', D)) \/ (ds' = new /\ Spread(got', deq', D + 1))
  BY <1>1, <1>3, DealStep DEF new
<1>5. CASE ds' = Turned(ds) /\ Spread(got', deq', D)
  BY <1>1, <1>4, <1>5, SkipDeals
<1>6. CASE ds' = new /\ Spread(got', deq', D + 1)
  <2>1. (\A i \in Lanes : deq[i] = << >>) /\ ended' = {}
    BY <1>1, <1>4 DEF Progress
  <2>2. Progress(Chunks, Full, Total, LeftN, chunks', ds', deq', ended', D + 1)
    <3> HIDE DEF Chunks, Full, Total, LeftN
    <3> QED
      BY <1>1, <1>3, <1>4, <1>6, <2>1 DEF Progress
  <2> QED
    BY <1>4, <1>6, <2>2, DealtNext
<1> QED
  BY <1>4, <1>5, <1>6

LEMMA LastDoneDeals ==
    ASSUME call \in Nat, NEW D \in Nat, Spread(got, deq, D),
           Progress(Chunks, Full, Total, LeftN, chunks, ds, deq, ended, D), LastDone
    PROVE  DealInv'
<1>1. /\ ds \in Locals /\ ds.pc = "last" /\ ds.at >= LeftN /\ ds' = [ds EXCEPT !.pc = "done"]
      /\ chunks' = chunks /\ got' = got /\ deq' = deq /\ call' = call
  BY DEF Progress, LastDone
<1>2. Lasting(Chunks, Full, LeftN, ds, D)
  BY <1>1 DEF Progress
<1>3. D = Total
  BY <1>1, <1>2, InputDeals, LastLeft
<1>4. ds' \in Locals /\ ds'.pc = "done"
  BY <1>1 DEF Locals, Phases
<1>5. \A i \in Lanes : deq[i] = << >>
  BY <1>1 DEF Progress
<1>6. Progress(Chunks, Full, Total, LeftN, chunks', ds', deq', ended', D)
  <2> HIDE DEF Chunks, Full, Total, LeftN
  <2> QED
    BY <1>1, <1>3, <1>4, <1>5 DEF Progress
<1> QED
  BY <1>1, <1>6, DealtNext

LEMMA DealNext == DealInv /\ [Next]_vars => DealInv'
<1> SUFFICES ASSUME DealInv, [Next]_vars PROVE DealInv'
  OBVIOUS
<1>1. PICK D \in 0..Total : DealtTo(D)
  BY DEF DealInv
<1>2. /\ call \in Nat /\ D \in Nat /\ Spread(got, deq, D)
      /\ Progress(Chunks, Full, Total, LeftN, chunks, ds, deq, ended, D)
  BY <1>1 DEF DealInv, DealtTo
<1>3. CASE Iterate
  BY <1>2, <1>3, IterateDeals
<1>4. CASE LeaveLoop
  BY <1>2, <1>4, LeaveLoopDeals
<1>5. CASE EmptyRing
  BY <1>2, <1>5, EmptyRingDeals
<1>6. CASE RingsEmpty
  BY <1>2, <1>6, RingsEmptyDeals
<1>7. CASE DealArray
  BY <1>2, <1>7, DealArrayDeals
<1>8. CASE ArrayDone
  BY <1>2, <1>8, ArrayDoneDeals
<1>9. CASE DealRegister
  BY <1>2, <1>9, DealRegisterDeals
<1>10. CASE RegisterDone
  BY <1>2, <1>10, RegisterDoneDeals
<1>11. CASE DealLast
  BY <1>2, <1>11, DealLastDeals
<1>12. CASE LastDone
  BY <1>2, <1>12, LastDoneDeals
<1>13. CASE UNCHANGED <<call, chunks, ds, deq, got, ended>>
  <2>1. /\ call' = call /\ Spread(got', deq', D)
        /\ Progress(Chunks, Full, Total, LeftN, chunks', ds', deq', ended', D)
    BY <1>2, <1>13
  <2> QED
    BY <1>2, <2>1, DealtNext
<1>14. CASE UNCHANGED vars \/ Finished \/ \E i \in Lanes : Take(i)
  <2>1. UNCHANGED <<call, chunks, ds, deq, got, ended>>
    BY <1>14 DEF vars, Finished, Take
  <2> QED
    BY <2>1, <1>13
<1> QED
  BY <1>3, <1>4, <1>5, <1>6, <1>7, <1>8, <1>9, <1>10, <1>11, <1>12, <1>14 DEF Next, Distribute

-----------------------------------------------------------------------------
(* What comes out.                                                         *)

FirstToLast(g) == [i \in 1..NStrm |-> g[i - 1]]

(* The lanes one after the other: each thing written is there, and once.   *)
LEMMA LanesTogether ==
    ASSUME NEW g \in [Lanes -> Seq(Elem)], \A i \in Lanes : Once(g[i]),
           \A i, j \in Lanes : i # j => Values(g[i]) \cap Values(g[j]) = {}
    PROVE  /\ \A v \in ToSet(FlattenSeq(FirstToLast(g))) : \E i \in Lanes : v \in Values(g[i])
           /\ \A i \in Lanes : \A v \in Values(g[i]) : v \in ToSet(FlattenSeq(FirstToLast(g)))
           /\ IsInjective(FlattenSeq(FirstToLast(g)))
<1> DEFINE seqs == FirstToLast(g)
           s == FlattenSeq(seqs)
<1>0. NStrm \in Nat /\ NStrm > 0
  BY Constants
<1>1. \A i \in 1..NStrm : i - 1 \in Lanes
  BY <1>0 DEF Lanes
<1>2. \A i \in Lanes : i + 1 \in 1..NStrm /\ (i + 1) - 1 = i
  BY <1>0 DEF Lanes
<1>3. seqs \in [1..NStrm -> Seq(Elem)] /\ \A i \in 1..NStrm : seqs[i] = g[i - 1]
  BY <1>1 DEF FirstToLast
<1>4. seqs \in Seq(Seq(Elem)) /\ Len(seqs) = NStrm
  <2>1. \A S : \A l \in Nat : \A w \in [1..l -> S] : w \in Seq(S) /\ Len(w) = l
    OBVIOUS
  <2> QED
    BY <2>1, <1>0, <1>3
<1> HIDE DEF seqs
<1>5. s \in Seq(Elem) /\ \E at : Begin(seqs, at) /\ HasFirst(s, seqs, at, NStrm)
  BY <1>0, <1>4, FlattenPlaces
<1>6. PICK at : Begin(seqs, at) /\ HasFirst(s, seqs, at, NStrm)
  BY <1>5
<1>7. /\ \A c \in 1..NStrm : \A k \in 1..Len(seqs[c]) :
           at[c] + k \in 1..Len(s) /\ s[at[c] + k] = seqs[c][k]
      /\ \A m \in 1..Len(s) : \E c \in 1..NStrm : \E k \in 1..Len(seqs[c]) : m = at[c] + k
  BY <1>6 DEF HasFirst
<1> HIDE DEF s
<1>8. ToSet(s) = {s[m] : m \in 1..Len(s)} /\ DOMAIN s = 1..Len(s)
  BY <1>5 DEF ToSet
<1>9. \A v \in ToSet(s) : \E i \in Lanes : v \in Values(g[i])
  <2> SUFFICES ASSUME NEW v \in ToSet(s) PROVE \E i \in Lanes : v \in Values(g[i])
    OBVIOUS
  <2>1. PICK m \in 1..Len(s) : v = s[m]
    BY <1>8
  <2>2. PICK c \in 1..NStrm : \E k \in 1..Len(seqs[c]) : m = at[c] + k
    BY <1>7
  <2>3. PICK k \in 1..Len(seqs[c]) : m = at[c] + k
    BY <2>2
  <2>4. v = seqs[c][k] /\ seqs[c] = g[c - 1] /\ c - 1 \in Lanes
    BY <2>1, <2>3, <1>1, <1>3, <1>7
  <2>5. v \in Values(g[c - 1])
    BY <2>3, <2>4 DEF Values
  <2> QED
    BY <2>4, <2>5
<1>10. \A i \in Lanes : \A v \in Values(g[i]) : v \in ToSet(s)
  <2> SUFFICES ASSUME NEW i \in Lanes, NEW v \in Values(g[i]) PROVE v \in ToSet(s)
    OBVIOUS
  <2> DEFINE c == i + 1
  <2>1. c \in 1..NStrm /\ seqs[c] = g[i]
    BY <1>2, <1>3
  <2> HIDE DEF c
  <2>2. PICK k \in 1..Len(seqs[c]) : v = seqs[c][k]
    BY <2>1 DEF Values
  <2>3. at[c] + k \in 1..Len(s) /\ s[at[c] + k] = v
    BY <2>1, <2>2, <1>7
  <2> QED
    BY <2>3, <1>8
<1>11. IsInjective(s)
  <2> SUFFICES ASSUME NEW m1 \in 1..Len(s), NEW m2 \in 1..Len(s), s[m1] = s[m2] PROVE m1 = m2
    BY <1>8 DEF IsInjective
  <2>a. PICK c1 \in 1..NStrm : \E k \in 1..Len(seqs[c1]) : m1 = at[c1] + k
    BY <1>7
  <2>b. PICK c2 \in 1..NStrm : \E k \in 1..Len(seqs[c2]) : m2 = at[c2] + k
    BY <1>7
  <2>1. PICK k1 \in 1..Len(seqs[c1]) : m1 = at[c1] + k1
    BY <2>a
  <2>2. PICK k2 \in 1..Len(seqs[c2]) : m2 = at[c2] + k2
    BY <2>b
  <2> DEFINE i == c1 - 1
             j == c2 - 1
             v == s[m1]
  <2>3. i \in Lanes /\ j \in Lanes /\ seqs[c1] = g[i] /\ seqs[c2] = g[j]
    BY <1>1, <1>3
  <2>4. v = seqs[c1][k1] /\ v = seqs[c2][k2]
    BY <2>1, <2>2, <1>7
  <2> HIDE DEF v
  <2>5. v \in Values(g[i]) /\ v \in Values(g[j])
    BY <2>1, <2>2, <2>3, <2>4 DEF Values
  <2>6. i = j
    <3> HIDE DEF i, j
    <3> QED
      BY <2>3, <2>5
  <2>7. c1 = c2
    BY <2>6, <1>0
  <2>8. k1 = k2
    <3>1. Once(seqs[c1])
      BY <2>3
    <3> QED
      BY <2>1, <2>2, <2>4, <2>7, <3>1 DEF Once
  <2> QED
    BY <2>1, <2>2, <2>7, <2>8
<1> QED
  BY <1>9, <1>10, <1>11 DEF s, seqs

LEMMA OutputIs ==
    ASSUME NEW D \in Nat, Spread(got, deq, D)
    PROVE  /\ \A v \in ToSet(Dealt) : \E x \in 1..D : v = El(x)
           /\ IsInjective(Dealt)
           /\ (\A i \in Lanes : deq[i] = << >>) => \A x \in 1..D : El(x) \in ToSet(Dealt)
<1>1. /\ got \in [Lanes -> Seq(Elem)]
      /\ \A i \in Lanes : Apart(got[i], deq[i])
      /\ \A i, j \in Lanes : i # j => Own(got[i], deq[i]) \cap Own(got[j], deq[j]) = {}
      /\ \A i \in Lanes : \A v \in Own(got[i], deq[i]) : \E x \in 1..D : v = El(x)
      /\ \A x \in 1..D : \E i \in Lanes : El(x) \in Own(got[i], deq[i])
  BY DEF Spread
<1>2. \A i \in Lanes : Once(got[i])
  BY <1>1 DEF Apart
<1>3. \A i, j \in Lanes : i # j => Values(got[i]) \cap Values(got[j]) = {}
  BY <1>1 DEF Own
<1>4. Dealt = FlattenSeq(FirstToLast(got))
  BY DEF Dealt, FirstToLast
<1>5. /\ \A v \in ToSet(Dealt) : \E i \in Lanes : v \in Values(got[i])
      /\ \A i \in Lanes : \A v \in Values(got[i]) : v \in ToSet(Dealt)
      /\ IsInjective(Dealt)
  BY <1>1, <1>2, <1>3, <1>4, LanesTogether
<1>6. \A v \in ToSet(Dealt) : \E x \in 1..D : v = El(x)
  BY <1>1, <1>5 DEF Own
<1>7. ASSUME \A i \in Lanes : deq[i] = << >> PROVE \A x \in 1..D : El(x) \in ToSet(Dealt)
  <2>1. \A i \in Lanes : Own(got[i], deq[i]) = Values(got[i])
    BY <1>7, ValuesEmpty DEF Own
  <2> QED
    BY <2>1, <1>1, <1>5
<1> QED
  BY <1>5, <1>6, <1>7

LEMMA ExpectedIs == Expected = {El(x) : x \in 1..Total}
BY DEF Expected, El, Total

LEMMA DealOutcome == DealInv => EachOnce /\ NothingLost
<1> SUFFICES ASSUME DealInv PROVE EachOnce /\ NothingLost
  OBVIOUS
<1>1. PICK D \in 0..Total : DealtTo(D)
  BY DEF DealInv
<1>2. call \in Nat /\ Total \in Nat
  BY LeftIs DEF DealInv
<1>3. /\ D \in Nat /\ D <= Total /\ Spread(got, deq, D)
      /\ Progress(Chunks, Full, Total, LeftN, chunks, ds, deq, ended, D)
  BY <1>1 DEF DealtTo
<1> HIDE DEF Total
<1>4. /\ \A v \in ToSet(Dealt) : \E x \in 1..D : v = El(x)
      /\ IsInjective(Dealt)
      /\ (\A i \in Lanes : deq[i] = << >>) => \A x \in 1..D : El(x) \in ToSet(Dealt)
  BY <1>3, OutputIs
<1>5. \A x \in 1..D : x \in 1..Total
  BY <1>2, <1>3
<1>6. EachOnce
  BY <1>4, <1>5, ExpectedIs DEF EachOnce
<1>7. ASSUME ended # {} PROVE Expected \subseteq ToSet(Dealt)
  <2>1. ds.pc = "done"
    BY <1>3, <1>7 DEF Progress
  <2>2. D = Total /\ \A i \in Lanes : deq[i] = << >>
    BY <1>3, <2>1 DEF Progress
  <2> QED
    BY <2>2, <1>4, ExpectedIs
<1> QED
  BY <1>6, <1>7 DEF NothingLost

(* The inductive invariant: at every moment the elements dealt are the     *)
(* first D of the input, each in one ring or at one lane and nowhere else, *)
(* and the rest is where the phase of distribution looks for it.           *)
THEOREM DealtAlways == Spec => []DealInv
BY DealInit, DealNext, PTL DEF Spec

(* However the lanes fill and empty, the elements that come out of the     *)
(* lanes are elements of the input, and none of them comes out twice.      *)
THEOREM NoneTwice == Spec => []EachOnce
<1>1. DealInv => EachOnce
  BY DealOutcome
<1> QED
  BY <1>1, DealtAlways, PTL

(* When the lanes are ended, every whole element of the input has been     *)
(* written to one of them.                                                 *)
THEOREM AllOut == Spec => []NothingLost
<1>1. DealInv => NothingLost
  BY DealOutcome
<1> QED
  BY <1>1, DealtAlways, PTL
=============================================================================
