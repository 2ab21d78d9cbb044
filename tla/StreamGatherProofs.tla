------------------------- MODULE StreamGatherProofs -------------------------
(***************************************************************************)
(* Theorems about StreamGather, for every number of lanes, every depth and *)
(* every load.                                                             *)
(***************************************************************************)
EXTENDS StreamGather, SequenceTheorems, WellFoundedInduction, TLAPS

(* The elements the reader has taken of a lane, and the flags.             *)
Taken(i) == pu[i].elements - Len(data[i])
FlagsRead(i) == pu[i].flags - Len(flag[i])

Elems == Lanes \X Nat

(* What the argument needs of the types; the elements themselves do not    *)
(* matter to it.                                                           *)
Typed ==
    /\ load \in [Lanes -> Nat]
    /\ pu \in [Lanes -> [elements : Nat, flags : Nat]]
    /\ data \in [Lanes -> Seq(Elems)]
    /\ flag \in [Lanes -> Seq(BOOLEAN)]
    /\ rd = [pc |-> rd.pc, last |-> rd.last, val |-> rd.val, took |-> rd.took, buf |-> rd.buf]
    /\ rd.pc \in {"first", "data", "flags", "pack", "done"}
    /\ rd.last \subseteq Lanes

(* A unit writes each flag after its element, and one flag more at the end.*)
UnitInStep(n, e, f) ==
    /\ e <= n /\ e <= f + 1
    /\ f <= e \/ (f = n + 1 /\ e = n)

(* Only the flag after those of all elements is TRUE.                      *)
EndFlagLast(i) ==
    \A k \in 1..Len(flag[i]) : flag[i][k] <=> (FlagsRead(i) + k = load[i] + 1)

(* The reader may have read the flag of the element it takes next, but not *)
(* while it is between the test for an element and the test for a flag.    *)
Ahead(pc) == IF pc \in {"first", "flags"} THEN 0 ELSE 1
OneAhead(i) ==
    /\ Taken(i) >= 0 /\ FlagsRead(i) >= 0
    /\ i \in rd.last => FlagsRead(i) = load[i] + 1 /\ Taken(i) = load[i]
    /\ i \notin rd.last => /\ FlagsRead(i) <= load[i]
                           /\ FlagsRead(i) <= Taken(i) + Ahead(rd.pc)

LaneInv(i) ==
    /\ UnitInStep(load[i], pu[i].elements, pu[i].flags)
    /\ EndFlagLast(i)
    /\ OneAhead(i)

Inv == Typed /\ \A i \in Lanes : LaneInv(i)

-----------------------------------------------------------------------------
(* Facts about sequences. *)

LEMMA AppendFacts ==
    ASSUME NEW S, NEW s \in Seq(S), NEW e \in S
    PROVE  /\ Append(s, e) \in Seq(S)
           /\ Len(Append(s, e)) = Len(s) + 1
           /\ Append(s, e)[Len(s) + 1] = e
           /\ \A k \in 1..Len(s) : Append(s, e)[k] = s[k]
OBVIOUS

LEMMA TailFacts ==
    ASSUME NEW S, NEW s \in Seq(S), s # << >>
    PROVE  /\ Tail(s) \in Seq(S) /\ Head(s) \in S /\ Head(s) = s[1]
           /\ Len(s) \in Nat /\ Len(s) > 0 /\ Len(Tail(s)) = Len(s) - 1
           /\ \A k \in 1..Len(Tail(s)) : Tail(s)[k] = s[k + 1]
OBVIOUS

(* What is true of the numbers of a lane. *)
LEMMA LaneFacts ==
    ASSUME Inv, NEW i \in Lanes
    PROVE  /\ load[i] \in Nat /\ pu[i].elements \in Nat /\ pu[i].flags \in Nat
           /\ data[i] \in Seq(Elems) /\ flag[i] \in Seq(BOOLEAN)
           /\ Len(data[i]) \in Nat /\ Len(flag[i]) \in Nat
           /\ pu[i] = [elements |-> pu[i].elements, flags |-> pu[i].flags]
           /\ LaneInv(i)
BY DEF Inv, Typed

-----------------------------------------------------------------------------
(* The steps. Each changes one lane, or each lane in the same way: what it *)
(* does to the flags of a lane is shown first, then what it does to the    *)
(* numbers.                                                                *)

LEMMA InvInit == Init => Inv
<1> SUFFICES ASSUME Init PROVE Inv
  OBVIOUS
<1>1. load \in [Lanes -> Nat]
  BY GatherAssumption DEF GatherAssumption, Init
<1>2. Typed
  BY <1>1 DEF Init, Typed
<1>3. ASSUME NEW i \in Lanes PROVE LaneInv(i)
  <2>1. load[i] \in Nat /\ pu[i].elements = 0 /\ pu[i].flags = 0
    BY <1>1 DEF Init
  <2>2. data[i] = << >> /\ flag[i] = << >> /\ rd.last = {} /\ rd.pc = "first"
    BY DEF Init
  <2> QED
    BY <2>1, <2>2 DEF LaneInv, UnitInStep, EndFlagLast, OneAhead, Taken, FlagsRead, Ahead
<1> QED
  BY <1>2, <1>3 DEF Inv

(* A lane of which nothing has changed. *)
LEMMA SameLane ==
    ASSUME NEW i \in Lanes, LaneInv(i), load' = load, pu'[i] = pu[i], data'[i] = data[i],
           flag'[i] = flag[i], rd'.last = rd.last, rd'.pc = rd.pc
    PROVE  LaneInv(i)'
BY DEF LaneInv, EndFlagLast, OneAhead, Taken, FlagsRead

LEMMA UnitStep ==
    ASSUME Inv, NEW i \in Lanes, Unit(i)
    PROVE  Inv'
<1>0. /\ load[i] \in Nat /\ pu[i].elements \in Nat /\ pu[i].flags \in Nat
      /\ data[i] \in Seq(Elems) /\ flag[i] \in Seq(BOOLEAN)
      /\ Len(data[i]) \in Nat /\ Len(flag[i]) \in Nat /\ LaneInv(i)
      /\ pu[i] = [elements |-> pu[i].elements, flags |-> pu[i].flags]
  BY LaneFacts
<1> DEFINE e == pu[i].elements
           f == pu[i].flags
<1>1. CASE WriteElement(i)
  <2>1. f >= e /\ e < load[i]
    BY <1>0, <1>1 DEF WriteElement, FlagDue
  <2>2. /\ data' = [data EXCEPT ![i] = Append(data[i], <<i, e + 1>>)]
        /\ pu' = [pu EXCEPT ![i].elements = e + 1]
        /\ UNCHANGED <<load, flag, rd>>
    BY <1>1 DEF WriteElement
  <2>3. <<i, e + 1>> \in Elems
    BY <1>0 DEF Elems
  <2>4. Append(data[i], <<i, e + 1>>) \in Seq(Elems) /\ Len(Append(data[i], <<i, e + 1>>)) = Len(data[i]) + 1
    BY <1>0, <2>3, AppendFacts
  <2>5. Typed'
    <3>1. data' \in [Lanes -> Seq(Elems)]
      BY <2>2, <2>4 DEF Inv, Typed
    <3>2. e + 1 \in Nat
      BY <1>0
    <3>3. pu' \in [Lanes -> [elements : Nat, flags : Nat]]
      BY <2>2, <3>2 DEF Inv, Typed
    <3> QED
      BY <2>2, <3>1, <3>3 DEF Inv, Typed
  <2>6. pu'[i].elements = e + 1 /\ pu'[i].flags = f /\ Len(data'[i]) = Len(data[i]) + 1
    BY <2>2, <2>4 DEF Inv, Typed
  <2>7. LaneInv(i)'
    <3>1. UnitInStep(load[i], e + 1, f)
      BY <1>0, <2>1 DEF LaneInv, UnitInStep
    <3>2. EndFlagLast(i)'
      BY <1>0, <2>2, <2>6 DEF LaneInv, EndFlagLast, FlagsRead
    <3>3. OneAhead(i)'
      BY <1>0, <2>1, <2>2, <2>6 DEF LaneInv, OneAhead, Taken, FlagsRead, Ahead
    <3> QED
      BY <3>1, <3>2, <3>3, <2>2, <2>6 DEF LaneInv
  <2>8. ASSUME NEW j \in Lanes, j # i PROVE LaneInv(j)'
    BY <2>2, <2>8, SameLane DEF Inv, Typed
  <2> QED
    BY <2>5, <2>7, <2>8 DEF Inv
<1>2. CASE WriteFlag(i) \/ WriteEnd(i)
  <2> DEFINE end == WriteEnd(i)
             g == Append(flag[i], end)
  <2>1. /\ flag' = [flag EXCEPT ![i] = g]
        /\ pu' = [pu EXCEPT ![i].flags = f + 1]
        /\ UNCHANGED <<load, data, rd>>
    <3>1. CASE WriteEnd(i)
      BY <3>1 DEF WriteEnd
    <3>2. CASE ~WriteEnd(i)
      <4>1. end = FALSE
        BY <3>2
      <4> QED
        BY <1>2, <3>2, <4>1 DEF WriteFlag
    <3> QED
      BY <3>1, <3>2
  <2>2. /\ f <= e /\ f <= load[i]
        /\ end <=> f = load[i]
        /\ UnitInStep(load[i], e, f + 1)
    <3>1. CASE WriteEnd(i)
      <4>1. e = load[i] /\ f = load[i]
        BY <3>1 DEF WriteEnd
      <4> QED
        BY <3>1, <4>1, <1>0 DEF UnitInStep
    <3>2. CASE ~WriteEnd(i)
      <4>1. f < e
        BY <1>2, <3>2 DEF WriteFlag, FlagDue
      <4>2. UnitInStep(load[i], e, f)
        BY <1>0 DEF LaneInv
      <4>3. f <= e /\ f < load[i] /\ UnitInStep(load[i], e, f + 1)
        BY <4>1, <4>2, <1>0 DEF UnitInStep
      <4> QED
        BY <3>2, <4>3, <1>0
    <3> QED
      BY <3>1, <3>2
  <2>3. /\ g \in Seq(BOOLEAN) /\ Len(g) = Len(flag[i]) + 1
        /\ g[Len(flag[i]) + 1] = end
        /\ \A k \in 1..Len(flag[i]) : g[k] = flag[i][k]
    <3>1. end \in BOOLEAN
      BY DEF WriteEnd
    <3> HIDE DEF end
    <3> QED
      BY <1>0, <3>1, AppendFacts
  <2> HIDE DEF g, end
  <2>4. Typed'
    <3>1. flag' \in [Lanes -> Seq(BOOLEAN)]
      BY <2>1, <2>3 DEF Inv, Typed
    <3>2. f + 1 \in Nat
      BY <1>0
    <3>3. pu' \in [Lanes -> [elements : Nat, flags : Nat]]
      BY <2>1, <3>2 DEF Inv, Typed
    <3> QED
      BY <2>1, <3>1, <3>3 DEF Inv, Typed
  <2>5. pu'[i].elements = e /\ pu'[i].flags = f + 1 /\ flag'[i] = g /\ FlagsRead(i)' = FlagsRead(i)
    <3>1. pu'[i].elements = e /\ pu'[i].flags = f + 1 /\ flag'[i] = g
      BY <2>1 DEF Inv, Typed
    <3> QED
      BY <3>1, <2>3, <1>0 DEF FlagsRead
  <2>6. EndFlagLast(i)'
    <3> SUFFICES ASSUME NEW k \in 1..Len(g) PROVE g[k] <=> FlagsRead(i) + k = load[i] + 1
      BY <2>1, <2>5 DEF EndFlagLast
    <3>1. CASE k \in 1..Len(flag[i])
      BY <3>1, <2>3, <1>0 DEF LaneInv, EndFlagLast
    <3>2. CASE k = Len(flag[i]) + 1
      <4>3. FlagsRead(i) + k = f + 1
        BY <3>2, <1>0 DEF FlagsRead
      <4>4. f \in Nat /\ load[i] \in Nat
        BY <1>0
      <4>1. FlagsRead(i) + k = load[i] + 1 <=> f = load[i]
        BY <4>3, <4>4
      <4>2. g[k] = end
        BY <3>2, <2>3
      <4> QED
        BY <4>1, <4>2, <2>2
    <3> QED
      BY <3>1, <3>2, <2>3, <1>0
  <2>7. OneAhead(i)'
    <3>1. Taken(i)' = Taken(i)
      BY <2>1, <2>5 DEF Taken
    <3> QED
      BY <3>1, <2>1, <2>5, <1>0 DEF LaneInv, OneAhead
  <2>8. LaneInv(i)'
    BY <2>1, <2>2, <2>5, <2>6, <2>7 DEF LaneInv
  <2>9. ASSUME NEW j \in Lanes, j # i PROVE LaneInv(j)'
    BY <2>1, <2>9, SameLane DEF Inv, Typed
  <2> QED
    BY <2>4, <2>8, <2>9 DEF Inv
<1> QED
  BY <1>1, <1>2 DEF Unit

(* The reader takes the flags that are there: of a lane that is not ahead, *)
(* the TRUE flag comes only when all its elements have been taken.         *)
LEMMA FlagsStep ==
    ASSUME Inv, FirstFlags \/ TakeFlags
    PROVE  Inv'
<1> DEFINE open == {i \in Lanes \ rd.last : flag[i] # << >>}
           raised == {i \in open : Head(flag[i])}
<1>1. /\ flag' = [i \in Lanes |-> IF i \in open THEN Tail(flag[i]) ELSE flag[i]]
      /\ rd' = [rd EXCEPT !.last = rd.last \cup raised,
                          !.pc = IF rd.pc = "first" THEN "data" ELSE "pack"]
      /\ UNCHANGED <<load, pu, data>> /\ rd.pc \in {"first", "flags"}
  BY DEF FirstFlags, TakeFlags, ReadFlags, LastWith
<1>2. rd'.last = rd.last \cup raised /\ rd'.pc \in {"data", "pack"}
  BY <1>1 DEF Inv, Typed
<1>3. Typed'
  <2>1. flag' \in [Lanes -> Seq(BOOLEAN)]
    BY <1>1, LaneFacts, TailFacts
  <2>2. rd' = [pc |-> rd'.pc, last |-> rd'.last, val |-> rd'.val, took |-> rd'.took, buf |-> rd'.buf]
    BY <1>1 DEF Inv, Typed
  <2> QED
    BY <1>1, <1>2, <2>1, <2>2 DEF Inv, Typed
<1>4. ASSUME NEW i \in Lanes PROVE LaneInv(i)'
  <2>0. /\ load[i] \in Nat /\ pu[i].elements \in Nat /\ pu[i].flags \in Nat
        /\ flag[i] \in Seq(BOOLEAN) /\ Len(data[i]) \in Nat /\ Len(flag[i]) \in Nat /\ LaneInv(i)
    BY LaneFacts
  <2>1. CASE i \in open
    <3>1. /\ flag'[i] = Tail(flag[i]) /\ i \notin rd.last
          /\ i \in rd'.last <=> Head(flag[i])
      BY <1>1, <1>2, <2>1
    <3>2. /\ Len(flag[i]) > 0 /\ Len(Tail(flag[i])) = Len(flag[i]) - 1 /\ Head(flag[i]) = flag[i][1]
          /\ \A k \in 1..Len(Tail(flag[i])) : Tail(flag[i])[k] = flag[i][k + 1]
      BY <2>0, <2>1, TailFacts
    <3>3. FlagsRead(i)' = FlagsRead(i) + 1 /\ Taken(i)' = Taken(i)
      <4>1. pu'[i] = pu[i] /\ data'[i] = data[i] /\ Len(flag'[i]) = Len(flag[i]) - 1
        BY <1>1, <3>1, <3>2
      <4>2. \A m, n \in Nat : m - (n - 1) = m - n + 1
        OBVIOUS
      <4> QED
        BY <4>1, <4>2, <2>0, SMTT(30) DEF FlagsRead, Taken
    <3>4. EndFlagLast(i)'
      <4> SUFFICES ASSUME NEW k \in 1..Len(Tail(flag[i]))
                   PROVE  Tail(flag[i])[k] <=> FlagsRead(i) + 1 + k = load[i] + 1
        BY <1>1, <3>1, <3>3 DEF EndFlagLast
      <4>1. k + 1 \in 1..Len(flag[i])
        BY <3>2, <2>0
      <4>2. flag[i][k + 1] <=> FlagsRead(i) + (k + 1) = load[i] + 1
        BY <4>1, <2>0 DEF LaneInv, EndFlagLast
      <4>3. FlagsRead(i) + (k + 1) = FlagsRead(i) + 1 + k
        <5>1. FlagsRead(i) \in Int /\ k \in Int
          BY <3>2, <2>0 DEF FlagsRead
        <5> QED
          BY <5>1
      <4> QED
        BY <4>2, <4>3, <3>2
    <3>5. i \in rd'.last <=> FlagsRead(i) + 1 = load[i] + 1
      <4>1. 1 \in 1..Len(flag[i])
        BY <3>2, <2>0
      <4> QED
        BY <4>1, <3>1, <3>2, <2>0 DEF LaneInv, EndFlagLast
    <3>6. /\ FlagsRead(i) <= load[i] /\ FlagsRead(i) <= Taken(i)
          /\ Taken(i) >= 0 /\ FlagsRead(i) >= 0 /\ Taken(i) <= load[i]
      <4>1. Ahead(rd.pc) = 0 /\ i \notin rd.last
        BY <1>1, <3>1 DEF Ahead
      <4>2. Taken(i) \in Int /\ FlagsRead(i) \in Int /\ Taken(i) <= load[i]
        BY <2>0 DEF LaneInv, UnitInStep, Taken, FlagsRead
      <4>3. OneAhead(i)
        BY <2>0 DEF LaneInv
      <4> HIDE DEF open, raised
      <4> QED
        BY <4>1, <4>2, <4>3 DEF OneAhead
    <3>7. OneAhead(i)'
      <4>1. Taken(i) \in Int /\ FlagsRead(i) \in Int
        BY <2>0 DEF Taken, FlagsRead
      <4>2. Ahead(rd'.pc) = 1
        BY <1>2 DEF Ahead
      <4>3. load'[i] = load[i] /\ load[i] \in Nat
        BY <1>1, <2>0
      <4>4. /\ Taken(i) >= 0 /\ FlagsRead(i) + 1 >= 0
            /\ FlagsRead(i) + 1 = load[i] + 1 => Taken(i) = load[i]
            /\ FlagsRead(i) + 1 # load[i] + 1 => FlagsRead(i) + 1 <= load[i]
            /\ FlagsRead(i) + 1 <= Taken(i) + 1
        <5> HIDE DEF open, raised
        <5> QED
          BY <4>1, <4>3, <3>6
      <4> HIDE DEF open, raised
      <4> QED
        BY <4>2, <4>3, <4>4, <3>3, <3>5 DEF OneAhead
    <3> QED
      BY <1>1, <3>4, <3>7, <2>0 DEF LaneInv
  <2>2. CASE i \notin open
    <3>1. flag'[i] = flag[i] /\ (i \in rd'.last <=> i \in rd.last)
      BY <1>1, <1>2, <2>2
    <3>2. FlagsRead(i)' = FlagsRead(i) /\ Taken(i)' = Taken(i)
      BY <1>1, <3>1 DEF FlagsRead, Taken
    <3>3. EndFlagLast(i)'
      BY <1>1, <3>1, <3>2, <2>0 DEF LaneInv, EndFlagLast
    <3>4. OneAhead(i)'
      <4>1. Taken(i) \in Int /\ FlagsRead(i) \in Int
        BY <2>0 DEF Taken, FlagsRead
      <4>2. Ahead(rd'.pc) = 1 /\ Ahead(rd.pc) = 0
        BY <1>1, <1>2 DEF Ahead
      <4>3. load'[i] = load[i] /\ OneAhead(i)
        BY <1>1, <2>0 DEF LaneInv
      <4> HIDE DEF open, raised
      <4> QED
        BY <4>1, <4>2, <4>3, <3>1, <3>2 DEF OneAhead
    <3> QED
      BY <1>1, <3>3, <3>4, <2>0 DEF LaneInv
  <2> QED
    BY <2>1, <2>2
<1> QED
  BY <1>3, <1>4 DEF Inv

(* The reader takes the elements that are there: after it no lane is       *)
(* ahead, as the flag of an element it did not find is not written yet.    *)
LEMMA ElementsStep ==
    ASSUME Inv, TakeElements
    PROVE  Inv'
<1> DEFINE val == {i \in Lanes \ rd.last : data[i] # << >>}
<1>1. /\ data' = [i \in Lanes |-> IF i \in val THEN Tail(data[i]) ELSE data[i]]
      /\ rd'.pc = "flags" /\ rd'.last = rd.last /\ rd.pc = "data"
      /\ rd' = [pc |-> rd'.pc, last |-> rd'.last, val |-> rd'.val, took |-> rd'.took, buf |-> rd'.buf]
      /\ UNCHANGED <<load, pu, flag>>
  BY DEF TakeElements, Inv, Typed
<1>2. Typed'
  <2>1. data' \in [Lanes -> Seq(Elems)]
    BY <1>1, LaneFacts, TailFacts
  <2> QED
    BY <1>1, <2>1 DEF Inv, Typed
<1>3. ASSUME NEW i \in Lanes PROVE LaneInv(i)'
  <2>0. /\ load[i] \in Nat /\ pu[i].elements \in Nat /\ pu[i].flags \in Nat
        /\ data[i] \in Seq(Elems) /\ Len(data[i]) \in Nat /\ Len(flag[i]) \in Nat /\ LaneInv(i)
    BY LaneFacts
  <2>1. FlagsRead(i)' = FlagsRead(i)
    BY <1>1 DEF FlagsRead
  <2>2. EndFlagLast(i)'
    BY <1>1, <2>1, <2>0 DEF LaneInv, EndFlagLast
  <2>3. Taken(i) \in Int /\ FlagsRead(i) \in Int
    BY <2>0 DEF Taken, FlagsRead
  <2>4. Ahead(rd'.pc) = 0 /\ Ahead(rd.pc) = 1
    BY <1>1 DEF Ahead
  <2>5. OneAhead(i)'
    <3>1. CASE i \in val
      <4>1. Len(data'[i]) = Len(data[i]) - 1
        BY <1>1, <2>0, <3>1, TailFacts
      <4>2. Taken(i)' = Taken(i) + 1
        BY <4>1, <1>1, <2>0 DEF Taken
      <4> QED
        BY <4>2, <2>0, <2>1, <2>3, <2>4, <1>1, <3>1 DEF LaneInv, OneAhead
    <3>2. CASE i \notin val
      <4>1. Taken(i)' = Taken(i)
        BY <1>1, <3>2 DEF Taken
      <4>2. i \notin rd.last => FlagsRead(i) <= Taken(i)
        <5> SUFFICES ASSUME i \notin rd.last PROVE FlagsRead(i) <= Taken(i)
          OBVIOUS
        <5>1. Taken(i) = pu[i].elements
          BY <3>2, <2>0 DEF Taken
        <5> QED
          BY <5>1, <2>0 DEF LaneInv, OneAhead, UnitInStep, FlagsRead
      <4> QED
        BY <4>1, <4>2, <2>0, <2>1, <2>3, <2>4, <1>1 DEF LaneInv, OneAhead
    <3> QED
      BY <3>1, <3>2
  <2> QED
    BY <1>1, <2>0, <2>2, <2>5 DEF LaneInv
<1> QED
  BY <1>2, <1>3 DEF Inv

LEMMA PackStep ==
    ASSUME Inv, Pack \/ PackLast
    PROVE  Inv'
<1>1. /\ UNCHANGED <<load, pu, data, flag>> /\ rd'.last = rd.last
      /\ rd'.pc \in {"data", "done"} /\ rd.pc \in {"pack", "data"}
      /\ rd' = [pc |-> rd'.pc, last |-> rd'.last, val |-> rd'.val, took |-> rd'.took, buf |-> rd'.buf]
  BY DEF Pack, PackLast, Inv, Typed
<1>2. Ahead(rd'.pc) = Ahead(rd.pc)
  BY <1>1 DEF Ahead
<1> QED
  BY <1>1, <1>2 DEF Inv, Typed, LaneInv, EndFlagLast, OneAhead, Taken, FlagsRead

LEMMA InvStep == Inv /\ [Next]_vars => Inv'
<1> SUFFICES ASSUME Inv, [Next]_vars PROVE Inv'
  OBVIOUS
<1>1. CASE Reader
  BY <1>1, FlagsStep, ElementsStep, PackStep DEF Reader
<1>2. CASE \E i \in Lanes : Unit(i)
  BY <1>2, UnitStep
<1>3. CASE UNCHANGED vars
  BY <1>3 DEF vars, Inv, Typed, LaneInv, EndFlagLast, OneAhead, Taken, FlagsRead
<1> QED
  BY <1>1, <1>2, <1>3 DEF Next, Finished

-----------------------------------------------------------------------------
(* No end flag overtakes an element: when the reader of streamNToOne takes *)
(* the end of a lane, it has taken every element of that lane, however the *)
(* units' writes fall between its two tests of a lane.                     *)
THEOREM EndsBehindElements == Spec => []FlagNotAhead
<1>1. Inv => FlagNotAhead
  <2> SUFFICES ASSUME Inv, NEW i \in rd.last PROVE data[i] = << >>
    BY DEF FlagNotAhead
  <2>1. i \in Lanes
    BY DEF Inv, Typed
  <2>2. /\ data[i] \in Seq(Elems) /\ Len(data[i]) \in Nat /\ pu[i].elements \in Nat
        /\ load[i] \in Nat /\ LaneInv(i)
    BY <2>1, LaneFacts
  <2>3. Len(data[i]) = 0
    BY <2>1, <2>2 DEF LaneInv, OneAhead, UnitInStep, Taken
  <2> QED
    BY <2>2, <2>3
<1> QED
  BY <1>1, InvInit, InvStep, PTL DEF Spec

-----------------------------------------------------------------------------
(* FlattenSeq is a function defined by recursion on the number of          *)
(* sequences: that it exists and is the only one is shown from the         *)
(* smallest number for which it would not be.                              *)

LEMMA Smallest ==
    ASSUME NEW T \in SUBSET Nat, T # {}
    PROVE  \E x \in T : \A y \in T : x <= y
<1> DEFINE R == OpToRel(<, Nat)
<1>1. IsWellFoundedOn(R, Nat)
  BY NatLessThanWellFounded
<1>2. PICK x \in T : \A y \in T : ~(<<y, x>> \in R)
  <2> HIDE DEF R
  <2> QED
    BY <1>1, WFMin
<1>3. \A y \in T : ~(y < x)
  BY <1>2 DEF OpToRel
<1> QED
  BY <1>3

(* What FlattenSeq asks of the function from i to the first i sequences,   *)
(* one behind the other.                                                   *)
Flattens(seqs, n, f) ==
    f = [i \in 1..n |-> IF i = 1 THEN seqs[i] ELSE f[i - 1] \o seqs[i]]

LEMMA FlattensExists ==
    ASSUME NEW S, NEW seqs \in Seq(Seq(S)), NEW n \in 1..Len(seqs)
    PROVE  \E f \in [1..n -> Seq(S)] : Flattens(seqs, n, f)
<1> DEFINE Ok(k) == \E f \in [1..k -> Seq(S)] : Flattens(seqs, k, f)
           bad == {k \in 1..Len(seqs) : ~Ok(k)}
<1>1. Ok(1)
  <2>1. seqs[1] \in Seq(S)
    BY Len(seqs) \in Nat
  <2> DEFINE f == [i \in 1..1 |-> seqs[1]]
  <2>2. f \in [1..1 -> Seq(S)]
    BY <2>1
  <2>3. Flattens(seqs, 1, f)
    BY DEF Flattens
  <2> QED
    BY <2>2, <2>3
<1>2. ASSUME NEW k \in 1..Len(seqs), k # 1, Ok(k - 1) PROVE Ok(k)
  <2>1. PICK g \in [1..k - 1 -> Seq(S)] : Flattens(seqs, k - 1, g)
    BY <1>2
  <2>2. seqs[k] \in Seq(S) /\ k - 1 \in 1..k - 1 /\ k \in Nat
    BY <1>2
  <2>3. g[k - 1] \in Seq(S) /\ g[k - 1] \o seqs[k] \in Seq(S)
    BY <2>1, <2>2, ConcatProperties
  <2> DEFINE f == [i \in 1..k |-> IF i = k THEN g[k - 1] \o seqs[k] ELSE g[i]]
  <2>4. f \in [1..k -> Seq(S)]
    <3>1. ASSUME NEW i \in 1..k, i # k PROVE i \in 1..k - 1
      BY <3>1, <2>2
    <3> QED
      BY <3>1, <2>1, <2>3
  <2>5. ASSUME NEW i \in 1..k
        PROVE  f[i] = IF i = 1 THEN seqs[i] ELSE f[i - 1] \o seqs[i]
    <3>1. CASE i = k
      <4>0. i - 1 \in 1..k /\ i - 1 # k
        BY <3>1, <2>2, <1>2
      <4>1. f[i - 1] = g[i - 1] /\ f[i] = g[k - 1] \o seqs[k]
        BY <4>0, <3>1
      <4> QED
        BY <4>1, <3>1, <1>2
    <3>2. CASE i # k
      <4>1. i \in 1..k - 1 /\ (i # 1 => i - 1 \in 1..k - 1 /\ i - 1 # k)
        BY <3>2, <2>2
      <4>2. g[i] = IF i = 1 THEN seqs[i] ELSE g[i - 1] \o seqs[i]
        BY <4>1, <2>1 DEF Flattens
      <4>3. f[i] = g[i] /\ (i # 1 => f[i - 1] = g[i - 1])
        BY <4>1, <3>2, <2>2
      <4> HIDE DEF f
      <4> QED
        BY <4>2, <4>3
    <3> QED
      BY <3>1, <3>2
  <2>6. Flattens(seqs, k, f)
    <3>1. f = [i \in 1..k |-> f[i]]
      OBVIOUS
    <3> HIDE DEF f
    <3> QED
      BY <2>5, <3>1 DEF Flattens
  <2> QED
    BY <2>4, <2>6
<1>3. bad = {}
  <2> SUFFICES ASSUME bad # {} PROVE FALSE
    OBVIOUS
  <2>1. bad \in SUBSET Nat
    OBVIOUS
  <2>2. PICK k \in bad : \A j \in bad : k <= j
    BY <2>1, Smallest
  <2>3. k \in 1..Len(seqs) /\ ~Ok(k)
    OBVIOUS
  <2>4. k # 1
    BY <1>1, <2>3
  <2>5. k - 1 \in 1..Len(seqs) /\ ~(k <= k - 1)
    BY <2>3, <2>4, Len(seqs) \in Nat
  <2>6. Ok(k - 1)
    BY <2>2, <2>5
  <2> HIDE DEF Ok
  <2> QED
    BY <1>2, <2>3, <2>4, <2>6
<1> QED
  BY <1>3

LEMMA FlattenIs ==
    ASSUME NEW S, NEW seqs \in Seq(Seq(S)), Len(seqs) # 0,
           NEW f, Flattens(seqs, Len(seqs), f)
    PROVE  FlattenSeq(seqs) = f[Len(seqs)]
<1> DEFINE n == Len(seqs)
           g == CHOOSE h : Flattens(seqs, n, h)
           differ == {k \in 1..n : f[k] # g[k]}
<1>1. Flattens(seqs, n, g)
  OBVIOUS
<1>2. FlattenSeq(seqs) = g[n]
  BY DEF FlattenSeq, Flattens
<1>3. n \in Nat /\ n # 0
  OBVIOUS
<1> HIDE DEF g, n
<1>4. differ = {}
  <2> SUFFICES ASSUME differ # {} PROVE FALSE
    OBVIOUS
  <2>0. differ \in SUBSET Nat
    BY <1>3
  <2>1. PICK k \in differ : \A j \in differ : k <= j
    BY <2>0, Smallest
  <2>2. k \in 1..n /\ f[k] # g[k]
    OBVIOUS
  <2>3. k # 1
    BY <1>1, <2>2 DEF Flattens, n
  <2>4. k - 1 \in 1..n /\ ~(k <= k - 1)
    BY <2>2, <2>3, <1>3
  <2>5. f[k - 1] = g[k - 1]
    BY <2>1, <2>4
  <2>6. f[k] = f[k - 1] \o seqs[k]
    BY <2>2, <2>3 DEF Flattens, n
  <2>7. g[k] = g[k - 1] \o seqs[k]
    BY <2>2, <2>3, <1>1 DEF Flattens, n
  <2> QED
    BY <2>2, <2>5, <2>6, <2>7
<1> QED
  BY <1>2, <1>3, <1>4 DEF n

LEMMA FlattenEmpty == FlattenSeq(<< >>) = << >>
BY DEF FlattenSeq

LEMMA FlattenTyped ==
    ASSUME NEW S, NEW seqs \in Seq(Seq(S))
    PROVE  FlattenSeq(seqs) \in Seq(S)
<1>1. CASE Len(seqs) = 0
  <2>1. seqs = << >>
    BY <1>1
  <2>2. << >> \in Seq(S)
    OBVIOUS
  <2> QED
    BY <2>1, <2>2, FlattenEmpty
<1>2. CASE Len(seqs) # 0
  <2>1. Len(seqs) \in 1..Len(seqs)
    BY <1>2, Len(seqs) \in Nat
  <2>2. PICK f \in [1..Len(seqs) -> Seq(S)] : Flattens(seqs, Len(seqs), f)
    BY <2>1, FlattensExists
  <2> QED
    BY <2>1, <2>2, <1>2, FlattenIs, SMTT(30)
<1> QED
  BY <1>1, <1>2

(* One sequence more goes behind what the others give.                     *)
LEMMA FlattenAppend ==
    ASSUME NEW S, NEW seqs \in Seq(Seq(S)), NEW s \in Seq(S)
    PROVE  FlattenSeq(Append(seqs, s)) = FlattenSeq(seqs) \o s
<1> DEFINE n == Len(seqs)
           more == Append(seqs, s)
<1>1. /\ more \in Seq(Seq(S)) /\ Len(more) = n + 1 /\ n \in Nat
      /\ more[n + 1] = s /\ \A i \in 1..n : more[i] = seqs[i]
  OBVIOUS
<1> HIDE DEF more, n
<1>2. PICK f \in [1..n + 1 -> Seq(S)] : Flattens(more, n + 1, f)
  <2>1. n + 1 \in 1..Len(more)
    BY <1>1
  <2> QED
    BY <1>1, <2>1, FlattensExists
<1>3. FlattenSeq(more) = f[n + 1]
  BY <1>1, <1>2, FlattenIs
<1>4. f[n + 1] = IF n = 0 THEN s ELSE f[n] \o s
  <2> DEFINE k == n + 1
  <2>1. k \in 1..n + 1 /\ (k = 1 <=> n = 0) /\ k - 1 = n
    BY <1>1
  <2>2. \A i \in 1..n + 1 : f[i] = IF i = 1 THEN more[i] ELSE f[i - 1] \o more[i]
    BY <1>2 DEF Flattens
  <2> HIDE DEF k
  <2>3. f[k] = IF k = 1 THEN more[k] ELSE f[n] \o more[k]
    BY <2>1, <2>2
  <2>4. more[k] = s
    BY <1>1 DEF k
  <2> QED
    BY <2>1, <2>3, <2>4 DEF k
<1>5. CASE n = 0
  <2>1. seqs = << >>
    BY <1>5 DEF n
  <2>2. FlattenSeq(seqs) \o s = s
    BY <2>1, FlattenEmpty, ConcatEmptySeq
  <2> QED
    BY <1>3, <1>4, <1>5, <2>2 DEF more
<1>6. CASE n # 0
  <2> DEFINE g == [i \in 1..n |-> f[i]]
  <2>1. Flattens(seqs, n, g)
    <3>1. ASSUME NEW i \in 1..n
          PROVE  f[i] = IF i = 1 THEN seqs[i] ELSE g[i - 1] \o seqs[i]
      <4>1. i \in 1..n + 1 /\ (i # 1 => i - 1 \in 1..n)
        BY <1>1
      <4>2. f[i] = IF i = 1 THEN more[i] ELSE f[i - 1] \o more[i]
        BY <1>2, <4>1 DEF Flattens
      <4> QED
        BY <4>1, <4>2, <1>1
    <3> QED
      BY <3>1 DEF Flattens
  <2>2. FlattenSeq(seqs) = g[n]
    <3> HIDE DEF g
    <3> QED
      BY <2>1, <1>6, FlattenIs DEF n
  <2>3. g[n] = f[n]
    BY <1>1, <1>6
  <2> QED
    BY <1>3, <1>4, <1>6, <2>2, <2>3 DEF more
<1> QED
  BY <1>5, <1>6

-----------------------------------------------------------------------------
Cells == Int \X Nat

(* The elements of a lane that K holds are the first T[i], in their order. *)
KeptUpTo(K, T) ==
    /\ \A m \in 1..Len(K) : K[m] # Junk => K[m][1] \in Lanes /\ K[m][2] \in 1..T[K[m][1]]
    /\ \A i \in Lanes : \A k \in 1..T[i] : \E m \in 1..Len(K) : K[m] = <<i, k>>
    /\ \A m, n \in 1..Len(K) : m < n /\ K[m][1] = K[n][1] /\ K[m] # Junk => K[m][2] < K[n][2]

(* t is the next element of each of some lanes. *)
NextOf(t, T, val) ==
    /\ Len(t) <= NStrm
    /\ \A m \in 1..Len(t) : \E i \in val : t[m] = <<i, T[i] + 1>>
    /\ \A i \in val : \E m \in 1..Len(t) : t[m] = <<i, T[i] + 1>>
    /\ \A m, n \in 1..Len(t) : m < n => t[m][1] < t[n][1]

LEMMA KeptMore ==
    ASSUME NEW K \in Seq(Cells), NEW t \in Seq(Cells), NEW T \in [Lanes -> Nat],
           NEW val \in SUBSET Lanes, KeptUpTo(K, T), NextOf(t, T, val)
    PROVE  KeptUpTo(K \o t, [i \in Lanes |-> IF i \in val THEN T[i] + 1 ELSE T[i]])
<1> DEFINE L == K \o t
           U == [i \in Lanes |-> IF i \in val THEN T[i] + 1 ELSE T[i]]
           a == Len(K)
           b == Len(t)
<1>1. /\ a \in Nat /\ b \in Nat /\ Len(L) = a + b
      /\ \A m \in 1..a : L[m] = K[m]
      /\ \A m \in 1..b : L[a + m] = t[m]
  <2>1. /\ Len(L) = a + b
        /\ \A m \in 1..a + b : L[m] = IF m <= a THEN K[m] ELSE t[m - a]
    BY ConcatProperties
  <2>2. a \in Nat /\ b \in Nat
    OBVIOUS
  <2>3. \A m \in 1..b : a + m \in 1..a + b /\ ~(a + m <= a) /\ a + m - a = m
    BY <2>2
  <2>4. \A m \in 1..a : m \in 1..a + b /\ m <= a
    BY <2>2
  <2> HIDE DEF L, a, b
  <2> QED
    BY <2>1, <2>2, <2>3, <2>4
<1>2. \A m \in 1..Len(L) : m \in 1..a \/ \E n \in 1..b : m = a + n
  <2>1. \A m \in 1..a + b : m \in 1..a \/ (m - a \in 1..b /\ m = a + (m - a))
    BY <1>1
  <2> HIDE DEF L, a, b
  <2> QED
    BY <2>1, <1>1
<1>3. /\ \A m \in 1..a : K[m] \in Cells
      /\ \A m \in 1..b : t[m] \in Cells
  OBVIOUS
<1>4. \A i \in Lanes : T[i] \in Nat /\ U[i] = IF i \in val THEN T[i] + 1 ELSE T[i]
  OBVIOUS
<1>5. \A i \in Lanes : i # -1
  BY DEF Lanes
<1> HIDE DEF L, U, a, b
<1>6. ASSUME NEW m \in 1..Len(L), L[m] # Junk
      PROVE  L[m][1] \in Lanes /\ L[m][2] \in 1..U[L[m][1]]
  <2>1. CASE m \in 1..a
    <3>1. K[m][1] \in Lanes /\ K[m][2] \in 1..T[K[m][1]] /\ L[m] = K[m]
      BY <2>1, <1>1, <1>6 DEF KeptUpTo, a
    <3>2. T[K[m][1]] \in Nat /\ (U[K[m][1]] = T[K[m][1]] + 1 \/ U[K[m][1]] = T[K[m][1]])
      BY <3>1, <1>4
    <3>3. \A x, y, z : y \in Nat /\ x \in 1..y /\ (z = y + 1 \/ z = y) => x \in 1..z
      OBVIOUS
    <3> QED
      BY <3>1, <3>2, <3>3
  <2>2. CASE \E n \in 1..b : m = a + n
    <3>1. PICK n \in 1..b : m = a + n
      BY <2>2
    <3>2. PICK i \in val : t[n] = <<i, T[i] + 1>>
      BY <3>1 DEF NextOf, b
    <3>3. L[m] = <<i, T[i] + 1>> /\ i \in Lanes /\ U[i] = T[i] + 1 /\ T[i] \in Nat
      BY <3>1, <3>2, <1>1, <1>4
    <3> QED
      BY <3>3
  <2> QED
    BY <2>1, <2>2, <1>2
<1>7. ASSUME NEW i \in Lanes, NEW k \in 1..U[i]
      PROVE  \E m \in 1..Len(L) : L[m] = <<i, k>>
  <2>1. CASE k \in 1..T[i]
    <3>1. PICK m \in 1..a : K[m] = <<i, k>>
      BY <2>1 DEF KeptUpTo, a
    <3>2. m \in 1..Len(L) /\ L[m] = <<i, k>>
      BY <3>1, <1>1
    <3> QED
      BY <3>2
  <2>2. CASE k \notin 1..T[i]
    <3>1. i \in val /\ k = T[i] + 1
      BY <2>2, <1>4, <1>7, SMTT(30)
    <3>2. PICK m \in 1..b : t[m] = <<i, k>>
      BY <3>1 DEF NextOf, b
    <3>3. a + m \in 1..Len(L) /\ L[a + m] = <<i, k>>
      BY <3>2, <1>1
    <3> QED
      BY <3>3
  <2> QED
    BY <2>1, <2>2
<1>8. ASSUME NEW m \in 1..Len(L), NEW n \in 1..Len(L), m < n, L[m][1] = L[n][1], L[m] # Junk
      PROVE  L[m][2] < L[n][2]
  <2>1. CASE n \in 1..a
    <3>1. m \in 1..a
      BY <2>1, <1>1, <1>8
    <3>2. L[m] = K[m] /\ L[n] = K[n]
      BY <3>1, <2>1, <1>1
    <3> QED
      BY <3>1, <3>2, <2>1, <1>8 DEF KeptUpTo, a
  <2>2. CASE n \notin 1..a
    <3>1. PICK h \in 1..b : n = a + h
      BY <2>2, <1>2
    <3>2. PICK i \in val : t[h] = <<i, T[i] + 1>>
      BY <3>1 DEF NextOf, b
    <3>3. L[n] = <<i, T[i] + 1>> /\ i \in Lanes /\ T[i] \in Nat
      BY <3>1, <3>2, <1>1, <1>4
    <3>4. CASE m \in 1..a
      <4>1. L[m] = K[m] /\ K[m][1] = i /\ K[m][2] \in 1..T[i]
        BY <3>3, <3>4, <1>1, <1>8 DEF KeptUpTo, a
      <4> QED
        BY <4>1, <3>3
    <3>5. CASE m \notin 1..a
      <4>1. PICK g \in 1..b : m = a + g
        BY <3>5, <1>2
      <4>2. g < h /\ L[m] = t[g] /\ L[n] = t[h]
        BY <4>1, <3>1, <1>8, <1>1
      <4>3. t[g][1] < t[h][1] /\ t[g][1] \in Int
        BY <4>2, <1>3 DEF NextOf, b, Cells
      <4> QED
        BY <4>2, <4>3, <1>8
    <3> QED
      BY <3>4, <3>5
  <2> QED
    BY <2>1, <2>2
<1>9. KeptUpTo(L, U)
  BY <1>6, <1>7, <1>8 DEF KeptUpTo
<1> QED
  BY <1>9 DEF L, U

(* Junk behind what is kept changes nothing.                               *)
LEMMA KeptJunk ==
    ASSUME NEW K \in Seq(Cells), NEW t \in Seq(Cells), NEW T \in [Lanes -> Nat],
           KeptUpTo(K, T), \A m \in 1..Len(t) : t[m] = Junk
    PROVE  KeptUpTo(K \o t, T)
<1> DEFINE L == K \o t
           a == Len(K)
           b == Len(t)
<1>1. /\ a \in Nat /\ b \in Nat /\ Len(L) = a + b
      /\ \A m \in 1..a : L[m] = K[m]
      /\ \A m \in 1..Len(L) : m \in 1..a \/ L[m] = Junk
  <2>1. /\ Len(L) = a + b
        /\ \A m \in 1..a + b : L[m] = IF m <= a THEN K[m] ELSE t[m - a]
    BY ConcatProperties
  <2>2. a \in Nat /\ b \in Nat
    OBVIOUS
  <2>3. \A m \in 1..a + b : m \in 1..a \/ (~(m <= a) /\ m - a \in 1..b)
    BY <2>2
  <2>4. \A m \in 1..a : m \in 1..a + b /\ m <= a
    BY <2>2
  <2> HIDE DEF L, a
  <2> QED
    BY <2>1, <2>2, <2>3, <2>4
<1>2. \A i \in Lanes : i # -1
  BY DEF Lanes
<1> HIDE DEF L, a, b
<1>6. ASSUME NEW m \in 1..Len(L), L[m] # Junk
      PROVE  m \in 1..a /\ L[m] = K[m] /\ L[m][1] \in Lanes /\ L[m][2] \in 1..T[L[m][1]]
  BY <1>1, <1>6 DEF KeptUpTo, a
<1>7. ASSUME NEW i \in Lanes, NEW k \in 1..T[i]
      PROVE  \E m \in 1..Len(L) : L[m] = <<i, k>>
  <2>1. PICK m \in 1..a : K[m] = <<i, k>>
    BY DEF KeptUpTo, a
  <2>2. m \in 1..Len(L) /\ L[m] = <<i, k>>
    BY <2>1, <1>1
  <2> QED
    BY <2>2
<1>8. ASSUME NEW m \in 1..Len(L), NEW n \in 1..Len(L), m < n, L[m][1] = L[n][1], L[m] # Junk
      PROVE  L[m][2] < L[n][2]
  <2>1. m \in 1..a /\ L[m] = K[m] /\ L[m][1] \in Lanes
    BY <1>6, <1>8
  <2>2. L[n] # Junk
    BY <2>1, <1>8, <1>2 DEF Junk
  <2>3. n \in 1..a /\ L[n] = K[n]
    BY <2>2, <1>6
  <2> QED
    BY <2>1, <2>3, <1>8 DEF KeptUpTo, a
<1>9. KeptUpTo(L, T)
  BY <1>6, <1>7, <1>8 DEF KeptUpTo
<1> QED
  BY <1>9 DEF L

(* What the reader takes in one pass, with at most one element per lane.   *)
HeadsOf(T, val) ==
    [i \in 1..NStrm |-> IF i - 1 \in val THEN << <<i - 1, T[i - 1] + 1>> >> ELSE << >>]

LEMMA OneOfEach ==
    ASSUME NEW T \in [Lanes -> Nat], NEW val \in SUBSET Lanes, NEW heads, heads = HeadsOf(T, val)
    PROVE  FlattenSeq(heads) \in Seq(Cells) /\ NextOf(FlattenSeq(heads), T, val)
<1> DEFINE e(i) == <<i, T[i] + 1>>
           Upto(t, n) ==
             /\ Len(t) <= n
             /\ \A m \in 1..Len(t) : \E i \in val : i < n /\ t[m] = e(i)
             /\ \A i \in val : i < n => \E m \in 1..Len(t) : t[m] = e(i)
             /\ \A m, k \in 1..Len(t) : m < k => t[m][1] < t[k][1]
<1>0. NStrm \in Nat /\ NStrm > 0 /\ NStrm \in 1..NStrm
  BY GatherAssumption DEF GatherAssumption
<1>1. \A i \in Lanes : e(i) \in Cells /\ e(i)[1] = i /\ i \in Nat
  BY DEF Cells, Lanes
<1>2. ASSUME NEW n \in 1..NStrm
      PROVE  /\ heads[n] \in Seq(Cells)
             /\ n - 1 \in Lanes /\ n \in Nat /\ n > 0
             /\ n - 1 \in val => heads[n] = <<e(n - 1)>>
             /\ n - 1 \notin val => heads[n] = << >>
  <2>1. n - 1 \in Lanes /\ n \in Nat /\ n > 0
    BY <1>0 DEF Lanes
  <2>2. /\ n - 1 \in val => heads[n] = <<e(n - 1)>>
        /\ n - 1 \notin val => heads[n] = << >>
    BY DEF HeadsOf
  <2>3. <<e(n - 1)>> \in Seq(Cells) /\ << >> \in Seq(Cells)
    BY <2>1, <1>1
  <2> HIDE DEF e
  <2> QED
    BY <2>1, <2>2, <2>3
<1> HIDE DEF e
<1>3. heads \in Seq(Seq(Cells)) /\ Len(heads) = NStrm
  <2>1. heads = [i \in 1..NStrm |-> heads[i]]
    BY DEF HeadsOf
  <2>2. heads \in [1..NStrm -> Seq(Cells)]
    BY <1>2, <2>1
  <2>3. \A S : \A n \in Nat : \A s \in [1..n -> S] : s \in Seq(S) /\ Len(s) = n
    OBVIOUS
  <2> QED
    BY <1>0, <2>2, <2>3
<1>4. PICK f \in [1..NStrm -> Seq(Cells)] : Flattens(heads, NStrm, f)
  BY <1>0, <1>3, FlattensExists
<1>5. FlattenSeq(heads) = f[NStrm]
  BY <1>0, <1>3, <1>4, FlattenIs
<1>6. /\ f[1] = heads[1]
      /\ \A n \in 1..NStrm : n # 1 => f[n] = f[n - 1] \o heads[n]
  <2>1. \A n \in 1..NStrm : f[n] = IF n = 1 THEN heads[n] ELSE f[n - 1] \o heads[n]
    BY <1>4 DEF Flattens
  <2>2. 1 \in 1..NStrm
    BY <1>0
  <2>3. f[1] = heads[1]
    BY <2>1, <2>2
  <2>4. \A n \in 1..NStrm : n # 1 => f[n] = f[n - 1] \o heads[n]
    BY <2>1
  <2> QED
    BY <2>3, <2>4
<1>7. ASSUME NEW t \in Seq(Cells), NEW n \in 1..NStrm, Upto(t, n - 1)
      PROVE  Upto(t \o heads[n], n)
  <2>1. CASE n - 1 \notin val
    <3>1. t \o heads[n] = t
      BY <2>1, <1>2, ConcatEmptySeq
    <3>2. \A i \in val : i \in Nat /\ (i < n => i < n - 1) /\ (i < n - 1 => i < n)
      BY <2>1, <1>1, <1>2
    <3>3. Len(t) <= n - 1 => Len(t) <= n
      BY <1>2, Len(t) \in Nat
    <3> QED
      BY <3>1, <3>2, <3>3, <1>7
  <2>2. CASE n - 1 \in val
    <3> DEFINE a == Len(t)
               u == Append(t, e(n - 1))
    <3>0. t \o heads[n] = u
      <4>1. \A S : \A s \in Seq(S), x \in S : s \o <<x>> = Append(s, x)
        OBVIOUS
      <4>2. e(n - 1) \in Cells /\ heads[n] = <<e(n - 1)>>
        BY <2>2, <1>2, <1>1
      <4> QED
        BY <4>1, <4>2
    <3>1. /\ a \in Nat /\ Len(u) = a + 1 /\ u[a + 1] = e(n - 1) /\ \A m \in 1..a : u[m] = t[m]
      <4>1. e(n - 1) \in Cells
        BY <1>1, <1>2
      <4> QED
        BY <4>1
    <3>2. a <= n - 1 /\ n \in Nat
      BY <1>7, <1>2
    <3>3. \A m \in 1..a + 1 : m \in 1..a \/ m = a + 1
      BY <3>1
    <3> HIDE DEF a, u
    <3>4. Len(u) <= n
      BY <3>1, <3>2
    <3>5. ASSUME NEW m \in 1..a PROVE \E i \in val : i < n - 1 /\ t[m] = e(i)
      BY <3>5, <1>7 DEF a
    <3>6. \A i \in val : i \in Nat /\ (i < n - 1 => i < n) /\ (i < n => i < n - 1 \/ i = n - 1)
      <4>1. \A x, y \in Nat : (x < y - 1 => x < y) /\ (x < y => x < y - 1 \/ x = y - 1)
        OBVIOUS
      <4> QED
        BY <4>1, <1>1, <3>2
    <3>7. n - 1 < n
      BY <3>2
    <3>8. \A m \in 1..Len(u) : \E i \in val : i < n /\ u[m] = e(i)
      BY <3>1, <3>3, <3>5, <3>6, <3>7, <2>2
    <3>9. ASSUME NEW i \in val, i < n PROVE \E m \in 1..Len(u) : u[m] = e(i)
      <4>1. CASE i < n - 1
        <5>1. PICK m \in 1..a : t[m] = e(i)
          BY <4>1, <1>7 DEF a
        <5>2. m \in 1..Len(u) /\ u[m] = e(i)
          BY <5>1, <3>1
        <5> QED
          BY <5>2
      <4>2. CASE i = n - 1
        <5>1. a + 1 \in 1..Len(u)
          BY <3>1
        <5> QED
          BY <4>2, <5>1, <3>1
      <4> QED
        BY <4>1, <4>2, <3>6, <3>9
    <3>10. ASSUME NEW m \in 1..Len(u), NEW k \in 1..Len(u), m < k
           PROVE  u[m][1] < u[k][1]
      <4>1. m \in 1..a /\ u[m] = t[m]
        BY <3>1, <3>10
      <4>2. CASE k \in 1..a
        <5>1. u[k] = t[k]
          BY <4>2, <3>1
        <5> QED
          BY <4>1, <4>2, <5>1, <3>10, <1>7 DEF a
      <4>3. CASE k = a + 1
        <5>1. PICK i \in val : i < n - 1 /\ t[m] = e(i)
          BY <4>1, <3>5
        <5>2. u[m][1] = i /\ u[k][1] = n - 1
          BY <5>1, <4>1, <4>3, <3>1, <1>1, <1>2
        <5> QED
          BY <5>1, <5>2
      <4> QED
        BY <4>2, <4>3, <3>1, <3>3
    <3>11. Upto(u, n)
      BY <3>4, <3>8, <3>9, <3>10
    <3> HIDE DEF Upto
    <3> QED
      BY <3>0, <3>11
  <2> QED
    BY <2>1, <2>2
<1>8. Upto(f[1], 1)
  <2>0. 1 \in 1..NStrm /\ << >> \in Seq(Cells)
    BY <1>0
  <2>1. << >> \in Seq(Cells) /\ 1 \in 1..NStrm /\ heads[1] \in Seq(Cells)
    BY <2>0, <1>2
  <2>2. << >> \o heads[1] = f[1]
    BY <2>1, <1>6, ConcatEmptySeq
  <2>3. Upto(<< >>, 1 - 1)
    <3>1. \A i \in val : ~(i < 1 - 1)
      BY <1>1
    <3> QED
      BY <3>1
  <2> HIDE DEF Upto
  <2> QED
    BY <2>1, <2>2, <2>3, <1>7
<1> DEFINE bad == {n \in 1..NStrm : ~Upto(f[n], n)}
<1>9. bad = {}
  <2> SUFFICES ASSUME bad # {} PROVE FALSE
    OBVIOUS
  <2>1. bad \in SUBSET Nat
    BY <1>0
  <2>2. PICK n \in bad : \A j \in bad : n <= j
    BY <2>1, Smallest
  <2>3. n \in 1..NStrm /\ ~Upto(f[n], n)
    OBVIOUS
  <2>4. n # 1
    BY <1>8, <2>3
  <2>5. n - 1 \in 1..NStrm /\ ~(n <= n - 1)
    <3>1. \A x, y : x \in Nat /\ y \in 1..x /\ y # 1 => y - 1 \in 1..x /\ ~(y <= y - 1)
      OBVIOUS
    <3> QED
      BY <3>1, <2>3, <2>4, <1>0
  <2>6. Upto(f[n - 1], n - 1)
    BY <2>2, <2>5
  <2>7. f[n - 1] \in Seq(Cells)
    BY <2>5
  <2>8. f[n] = f[n - 1] \o heads[n]
    BY <1>6, <2>3, <2>4
  <2> HIDE DEF Upto
  <2> QED
    BY <1>7, <2>3, <2>6, <2>7, <2>8
<1>10. Upto(f[NStrm], NStrm) /\ f[NStrm] \in Seq(Cells)
  BY <1>9, <1>0
<1>11. \A i \in val : i < NStrm
  BY <1>0 DEF Lanes
<1> QED
  BY <1>5, <1>10, <1>11 DEF NextOf, e

-----------------------------------------------------------------------------
(* The elements in a lane are the next ones of it. *)
DataNext(i) == \A k \in 1..Len(data[i]) : data[i][k] = <<i, Taken(i) + k>>

Buffers ==
    /\ bufs \in Seq(Seq(Cells)) /\ rd.buf \in Seq(Cells) /\ rd.took \in Seq(Cells)
    /\ Len(rd.buf) < NStrm /\ Len(rd.took) <= NStrm
    /\ rd.pc \in {"first", "data", "done"} => rd.took = << >>
    /\ rd.pc = "done" => rd.last = Lanes

AllTaken == [i \in Lanes |-> Taken(i)]

KeptInv ==
    /\ Inv
    /\ \A i \in Lanes : DataNext(i)
    /\ Buffers
    /\ KeptUpTo(Kept, AllTaken)

LEMMA AllTakenNat ==
    ASSUME Inv
    PROVE  AllTaken \in [Lanes -> Nat] /\ \A i \in Lanes : AllTaken[i] = Taken(i) /\ Taken(i) \in Nat
<1>1. ASSUME NEW i \in Lanes PROVE Taken(i) \in Nat
  <2>1. pu[i].elements \in Nat /\ Len(data[i]) \in Nat /\ OneAhead(i)
    BY LaneFacts DEF LaneInv
  <2> QED
    BY <2>1 DEF OneAhead, Taken
<1> QED
  BY <1>1 DEF AllTaken

LEMMA ConcatAssoc ==
    ASSUME NEW x \in Seq(Cells), NEW y \in Seq(Cells), NEW z \in Seq(Cells)
    PROVE  (x \o y) \o z = x \o (y \o z) /\ x \o y \in Seq(Cells)
BY ConcatAssociative, ConcatProperties

LEMMA JoinedIs ==
    ASSUME NEW x \in Seq(Cells), NEW y \in Seq(Cells), NEW z \in Seq(Cells),
           Len(z) = Len(x) + Len(y),
           \A i \in 1..Len(x) : z[i] = x[i],
           \A i \in 1..Len(y) : z[Len(x) + i] = y[i]
    PROVE  x \o y = z
<1> DEFINE a == Len(x)
           b == Len(y)
           w == x \o y
<1>1. /\ w \in Seq(Cells) /\ Len(w) = a + b /\ a \in Nat /\ b \in Nat
      /\ \A i \in 1..a + b : w[i] = IF i <= a THEN x[i] ELSE y[i - a]
  BY ConcatProperties
<1>2. /\ Len(z) = a + b /\ \A i \in 1..a : z[i] = x[i]
      /\ \A i \in 1..b : z[a + i] = y[i]
  OBVIOUS
<1> HIDE DEF a, b, w
<1>3. ASSUME NEW i \in 1..a + b PROVE w[i] = z[i]
  <2>1. CASE i <= a
    <3>1. i \in 1..a
      BY <2>1, <1>1
    <3> QED
      BY <3>1, <2>1, <1>1, <1>2
  <2>2. CASE ~(i <= a)
    <3>1. i - a \in 1..b /\ a + (i - a) = i
      BY <2>2, <1>1
    <3>2. z[a + (i - a)] = y[i - a]
      BY <3>1, <1>2
    <3> QED
      BY <3>1, <3>2, <2>2, <1>1
  <2> QED
    BY <2>1, <2>2
<1>4. w = z
  BY <1>1, <1>2, <1>3, SeqEqual
<1> QED
  BY <1>4 DEF w

LEMMA KeptIs ==
    ASSUME NEW words \in Seq(Seq(Cells)), NEW buf \in Seq(Cells), NEW took \in Seq(Cells)
    PROVE  /\ FlattenSeq(words) \in Seq(Cells)
           /\ FlattenSeq(words) \o (buf \o took) \in Seq(Cells)
           /\ FlattenSeq(words \o << buf, took >>) = FlattenSeq(words) \o (buf \o took)
<1> DEFINE one == Append(words, buf)
           two == Append(one, took)
<1>2. one \in Seq(Seq(Cells))
  OBVIOUS
<1>3. words \o << buf, took >> = two
  <2>1. \A S : \A s \in Seq(S), x, y \in S : s \o <<x, y>> = Append(Append(s, x), y)
    OBVIOUS
  <2> QED
    BY <2>1
<1>4. FlattenSeq(two) = (FlattenSeq(words) \o buf) \o took
  <2>1. FlattenSeq(one) = FlattenSeq(words) \o buf
    BY FlattenAppend
  <2> HIDE DEF one
  <2>2. FlattenSeq(two) = FlattenSeq(one) \o took
    BY <1>2, FlattenAppend
  <2> QED
    BY <2>1, <2>2
<1>5. FlattenSeq(words) \in Seq(Cells)
  BY FlattenTyped
<1> HIDE DEF two
<1>6. (FlattenSeq(words) \o buf) \o took = FlattenSeq(words) \o (buf \o took)
  BY <1>5, ConcatAssoc
<1>7. buf \o took \in Seq(Cells)
  BY ConcatAssoc
<1>8. FlattenSeq(words) \o (buf \o took) \in Seq(Cells)
  BY <1>5, <1>7, ConcatAssoc
<1> QED
  BY <1>3, <1>4, <1>5, <1>6, <1>8

LEMMA KeptInvInit == Init => KeptInv
<1> SUFFICES ASSUME Init PROVE KeptInv
  OBVIOUS
<1>1. Inv
  BY InvInit
<1>2. NStrm \in Nat /\ NStrm > 0
  BY GatherAssumption DEF GatherAssumption
<1>3. /\ bufs = << >> /\ rd.pc = "first" /\ rd.took = << >> /\ rd.buf = << >>
      /\ \A i \in Lanes : data[i] = << >> /\ pu[i].elements = 0
  BY DEF Init
<1>4. Buffers
  <2>1. \A S : << >> \in Seq(S) /\ Len(<< >>) = 0
    OBVIOUS
  <2> QED
    BY <1>2, <1>3, <2>1 DEF Buffers
<1>5. Kept = << >>
  <2>1. << >> \in Seq(Cells) /\ << >> \in Seq(Seq(Cells))
    OBVIOUS
  <2>2. FlattenSeq(<< >> \o << << >>, << >> >>) = FlattenSeq(<< >>) \o (<< >> \o << >>)
    BY <2>1, KeptIs
  <2>3. << >> \o << >> = << >>
    BY <2>1, ConcatEmptySeq
  <2> QED
    BY <1>3, <2>2, <2>3, FlattenEmpty DEF Kept
<1>6. ASSUME NEW i \in Lanes PROVE DataNext(i) /\ AllTaken[i] = 0
  BY <1>3 DEF DataNext, AllTaken, Taken
<1>7. KeptUpTo(Kept, AllTaken)
  BY <1>5, <1>6 DEF KeptUpTo
<1> QED
  BY <1>1, <1>4, <1>6, <1>7 DEF KeptInv

(* What was kept stays, as long as nothing is taken. *)
LEMMA SameKept ==
    ASSUME KeptInv, Inv', UNCHANGED <<bufs, data>>, rd'.buf = rd.buf, rd'.took = rd.took,
           \A i \in Lanes : pu'[i].elements = pu[i].elements,
           rd'.pc = rd.pc \/ (rd'.pc \in {"data", "pack"} /\ (rd'.pc = "data" => rd.took = << >>)),
           rd'.last = rd.last \/ rd'.pc # "done"
    PROVE  KeptInv'
<1>1. \A i \in Lanes : DataNext(i)'
  BY DEF KeptInv, DataNext, Taken
<1>2. Buffers'
  BY DEF KeptInv, Buffers
<1>3. Kept' = Kept
  BY DEF Kept
<1>4. AllTaken' = AllTaken
  BY DEF AllTaken, Taken
<1> QED
  BY <1>1, <1>2, <1>3, <1>4 DEF KeptInv

LEMMA KeptUnit ==
    ASSUME KeptInv, Inv', NEW i \in Lanes, Unit(i)
    PROVE  KeptInv'
<1>0. Typed /\ data[i] \in Seq(Elems) /\ pu[i].elements \in Nat /\ Len(data[i]) \in Nat
  BY LaneFacts DEF KeptInv, Inv
<1>1. CASE WriteElement(i)
  <2> DEFINE e == pu[i].elements
  <2>1. /\ data' = [data EXCEPT ![i] = Append(data[i], <<i, e + 1>>)]
        /\ pu' = [pu EXCEPT ![i].elements = e + 1]
        /\ UNCHANGED <<rd, bufs>>
    BY <1>1 DEF WriteElement
  <2>2. <<i, e + 1>> \in Elems
    BY <1>0 DEF Elems
  <2>3. /\ Len(Append(data[i], <<i, e + 1>>)) = Len(data[i]) + 1
        /\ Append(data[i], <<i, e + 1>>)[Len(data[i]) + 1] = <<i, e + 1>>
        /\ \A k \in 1..Len(data[i]) : Append(data[i], <<i, e + 1>>)[k] = data[i][k]
    BY <1>0, <2>2, AppendFacts
  <2>4. /\ data'[i] = Append(data[i], <<i, e + 1>>) /\ pu'[i].elements = e + 1
        /\ \A j \in Lanes : j # i => data'[j] = data[j] /\ pu'[j] = pu[j]
    BY <2>1, <1>0 DEF Typed
  <2>5. Taken(i)' = Taken(i)
    <3>1. \A x, y \in Nat : (x + 1) - (y + 1) = x - y
      OBVIOUS
    <3> QED
      BY <2>3, <2>4, <1>0, <3>1, SMTT(30) DEF Taken
  <2>6. \A j \in Lanes : Taken(j)' = Taken(j)
    BY <2>4, <2>5 DEF Taken
  <2>7. DataNext(i)'
    <3> SUFFICES ASSUME NEW k \in 1..Len(data[i]) + 1 PROVE data'[i][k] = <<i, Taken(i) + k>>
      BY <2>3, <2>4, <2>5 DEF DataNext
    <3>1. CASE k \in 1..Len(data[i])
      BY <3>1, <2>3, <2>4 DEF KeptInv, DataNext
    <3>2. CASE k = Len(data[i]) + 1
      <4>1. \A x, y \in Nat : (x - y) + (y + 1) = x + 1
        OBVIOUS
      <4>2. Taken(i) + k = e + 1
        BY <4>1, <3>2, <1>0 DEF Taken
      <4> QED
        BY <4>2, <3>2, <2>3, <2>4
    <3> QED
      BY <3>1, <3>2, <1>0
  <2>8. \A j \in Lanes : DataNext(j)'
    BY <2>4, <2>6, <2>7 DEF KeptInv, DataNext
  <2>9. AllTaken' = AllTaken
    BY <2>6 DEF AllTaken
  <2>10. Buffers' /\ Kept' = Kept
    BY <2>1 DEF KeptInv, Buffers, Kept
  <2> QED
    BY <2>8, <2>9, <2>10 DEF KeptInv
<1>2. CASE WriteFlag(i) \/ WriteEnd(i)
  <2>1. /\ UNCHANGED <<data, rd, bufs>>
        /\ \A j \in Lanes : pu'[j].elements = pu[j].elements
    <3>1. UNCHANGED <<data, rd, bufs>> /\ pu' = [pu EXCEPT ![i].flags = pu[i].flags + 1]
      BY <1>2 DEF WriteFlag, WriteEnd
    <3>2. pu \in [Lanes -> [elements : Nat, flags : Nat]]
      BY <1>0 DEF Typed
    <3> QED
      BY <3>1, <3>2
  <2> QED
    BY <2>1, SameKept
<1> QED
  BY <1>1, <1>2 DEF Unit

LEMMA KeptFlags ==
    ASSUME KeptInv, Inv', FirstFlags \/ TakeFlags
    PROVE  KeptInv'
<1>1. /\ rd.pc \in {"first", "flags"} /\ UNCHANGED <<pu, data, bufs>>
      /\ rd'.buf = rd.buf /\ rd'.took = rd.took
      /\ rd'.pc = IF rd.pc = "first" THEN "data" ELSE "pack"
  BY DEF FirstFlags, TakeFlags, ReadFlags, KeptInv, Inv, Typed
<1>2. rd'.pc = "data" => rd.took = << >>
  BY <1>1 DEF KeptInv, Buffers
<1> QED
  BY <1>1, <1>2, SameKept

LEMMA KeptElements ==
    ASSUME KeptInv, Inv', TakeElements
    PROVE  KeptInv'
<1> DEFINE val == {i \in Lanes \ rd.last : data[i] # << >>}
           heads == [i \in 1..NStrm |-> IF i - 1 \in val THEN <<Head(data[i - 1])>> ELSE << >>]
           t == FlattenSeq(heads)
           T == AllTaken
<1>0. Inv /\ Buffers
  BY DEF KeptInv
<1>1. /\ data' = [i \in Lanes |-> IF i \in val THEN Tail(data[i]) ELSE data[i]]
      /\ rd'.pc = "flags" /\ rd'.last = rd.last /\ rd.pc = "data"
      /\ rd'.buf = rd.buf /\ rd'.took = t
      /\ UNCHANGED <<pu, bufs>>
  BY <1>0 DEF TakeElements, Inv, Typed
<1>2. T \in [Lanes -> Nat] /\ \A i \in Lanes : T[i] = Taken(i) /\ Taken(i) \in Nat
  BY <1>0, AllTakenNat
<1>3. val \in SUBSET Lanes
  OBVIOUS
<1>4. ASSUME NEW i \in val
      PROVE  /\ data[i] \in Seq(Elems) /\ data[i] # << >>
             /\ Head(data[i]) = <<i, T[i] + 1>>
             /\ Len(data[i]) \in Nat /\ Len(data[i]) > 0 /\ Len(Tail(data[i])) = Len(data[i]) - 1
             /\ \A k \in 1..Len(Tail(data[i])) : Tail(data[i])[k] = data[i][k + 1]
  <2>1. data[i] \in Seq(Elems) /\ data[i] # << >> /\ i \in Lanes
    BY <1>0, LaneFacts
  <2>2. /\ Head(data[i]) = data[i][1] /\ Len(data[i]) \in Nat /\ Len(data[i]) > 0
        /\ Len(Tail(data[i])) = Len(data[i]) - 1
        /\ \A k \in 1..Len(Tail(data[i])) : Tail(data[i])[k] = data[i][k + 1]
    BY <2>1, TailFacts
  <2>3. 1 \in 1..Len(data[i]) /\ DataNext(i)
    BY <2>1, <2>2 DEF KeptInv
  <2>4. data[i][1] = <<i, T[i] + 1>>
    BY <2>1, <2>3, <1>2 DEF DataNext
  <2> QED
    BY <2>1, <2>2, <2>4
<1> HIDE DEF val, T
<1>5. heads = HeadsOf(T, val)
  <2>1. \A i \in 1..NStrm : i - 1 \in val => <<Head(data[i - 1])>> = << <<i - 1, T[i - 1] + 1>> >>
    BY <1>4
  <2> QED
    BY <2>1 DEF HeadsOf
<1> HIDE DEF heads
<1>6. t \in Seq(Cells) /\ NextOf(t, T, val)
  BY <1>2, <1>3, <1>5, OneOfEach
<1> HIDE DEF t
<1>7. Buffers'
  BY <1>0, <1>1, <1>6 DEF Buffers, NextOf
<1>8. Kept \in Seq(Cells) /\ Kept' = Kept \o t
  <2>1. /\ FlattenSeq(bufs) \in Seq(Cells) /\ Kept \in Seq(Cells)
        /\ Kept = FlattenSeq(bufs) \o (rd.buf \o rd.took)
    BY <1>0, KeptIs, ZenonT(30) DEF Buffers, Kept
  <2>2. Kept' = FlattenSeq(bufs') \o (rd'.buf \o rd'.took)
    BY <1>7, KeptIs DEF Buffers, Kept
  <2>3. rd.buf \in Seq(Cells) /\ rd.took = << >>
    BY <1>0, <1>1 DEF Buffers
  <2>4. rd.buf \o rd.took = rd.buf
    BY <2>3, ConcatEmptySeq
  <2>5. Kept' = FlattenSeq(bufs) \o (rd.buf \o t)
    BY <2>2, <1>1
  <2>6. (FlattenSeq(bufs) \o rd.buf) \o t = FlattenSeq(bufs) \o (rd.buf \o t)
    <3>1. FlattenSeq(bufs) \in Seq(Cells) /\ rd.buf \in Seq(Cells) /\ t \in Seq(Cells)
      BY <2>1, <2>3, <1>6
    <3> QED
      BY <3>1, ConcatAssoc, ZenonT(30)
  <2> QED
    BY <2>1, <2>4, <2>5, <2>6
<1>9. ASSUME NEW i \in Lanes
      PROVE  DataNext(i)' /\ Taken(i)' = IF i \in val THEN T[i] + 1 ELSE T[i]
  <2>0. pu'[i] = pu[i] /\ pu[i].elements \in Nat /\ T[i] = Taken(i) /\ Taken(i) \in Nat /\ DataNext(i)
    BY <1>0, <1>1, <1>2, LaneFacts DEF KeptInv
  <2>1. CASE i \in val
    <3>1. data'[i] = Tail(data[i])
      BY <1>1, <2>1
    <3>2. \A x, y \in Nat : x - (y - 1) = x - y + 1
      OBVIOUS
    <3>3. Taken(i)' = Taken(i) + 1
      BY <3>1, <3>2, <2>0, <2>1, <1>4 DEF Taken
    <3>4. ASSUME NEW k \in 1..Len(Tail(data[i]))
          PROVE  Tail(data[i])[k] = <<i, Taken(i) + 1 + k>>
      <4>1. k + 1 \in 1..Len(data[i]) /\ k \in Nat
        BY <1>4, <2>1
      <4>2. data[i][k + 1] = <<i, Taken(i) + (k + 1)>>
        BY <4>1, <2>0 DEF DataNext
      <4>3. Taken(i) + (k + 1) = Taken(i) + 1 + k
        BY <4>1, <2>0
      <4> QED
        BY <4>2, <4>3, <1>4, <2>1
    <3>5. DataNext(i)'
      BY <3>1, <3>3, <3>4 DEF DataNext
    <3> QED
      BY <3>3, <3>5, <2>0, <2>1
  <2>2. CASE i \notin val
    BY <2>0, <2>2, <1>1 DEF DataNext, Taken
  <2> QED
    BY <2>1, <2>2
<1>10. AllTaken' = [i \in Lanes |-> IF i \in val THEN T[i] + 1 ELSE T[i]]
  BY <1>9 DEF AllTaken
<1>11. KeptUpTo(Kept, T)
  BY DEF KeptInv, T
<1>12. KeptUpTo(Kept, AllTaken)'
  <2>1. KeptUpTo(Kept \o t, [i \in Lanes |-> IF i \in val THEN T[i] + 1 ELSE T[i]])
    BY <1>2, <1>3, <1>6, <1>8, <1>11, KeptMore
  <2> QED
    BY <2>1, <1>8, <1>10
<1> QED
  BY <1>7, <1>9, <1>12 DEF KeptInv

(* A word that is full leaves; what is left and what was taken stay in     *)
(* their order.                                                            *)
LEMMA CutJoined ==
    ASSUME NEW b \in Seq(Cells), NStrm <= Len(b)
    PROVE  /\ SubSeq(b, 1, NStrm) \in Seq(Cells) /\ Rest(b) \in Seq(Cells)
           /\ Len(Rest(b)) = Len(b) - NStrm
           /\ SubSeq(b, 1, NStrm) \o Rest(b) = b
<1> DEFINE x == SubSeq(b, 1, NStrm)
           y == SubSeq(b, NStrm + 1, Len(b))
           n == Len(b)
<1>1. NStrm \in Nat /\ NStrm > 0 /\ n \in Nat /\ NStrm <= n
  BY GatherAssumption DEF GatherAssumption
<1>2. /\ x \in Seq(Cells) /\ Len(x) = NStrm /\ \A i \in 1..NStrm : x[i] = b[i]
  <2>1. 1 \in Int /\ NStrm \in Int /\ \A i \in 1..NStrm : b[i] \in Cells
    BY <1>1
  <2>2. /\ x \in Seq(Cells) /\ Len(x) = IF 1 <= NStrm THEN NStrm - 1 + 1 ELSE 0
        /\ \A i \in 1..NStrm - 1 + 1 : x[i] = b[1 + i - 1]
    BY <2>1, SubSeqProperties
  <2>3. NStrm - 1 + 1 = NStrm /\ 1 <= NStrm /\ \A i \in 1..NStrm : 1 + i - 1 = i
    BY <1>1
  <2> QED
    BY <2>2, <2>3
<1>3. /\ y \in Seq(Cells) /\ Len(y) = n - NStrm /\ \A i \in 1..n - NStrm : y[i] = b[NStrm + i]
  <2>1. NStrm + 1 \in Int /\ n \in Int /\ \A i \in NStrm + 1..n : b[i] \in Cells
    BY <1>1
  <2>2. /\ y \in Seq(Cells) /\ Len(y) = IF NStrm + 1 <= n THEN n - (NStrm + 1) + 1 ELSE 0
        /\ \A i \in 1..n - (NStrm + 1) + 1 : y[i] = b[NStrm + 1 + i - 1]
    BY <2>1, SubSeqProperties
  <2>3. /\ n - (NStrm + 1) + 1 = n - NStrm /\ (~(NStrm + 1 <= n) => n - NStrm = 0)
        /\ \A i \in 1..n - NStrm : NStrm + 1 + i - 1 = NStrm + i
    BY <1>1
  <2> QED
    BY <2>2, <2>3
<1> HIDE DEF x, y, n
<1>4. NStrm + (n - NStrm) = n /\ \A i \in 1..NStrm : i \in 1..n
  BY <1>1
<1>7. x \o y = b
  BY <1>2, <1>3, <1>4, JoinedIs, ZenonT(30) DEF n
<1> QED
  BY <1>2, <1>3, <1>7 DEF x, y, n, Rest

LEMMA KeptPack ==
    ASSUME KeptInv, Inv', Pack
    PROVE  KeptInv'
<1> DEFINE b == rd.buf \o rd.took
           F == FlattenSeq(bufs)
<1>0. Inv /\ Buffers /\ NStrm \in Nat /\ NStrm > 0
  BY GatherAssumption DEF KeptInv, GatherAssumption
<1>1. /\ UNCHANGED <<pu, data>> /\ rd'.pc = "data" /\ rd'.took = << >>
      /\ bufs' = (IF IsWord(b) THEN Append(bufs, SubSeq(b, 1, NStrm)) ELSE bufs)
      /\ rd'.buf = (IF IsWord(b) THEN Rest(b) ELSE b)
  BY <1>0 DEF Pack, Inv, Typed
<1>2. /\ rd.buf \in Seq(Cells) /\ rd.took \in Seq(Cells) /\ bufs \in Seq(Seq(Cells))
      /\ Len(rd.buf) < NStrm /\ Len(rd.took) <= NStrm
  BY <1>0 DEF Buffers
<1>3. b \in Seq(Cells) /\ Len(b) = Len(rd.buf) + Len(rd.took)
  BY <1>2, ConcatProperties
<1>4. Len(b) \in Nat /\ Len(b) < NStrm + NStrm
  <2>1. \A x, y, n \in Nat : x < n /\ y <= n => x + y \in Nat /\ x + y < n + n
    OBVIOUS
  <2>2. Len(rd.buf) \in Nat /\ Len(rd.took) \in Nat
    BY <1>2
  <2> QED
    BY <2>1, <2>2, <1>0, <1>2, <1>3, ZenonT(30)
<1>5. F \in Seq(Cells) /\ Kept = F \o b
  BY <1>2, KeptIs DEF Kept
<1>6. << >> \in Seq(Cells) /\ Len(<< >>) = 0
  OBVIOUS
<1> HIDE DEF b, F
<1>7. Buffers' /\ Kept' = Kept
  <2>1. CASE IsWord(b)
    <3>1. NStrm <= Len(b)
      BY <2>1, <1>0, <1>4 DEF IsWord
    <3> DEFINE w == SubSeq(b, 1, NStrm)
    <3>2. /\ w \in Seq(Cells) /\ Rest(b) \in Seq(Cells) /\ Len(Rest(b)) = Len(b) - NStrm
          /\ w \o Rest(b) = b
      BY <3>1, <1>3, CutJoined
    <3>3. bufs' = Append(bufs, w) /\ rd'.buf = Rest(b)
      BY <2>1, <1>1
    <3> HIDE DEF w
    <3>4. bufs' \in Seq(Seq(Cells))
      BY <3>2, <3>3, <1>2
    <3>5. Len(Rest(b)) < NStrm
      <4>1. \A x, n \in Nat : x < n + n => x - n < n
        OBVIOUS
      <4> QED
        BY <4>1, <3>2, <1>0, <1>4
    <3>6. Buffers'
      BY <3>2, <3>3, <3>4, <3>5, <1>0, <1>1, <1>6 DEF Buffers
    <3>7. FlattenSeq(bufs') = F \o w
      BY <3>2, <3>3, <1>2, FlattenAppend DEF F
    <3>8. Kept' = (F \o w) \o (Rest(b) \o << >>)
      <4>1. Kept' = FlattenSeq(bufs') \o (rd'.buf \o rd'.took)
        <5>1. bufs' \in Seq(Seq(Cells)) /\ rd'.buf \in Seq(Cells) /\ rd'.took \in Seq(Cells)
          BY <3>4, <3>2, <3>3, <1>1, <1>6
        <5> QED
          BY <5>1, KeptIs DEF Kept
      <4> QED
        BY <4>1, <3>7, <3>3, <1>1
    <3>9. Rest(b) \o << >> = Rest(b) /\ (F \o w) \o Rest(b) = F \o (w \o Rest(b))
      BY <3>2, <1>5, ConcatAssoc, ConcatEmptySeq
    <3> QED
      BY <3>2, <3>6, <3>8, <3>9, <1>5
  <2>2. CASE ~IsWord(b)
    <3>1. Len(b) < NStrm
      BY <2>2, <1>0, <1>4 DEF IsWord
    <3>2. bufs' = bufs /\ rd'.buf = b
      BY <2>2, <1>1
    <3>3. Buffers'
      BY <3>1, <3>2, <1>0, <1>1, <1>2, <1>3, <1>6 DEF Buffers
    <3>4. Kept' = F \o (b \o << >>)
      <4>1. Kept' = FlattenSeq(bufs') \o (rd'.buf \o rd'.took)
        <5>1. bufs' \in Seq(Seq(Cells)) /\ rd'.buf \in Seq(Cells) /\ rd'.took \in Seq(Cells)
          BY <3>2, <1>1, <1>2, <1>3, <1>6
        <5> QED
          BY <5>1, KeptIs DEF Kept
      <4> QED
        BY <4>1, <3>2, <1>1 DEF F
    <3>5. b \o << >> = b
      BY <1>3, ConcatEmptySeq
    <3> QED
      BY <3>3, <3>4, <3>5, <1>5
  <2> QED
    BY <2>1, <2>2
<1>8. AllTaken' = AllTaken
  BY <1>1 DEF AllTaken, Taken
<1>9. \A i \in Lanes : DataNext(i)'
  BY <1>1 DEF KeptInv, DataNext, Taken
<1> QED
  BY <1>7, <1>8, <1>9 DEF KeptInv

LEMMA KeptPackLast ==
    ASSUME KeptInv, Inv', PackLast
    PROVE  KeptInv'
<1> DEFINE F == FlattenSeq(bufs)
           n == Len(rd.buf)
           word == [k \in 1..NStrm |-> IF k <= n THEN rd.buf[k] ELSE Junk]
           junk == [k \in 1..NStrm - n |-> Junk]
<1>0. Inv /\ Buffers /\ NStrm \in Nat /\ NStrm > 0
  BY GatherAssumption DEF KeptInv, GatherAssumption
<1>1. /\ UNCHANGED <<pu, data>> /\ rd'.pc = "done" /\ rd'.took = rd.took /\ rd'.buf = << >>
      /\ bufs' = Append(bufs, word) /\ rd.pc = "data" /\ rd.last = Lanes /\ rd'.last = Lanes
  BY <1>0 DEF PackLast, Inv, Typed
<1>2. /\ rd.buf \in Seq(Cells) /\ rd.took = << >> /\ bufs \in Seq(Seq(Cells))
      /\ n < NStrm /\ n \in Nat
  BY <1>0, <1>1 DEF Buffers
<1>3. Junk \in Cells
  BY DEF Junk, Cells
<1>a. \A S : \A m \in Nat : \A s \in [1..m -> S] : s \in Seq(S) /\ Len(s) = m
  OBVIOUS
<1>4. junk \in Seq(Cells) /\ Len(junk) = NStrm - n /\ \A k \in 1..Len(junk) : junk[k] = Junk
  <2>1. NStrm - n \in Nat
    BY <1>0, <1>2
  <2>2. junk \in [1..NStrm - n -> Cells]
    BY <1>3
  <2>3. junk \in Seq(Cells) /\ Len(junk) = NStrm - n
    BY <2>1, <2>2, <1>a
  <2> QED
    BY <2>3
<1>5. word \in Seq(Cells) /\ Len(word) = NStrm
  <2>1. \A k \in 1..NStrm : k <= n => rd.buf[k] \in Cells
    BY <1>0, <1>2
  <2>2. word \in [1..NStrm -> Cells]
    BY <2>1, <1>3
  <2> QED
    BY <2>2, <1>0, <1>a
<1>6. word = rd.buf \o junk
  <2>1. \A k \in 1..NStrm : word[k] = IF k <= n THEN rd.buf[k] ELSE Junk
    OBVIOUS
  <2>2. /\ n + (NStrm - n) = NStrm /\ \A k \in 1..n : k \in 1..NStrm /\ k <= n
        /\ \A k \in 1..NStrm - n : n + k \in 1..NStrm /\ ~(n + k <= n)
    BY <1>0, <1>2
  <2> HIDE DEF junk, word
  <2>3. \A k \in 1..n : word[k] = rd.buf[k]
    BY <2>1, <2>2
  <2>4. \A k \in 1..Len(junk) : word[n + k] = junk[k]
    BY <2>1, <2>2, <1>4
  <2>5. Len(word) = n + Len(junk)
    BY <2>2, <1>4, <1>5
  <2> QED
    BY <2>3, <2>4, <2>5, <1>2, <1>4, <1>5, JoinedIs
<1> HIDE DEF F, word, junk
<1>7. << >> \in Seq(Cells) /\ Len(<< >>) = 0
  OBVIOUS
<1>8. bufs' \in Seq(Seq(Cells))
  BY <1>1, <1>2, <1>5
<1>9. Buffers'
  BY <1>0, <1>1, <1>2, <1>7, <1>8 DEF Buffers
<1>10. F \in Seq(Cells) /\ Kept \in Seq(Cells) /\ Kept = F \o rd.buf
  <2>1. F \in Seq(Cells) /\ Kept \in Seq(Cells) /\ Kept = F \o (rd.buf \o rd.took)
    <3>1. bufs \in Seq(Seq(Cells)) /\ rd.buf \in Seq(Cells) /\ rd.took \in Seq(Cells)
      BY <1>2, <1>7
    <3> QED
      BY <3>1, KeptIs, ZenonT(30) DEF Kept, F
  <2>2. rd.buf \o rd.took = rd.buf
    BY <1>2, ConcatEmptySeq
  <2> QED
    BY <2>1, <2>2
<1>11. Kept' = F \o word
  <2>1. FlattenSeq(bufs') = F \o word /\ F \o word \in Seq(Cells)
    BY <1>1, <1>2, <1>5, <1>10, FlattenAppend, ConcatAssoc DEF F
  <2>2. Kept' = FlattenSeq(bufs') \o (rd'.buf \o rd'.took)
    <3>1. bufs' \in Seq(Seq(Cells)) /\ rd'.buf \in Seq(Cells) /\ rd'.took \in Seq(Cells)
      BY <1>8, <1>1, <1>2, <1>7
    <3> QED
      BY <3>1, KeptIs DEF Kept
  <2>3. rd'.buf \o rd'.took = << >>
    BY <1>1, <1>2, <1>7, ConcatEmptySeq
  <2> QED
    BY <2>1, <2>2, <2>3, ConcatEmptySeq
<1>12. Kept' = Kept \o junk
  <2>1. (F \o rd.buf) \o junk = F \o (rd.buf \o junk)
    <3>1. F \in Seq(Cells) /\ rd.buf \in Seq(Cells) /\ junk \in Seq(Cells)
      BY <1>10, <1>2, <1>4
    <3> QED
      BY <3>1, ConcatAssoc, ZenonT(30)
  <2> QED
    BY <2>1, <1>6, <1>10, <1>11
<1>13. AllTaken' = AllTaken
  BY <1>1 DEF AllTaken, Taken
<1>14. \A i \in Lanes : DataNext(i)'
  BY <1>1 DEF KeptInv, DataNext, Taken
<1>15. AllTaken \in [Lanes -> Nat]
  BY <1>0, AllTakenNat
<1>16. KeptUpTo(Kept \o junk, AllTaken)
  BY <1>4, <1>10, <1>15, KeptJunk DEF KeptInv
<1> QED
  BY <1>9, <1>12, <1>13, <1>14, <1>16 DEF KeptInv

LEMMA KeptInvStep == KeptInv /\ [Next]_vars => KeptInv'
<1> SUFFICES ASSUME KeptInv, [Next]_vars PROVE KeptInv'
  OBVIOUS
<1>0. Inv'
  BY InvStep DEF KeptInv
<1>1. CASE Reader
  BY <1>0, <1>1, KeptFlags, KeptElements, KeptPack, KeptPackLast DEF Reader
<1>2. CASE \E i \in Lanes : Unit(i)
  BY <1>0, <1>2, KeptUnit
<1>3. CASE UNCHANGED vars
  BY <1>0, <1>3, SameKept DEF vars
<1> QED
  BY <1>1, <1>2, <1>3 DEF Next, Finished

(* Whatever the lanes and the reader's two tests of them interleave to,    *)
(* read_lb keeps no element twice and the elements of a lane in the order  *)
(* the unit wrote them, across the words it packs them into.               *)
THEOREM GatheredInOrder == Spec => []KeptInOrder
<1>1. KeptInv => KeptInOrder
  BY DEF KeptInv, KeptUpTo, KeptInOrder
<1> QED
  BY <1>1, KeptInvInit, KeptInvStep, PTL DEF Spec

(* When read_lb has seen the end of every lane and stops, the words it     *)
(* wrote hold all elements of all lanes, and nothing else but the padding  *)
(* of the last word.                                                       *)
THEOREM GatheredAll == Spec => []ReadAll
<1>1. KeptInv => ReadAll
  <2> SUFFICES ASSUME KeptInv, rd.pc = "done" PROVE Elements = ToSet(Kept) \ {Junk}
    BY DEF ReadAll
  <2>0. Inv /\ Buffers /\ rd.last = Lanes
    BY DEF KeptInv, Buffers
  <2>1. ASSUME NEW i \in Lanes PROVE AllTaken[i] = load[i] /\ load[i] \in Nat
    <3>1. OneAhead(i) /\ load[i] \in Nat
      BY <2>0, LaneFacts DEF LaneInv
    <3> QED
      BY <3>1, <2>0 DEF OneAhead, AllTaken
  <2>2. Kept \in Seq(Cells)
    BY <2>0, KeptIs, ZenonT(30) DEF Buffers, Kept
  <2>3. ToSet(Kept) = {Kept[m] : m \in 1..Len(Kept)}
    BY <2>2 DEF ToSet
  <2>4. ASSUME NEW i \in Lanes, NEW k \in 1..load[i] PROVE <<i, k>> \in ToSet(Kept) \ {Junk}
    <3>1. \E m \in 1..Len(Kept) : Kept[m] = <<i, k>>
      BY <2>1 DEF KeptInv, KeptUpTo
    <3>2. <<i, k>> # Junk
      BY DEF Junk, Lanes
    <3> QED
      BY <3>1, <3>2, <2>3
  <2>5. ASSUME NEW m \in 1..Len(Kept), Kept[m] # Junk PROVE Kept[m] \in Elements
    <3>1. Kept[m][1] \in Lanes /\ Kept[m][2] \in 1..load[Kept[m][1]]
      BY <2>1, <2>5 DEF KeptInv, KeptUpTo
    <3>2. Kept[m] = <<Kept[m][1], Kept[m][2]>>
      BY <2>2 DEF Cells
    <3>3. \A i \in Lanes : \A k \in 1..load[i] : <<i, k>> \in Elements
      BY DEF Elements
    <3> QED
      BY <3>1, <3>2, <3>3
  <2>6. ASSUME NEW e \in Elements PROVE e \in ToSet(Kept) \ {Junk}
    BY <2>4 DEF Elements
  <2> QED
    BY <2>3, <2>5, <2>6
<1> QED
  BY <1>1, KeptInvInit, KeptInvStep, PTL DEF Spec
=============================================================================
