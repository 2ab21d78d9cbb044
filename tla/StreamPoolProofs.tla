-------------------------- MODULE StreamPoolProofs --------------------------
(***************************************************************************)
(* Theorems about StreamPool, for every number of lanes, every depth and   *)
(* every call under each of the three policies.                            *)
(***************************************************************************)
EXTENDS StreamPool, SequenceTheorems, FiniteSetTheorems, TLAPS

(* The elements of a lane taken by the merge, and the flags read of it.    *)
Ending(i) == IF unit[i].ended THEN 1 ELSE 0
Taken(i) == unit[i].elements - Len(data[i])
FlagsRead(i) == unit[i].flags + Ending(i) - Len(flag[i])

(* A unit writes flag after element, and its end flag last.                *)
UnitInStep(i) ==
    /\ unit[i].flags <= unit[i].elements
    /\ unit[i].elements <= unit[i].flags + 1
    /\ held[i] = <<End>> => unit[i].flags = unit[i].elements
    /\ unit[i].ended => held[i] = <<End>>

(* Only the last flag of an ended unit is TRUE, and it stays in the FIFO   *)
(* until its lane counts as ended.                                         *)
EndFlagLast(i) ==
    /\ \A k \in 1..Len(flag[i]) : flag[i][k] <=> (unit[i].ended /\ k = Len(flag[i]))
    /\ unit[i].ended /\ i \notin mg.ends => Len(flag[i]) > 0
    /\ i \in mg.ends => unit[i].ended /\ Len(flag[i]) = 0 /\ Len(data[i]) = 0

(* The merge reads one flag more than it takes elements; between an        *)
(* element and its flag it is not ahead.                                   *)
OneAhead(i) ==
    /\ Len(data[i]) <= unit[i].elements
    /\ FlagsRead(i) <= Taken(i) + 1
    /\ mg.pc = "flag" /\ mg.id = i /\ i \notin mg.ends => FlagsRead(i) <= Taken(i)
    /\ i \notin mg.asked => FlagsRead(i) = 0

LaneInv(i) == UnitInStep(i) /\ EndFlagLast(i) /\ OneAhead(i)

AllAsked == mg.pc # "first" => mg.asked = Lanes

Inv == TypeOK /\ AllAsked /\ \A i \in Lanes : LaneInv(i)

-----------------------------------------------------------------------------
(* Facts about sequences and lanes that the steps share.                   *)

LEMMA LanesFacts ==
    /\ NStrm \in Nat /\ NStrm > 0 /\ 0 \in Lanes
    /\ \A i \in Lanes : i \in Nat /\ NextLane(i) \in Lanes
BY PoolAssumption DEF PoolAssumption, Lanes, NextLane

LEMMA AppendFacts ==
    ASSUME NEW S, NEW s \in Seq(S), NEW e \in S
    PROVE  /\ Append(s, e) \in Seq(S)
           /\ Len(Append(s, e)) = Len(s) + 1
           /\ Append(s, e)[Len(s) + 1] = e
           /\ \A k \in 1..Len(s) : Append(s, e)[k] = s[k]
OBVIOUS

LEMMA AppendFlag ==
    ASSUME NEW s \in Seq(BOOLEAN)
    PROVE  /\ Append(s, FALSE) \in Seq(BOOLEAN)
           /\ Append(s, TRUE) \in Seq(BOOLEAN)
<1>1. \A b \in BOOLEAN : Append(s, b) \in Seq(BOOLEAN)
  BY AppendFacts
<1>2. FALSE \in BOOLEAN /\ TRUE \in BOOLEAN
  OBVIOUS
<1> QED
  BY <1>1, <1>2, Zenon

LEMMA AppendFlagPlaces ==
    ASSUME NEW s \in Seq(BOOLEAN), NEW b \in BOOLEAN
    PROVE  /\ Len(Append(s, b)) = Len(s) + 1
           /\ \A k \in 1..Len(s) : Append(s, b)[k] = s[k]
           /\ Append(s, b)[Len(s) + 1] = b
BY AppendFacts

LEMMA TailFacts ==
    ASSUME NEW S, NEW s \in Seq(S), s # << >>
    PROVE  /\ Tail(s) \in Seq(S) /\ Head(s) \in S /\ Head(s) = s[1]
           /\ Len(s) > 0 /\ Len(Tail(s)) = Len(s) - 1
           /\ \A k \in 1..Len(Tail(s)) : Tail(s)[k] = s[k + 1]
OBVIOUS

(* The dealing side only names lanes that exist. *)
LEMMA TargetIsLane ==
    ASSUME TypeOK, sc.sent < ToDeal
    PROVE  Target \in Lanes
<1>1. call.tags \in Seq(Lanes)
  BY PoolAssumption DEF PoolAssumption, TypeOK
<1>2. sc.sent \in Nat /\ sc.id \in Lanes
  BY DEF TypeOK
<1> QED
  BY <1>1, <1>2 DEF Target, ToDeal

(* So does the merging side. *)
LEMMA SourceIsLane ==
    ASSUME TypeOK, MoreToMerge
    PROVE  Source \in Lanes
<1>1. call.tags \in Seq(Lanes) /\ call.picks \in Nat /\ call.picks <= Len(call.tags)
  BY PoolAssumption DEF PoolAssumption, TypeOK
<1>2. Len(out) \in Nat /\ mg.id \in Lanes
  BY DEF TypeOK
<1>3. Policy = "tag" => Len(out) + 1 \in 1..Len(call.tags)
  BY <1>1, <1>2 DEF MoreToMerge, Merged
<1> QED
  BY <1>1, <1>2, <1>3 DEF Source, Merged

-----------------------------------------------------------------------------
(* Type correctness *)

LEMMA TypeInit == Init => TypeOK
BY LanesFacts, PoolAssumption DEF PoolAssumption, Init, TypeOK

LEMMA DealingTypeOK ==
    ASSUME TypeOK, Dealing
    PROVE  TypeOK'
<1>0. sc.sent \in Nat /\ sc.id \in Lanes /\ call.n \in Nat
  BY PoolAssumption DEF PoolAssumption, TypeOK
<1>1. NextLane(sc.id) \in Lanes /\ 0 \in Lanes /\ End \in Nat
  BY <1>0, LanesFacts DEF End
<1>2. CASE Deal
  <2>1. Target \in Lanes
    BY <1>2, TargetIsLane DEF Deal
  <2>5. lane[Target] \in Seq(Nat)
    BY <2>1 DEF TypeOK
  <2>6. sc.sent + 1 \in Nat
    BY <1>0
  <2>2. Append(lane[Target], sc.sent + 1) \in Seq(Nat)
    BY <2>5, <2>6, AppendFacts
  <2>3. lane' \in [Lanes -> Seq(Nat)]
    BY <1>2, <2>2 DEF Deal, TypeOK
  <2>4. sc' \in [pc : {"deal", "end", "done"}, sent : Nat, id : Lanes]
    BY <1>2, <2>6, <1>1 DEF Deal, TypeOK
  <2> QED
    BY <1>2, <2>3, <2>4 DEF Deal, TypeOK
<1>3. CASE PassOver
  BY <1>3, <1>0, <1>1 DEF PassOver, TypeOK
<1>4. CASE EndInput
  <2>1. sc' \in [pc : {"deal", "end", "done"}, sent : Nat, id : Lanes]
    BY <1>4, <1>0, <1>1 DEF EndInput
  <2> QED
    BY <1>4, <2>1 DEF EndInput, TypeOK
<1>5. CASE EndLane
  <2>1. sc.id # NStrm - 1 => sc.id + 1 \in Lanes
    BY <1>0, LanesFacts DEF Lanes
  <2>2. Append(lane[sc.id], End) \in Seq(Nat)
    BY <1>0, <1>1, AppendFacts DEF TypeOK
  <2>3. lane' \in [Lanes -> Seq(Nat)]
    BY <1>5, <2>2 DEF EndLane, TypeOK
  <2>4. sc' \in [pc : {"deal", "end", "done"}, sent : Nat, id : Lanes]
    BY <1>5, <1>0, <2>1 DEF EndLane, TypeOK
  <2> QED
    BY <1>5, <2>3, <2>4 DEF EndLane, TypeOK
<1> QED
  BY <1>2, <1>3, <1>4, <1>5 DEF Dealing

LEMMA UnitTypeOK ==
    ASSUME TypeOK, NEW i \in Lanes, Unit(i)
    PROVE  TypeOK'
<1>0. /\ lane[i] \in Seq(Nat) /\ held[i] \in Seq(Nat)
      /\ data[i] \in Seq(Nat) /\ flag[i] \in Seq(BOOLEAN)
      /\ unit[i].elements \in Nat /\ unit[i].flags \in Nat
  BY DEF TypeOK
<1>1. CASE UnitRead(i)
  <2>1. Tail(lane[i]) \in Seq(Nat) /\ <<Head(lane[i])>> \in Seq(Nat)
    BY <1>0, <1>1, TailFacts DEF UnitRead
  <2> QED
    BY <1>1, <2>1 DEF UnitRead, TypeOK
<1>2. CASE UnitWrite(i)
  <2>1. held[i] # << >>
    BY <1>2 DEF UnitWrite
  <2>2. Append(data[i], held[i][1]) \in Seq(Nat)
    BY <1>0, <2>1, TailFacts, AppendFacts
  <2>3. << >> \in Seq(Nat)
    OBVIOUS
  <2>4. data' \in [Lanes -> Seq(Nat)] /\ held' \in [Lanes -> Seq(Nat)]
    BY <1>2, <2>2, <2>3 DEF UnitWrite, TypeOK
  <2>5. unit[i].elements + 1 \in Nat
    BY <1>0
  <2>6. unit' \in [Lanes -> [elements : Nat, flags : Nat, ended : BOOLEAN]]
    BY <1>2, <2>5 DEF UnitWrite, TypeOK
  <2> QED
    BY <1>2, <2>4, <2>6 DEF UnitWrite, TypeOK
<1>3. CASE UnitFlag(i)
  <2>1. Append(flag[i], FALSE) \in Seq(BOOLEAN)
    BY <1>0, AppendFlag, Zenon
  <2>2. flag' \in [Lanes -> Seq(BOOLEAN)]
    BY <1>3, <2>1 DEF UnitFlag, TypeOK
  <2>4. unit[i].flags + 1 \in Nat
    BY <1>0
  <2>3. unit' \in [Lanes -> [elements : Nat, flags : Nat, ended : BOOLEAN]]
    BY <1>3, <2>4 DEF UnitFlag, TypeOK
  <2> QED
    BY <1>3, <2>2, <2>3 DEF UnitFlag, TypeOK
<1>4. CASE UnitEnd(i)
  <2>1. Append(flag[i], TRUE) \in Seq(BOOLEAN)
    BY <1>0, AppendFlag, Zenon
  <2>2. flag' \in [Lanes -> Seq(BOOLEAN)]
    BY <1>4, <2>1 DEF UnitEnd, TypeOK
  <2>3. unit' \in [Lanes -> [elements : Nat, flags : Nat, ended : BOOLEAN]]
    BY <1>4 DEF UnitEnd, TypeOK
  <2> QED
    BY <1>4, <2>2, <2>3 DEF UnitEnd, TypeOK
<1> QED
  BY <1>1, <1>2, <1>3, <1>4 DEF Unit

LEMMA EndsWithType ==
    ASSUME TypeOK, NEW i \in Lanes
    PROVE  EndsWith(i) \in SUBSET Lanes
BY DEF EndsWith, TypeOK

LEMMA MergingTypeOK ==
    ASSUME TypeOK, Merging
    PROVE  TypeOK'
<1> USE LanesFacts
<1>0. mg.id \in Lanes /\ mg.ends \in SUBSET Lanes /\ NextLane(mg.id) \in Lanes
  BY DEF TypeOK
<1>1. ASSUME NEW i \in Lanes, FirstFlag(i) PROVE TypeOK'
  <2>1. Tail(flag[i]) \in Seq(BOOLEAN)
    BY <1>1, TailFacts DEF FirstFlag, TypeOK
  <2> QED
    BY <1>1, <2>1, EndsWithType DEF FirstFlag, TypeOK
<1>2. ASSUME NEW i \in Lanes, Drop(i) PROVE TypeOK'
  <2>1. Tail(flag[i]) \in Seq(BOOLEAN) /\ Tail(data[i]) \in Seq(Nat)
    BY <1>2, TailFacts DEF Drop, TypeOK
  <2> QED
    BY <1>2, <2>1, EndsWithType DEF Drop, TypeOK
<1>3. CASE TakeElement
  <2>1. Source \in Lanes
    BY <1>3, SourceIsLane DEF TakeElement
  <2>2. Tail(data[Source]) \in Seq(Nat) /\ Append(out, Head(data[Source])) \in Seq(Nat)
    BY <1>3, <2>1, TailFacts, AppendFacts DEF TakeElement, TypeOK
  <2> QED
    BY <1>3, <2>1, <2>2 DEF TakeElement, TypeOK
<1>4. CASE NoElement
  BY <1>4 DEF NoElement, TypeOK
<1>5. CASE TakeFlag
  <2>1. Tail(flag[mg.id]) \in Seq(BOOLEAN)
    BY <1>0, <1>5, TailFacts DEF TakeFlag, TypeOK
  <2> QED
    BY <1>0, <1>5, <2>1, EndsWithType DEF TakeFlag, AfterFlag, TypeOK
<1>6. CASE NoFlag
  BY <1>0, <1>6 DEF NoFlag, AfterFlag, TypeOK
<1>7. CASE EndMerge
  BY <1>7 DEF EndMerge, TypeOK
<1> QED
  BY <1>1, <1>2, <1>3, <1>4, <1>5, <1>6, <1>7 DEF Merging

LEMMA TypeStep == TypeOK /\ [Next]_vars => TypeOK'
<1> SUFFICES ASSUME TypeOK, [Next]_vars PROVE TypeOK'
  OBVIOUS
<1>1. CASE UNCHANGED vars
  BY <1>1 DEF vars, TypeOK
<1> QED
  BY <1>1, DealingTypeOK, UnitTypeOK, MergingTypeOK DEF Next, Finished

(* The pool is type correct; in particular neither side ever names a lane  *)
(* that does not exist, with any tags.                                     *)
THEOREM TypeCorrect == Spec => []TypeOK
BY TypeInit, TypeStep, PTL DEF Spec

-----------------------------------------------------------------------------
(* No end flag overtakes an element                                        *)

LEMMA InvInit == Init => Inv
<1> SUFFICES ASSUME Init PROVE Inv
  OBVIOUS
<1>1. TypeOK
  BY TypeInit
<1>2. AllAsked
  BY DEF Init, AllAsked
<1>3. ASSUME NEW i \in Lanes PROVE LaneInv(i)
  <2>1. /\ held[i] = << >> /\ data[i] = << >> /\ flag[i] = << >>
        /\ unit[i].elements = 0 /\ unit[i].flags = 0 /\ ~unit[i].ended
        /\ mg.ends = {} /\ mg.pc = "first"
    BY DEF Init
  <2>2. Ending(i) = 0 /\ Len(data[i]) = 0 /\ Len(flag[i]) = 0
    BY <2>1 DEF Ending
  <2>3. UnitInStep(i)
    BY <2>1 DEF UnitInStep
  <2>4. EndFlagLast(i)
    BY <2>1, <2>2 DEF EndFlagLast
  <2>6. unit[i].elements = 0 /\ unit[i].flags = 0
    BY <2>1
  <2>7. FlagsRead(i) = 0 /\ Taken(i) = 0
    BY <2>2, <2>6 DEF FlagsRead, Taken
  <2>5. OneAhead(i)
    BY <2>1, <2>2, <2>7 DEF OneAhead
  <2> QED
    BY <2>3, <2>4, <2>5 DEF LaneInv
<1> QED
  BY <1>1, <1>2, <1>3 DEF Inv

(* What the invariant of a lane speaks about, with its types.              *)
LEMMA LaneTypes ==
    ASSUME TypeOK, NEW i \in Lanes
    PROVE  /\ held[i] \in Seq(Nat) /\ data[i] \in Seq(Nat) /\ flag[i] \in Seq(BOOLEAN)
           /\ unit[i].elements \in Nat /\ unit[i].flags \in Nat
           /\ unit[i].ended \in BOOLEAN
           /\ Len(data[i]) \in Nat /\ Len(flag[i]) \in Nat /\ Ending(i) \in {0, 1}
<1>1. /\ held[i] \in Seq(Nat) /\ data[i] \in Seq(Nat) /\ flag[i] \in Seq(BOOLEAN)
      /\ unit[i].elements \in Nat /\ unit[i].flags \in Nat
      /\ unit[i].ended \in BOOLEAN
  BY DEF TypeOK
<1>2. Len(data[i]) \in Nat /\ Len(flag[i]) \in Nat
  BY <1>1
<1>3. Ending(i) \in {0, 1}
  BY DEF Ending
<1> QED
  BY <1>1, <1>2, <1>3

(* A lane that nothing of its own has changed keeps its invariant, unless  *)
(* the merge turns to the flag of it.                                      *)
LEMMA LaneKept ==
    ASSUME TypeOK, NEW i \in Lanes, LaneInv(i),
           held'[i] = held[i], unit'[i] = unit[i], data'[i] = data[i], flag'[i] = flag[i],
           i \in mg'.ends <=> i \in mg.ends,
           i \in mg.asked => i \in mg'.asked,
           mg'.pc = "flag" /\ mg'.id = i /\ i \notin mg.ends => FlagsRead(i) <= Taken(i)
    PROVE  LaneInv(i)'
<1>1. UnitInStep(i)'
  BY DEF LaneInv, UnitInStep
<1>2. EndFlagLast(i)'
  BY DEF LaneInv, EndFlagLast
<1>3. FlagsRead(i)' = FlagsRead(i) /\ Taken(i)' = Taken(i)
  BY DEF FlagsRead, Taken, Ending
<1>4. OneAhead(i)'
  BY <1>3 DEF LaneInv, OneAhead
<1> QED
  BY <1>1, <1>2, <1>4 DEF LaneInv

LEMMA UnitKeepsLane ==
    ASSUME TypeOK, NEW i \in Lanes, LaneInv(i), Unit(i)
    PROVE  LaneInv(i)'
<1>0. mg' = mg
  BY DEF Unit, UnitRead, UnitWrite, UnitFlag, UnitEnd
<1>a. /\ held[i] \in Seq(Nat) /\ data[i] \in Seq(Nat) /\ flag[i] \in Seq(BOOLEAN)
      /\ unit[i].elements \in Nat /\ unit[i].flags \in Nat
      /\ Len(data[i]) \in Nat /\ Len(flag[i]) \in Nat /\ Ending(i) \in {0, 1}
  BY LaneTypes
<1>1. CASE UnitRead(i)
  <2>1. /\ held[i] = << >> /\ unit[i].flags = unit[i].elements
        /\ unit' = unit /\ data' = data /\ flag' = flag
    BY <1>1 DEF UnitRead
  <2>2. ~unit[i].ended
    BY <1>a, <2>1 DEF LaneInv, UnitInStep, End
  <2>3. UnitInStep(i)'
    BY <1>a, <2>1, <2>2 DEF LaneInv, UnitInStep
  <2>4. EndFlagLast(i)'
    BY <1>0, <1>a, <2>1 DEF LaneInv, EndFlagLast
  <2>5. OneAhead(i)'
    BY <1>0, <1>a, <2>1 DEF LaneInv, OneAhead, FlagsRead, Taken, Ending
  <2> QED
    BY <2>3, <2>4, <2>5 DEF LaneInv
<1>2. CASE UnitWrite(i)
  <2>1. /\ held[i] # <<End>> /\ ~FlagDue(i) /\ flag' = flag /\ held'[i] = << >>
        /\ data'[i] = Append(data[i], held[i][1]) /\ held[i] # << >>
    BY <1>2 DEF UnitWrite, TypeOK
  <2>b. unit'[i].elements = unit[i].elements + 1 /\ unit'[i].flags = unit[i].flags
    BY <1>2 DEF UnitWrite, TypeOK
  <2>2. unit'[i].ended = unit[i].ended
    BY <1>2 DEF UnitWrite, TypeOK
  <2>3. held[i][1] \in Nat
    BY <1>a, <2>1, TailFacts
  <2>4. Len(data'[i]) = Len(data[i]) + 1
    BY <1>a, <2>1, <2>3, AppendFacts
  <2>5. ~unit[i].ended /\ i \notin mg.ends
    BY <1>a, <2>1 DEF LaneInv, UnitInStep, EndFlagLast
  <2>6. unit[i].flags = unit[i].elements
    BY <1>a, <2>1, SMTT(30) DEF LaneInv, UnitInStep, FlagDue
  <2>7. UnitInStep(i)'
    BY <1>a, <2>1, <2>b, <2>2, <2>5, <2>6 DEF UnitInStep
  <2>8. EndFlagLast(i)'
    BY <1>0, <1>a, <2>1, <2>2, <2>5 DEF LaneInv, EndFlagLast
  <2>a. Ending(i)' = Ending(i) /\ Len(flag'[i]) = Len(flag[i])
    BY <2>1, <2>2 DEF Ending
  <2>e. \A m, n \in Nat : (m + 1) - (n + 1) = m - n
    OBVIOUS
  <2>c. Taken(i)' = Taken(i)
    BY <1>a, <2>b, <2>4, <2>e DEF Taken
  <2>d. FlagsRead(i)' = FlagsRead(i)
    BY <1>a, <2>a, <2>b DEF FlagsRead
  <2>9. Taken(i)' = Taken(i) /\ FlagsRead(i)' = FlagsRead(i)
    BY <2>c, <2>d
  <2>10. OneAhead(i)'
    BY <1>0, <1>a, <2>b, <2>4, <2>9 DEF LaneInv, OneAhead
  <2> QED
    BY <2>7, <2>8, <2>10 DEF LaneInv
<1>3. CASE UnitFlag(i)
  <2>1. /\ FlagDue(i) /\ data' = data /\ held' = held
        /\ flag'[i] = Append(flag[i], FALSE)
    BY <1>3 DEF UnitFlag, TypeOK
  <2>d. unit'[i].flags = unit[i].flags + 1 /\ unit'[i].elements = unit[i].elements
    BY <1>3 DEF UnitFlag, TypeOK
  <2>2. unit'[i].ended = unit[i].ended
    BY <1>3 DEF UnitFlag, TypeOK
  <2>3. /\ Len(flag'[i]) = Len(flag[i]) + 1 /\ ~flag'[i][Len(flag[i]) + 1]
        /\ \A k \in 1..Len(flag[i]) : flag'[i][k] = flag[i][k]
    <3>1. PICK b \in BOOLEAN : b = FALSE /\ flag'[i] = Append(flag[i], b)
      BY <2>1
    <3>2. /\ Len(flag'[i]) = Len(flag[i]) + 1 /\ flag'[i][Len(flag[i]) + 1] = b
          /\ \A k \in 1..Len(flag[i]) : flag'[i][k] = flag[i][k]
      BY <1>a, <3>1, AppendFlagPlaces
    <3> QED
      BY <3>1, <3>2
  <2>4. ~unit[i].ended /\ i \notin mg.ends /\ held[i] # <<End>>
    BY <1>a, <2>1, SMTT(30) DEF LaneInv, UnitInStep, EndFlagLast, FlagDue
  <2>5. UnitInStep(i)'
    BY <1>a, <2>1, <2>d, <2>2, <2>4, SMTT(30) DEF LaneInv, UnitInStep, FlagDue
  <2>f. \A k \in 1..Len(flag[i]) : ~flag[i][k]
    BY <2>4 DEF LaneInv, EndFlagLast
  <2>g. ASSUME NEW k \in 1..Len(flag'[i]) PROVE ~flag'[i][k]
    <3>1. k \in 1..Len(flag[i]) \/ k = Len(flag[i]) + 1
      BY <1>a, <2>3
    <3> QED
      BY <3>1, <2>3, <2>f
  <2>6. EndFlagLast(i)'
    BY <1>0, <2>2, <2>4, <2>g DEF EndFlagLast
  <2>a. Ending(i)' = Ending(i) /\ Len(data'[i]) = Len(data[i])
    BY <2>1, <2>2 DEF Ending
  <2>e. Len(flag'[i]) = Len(flag[i]) + 1
    BY <2>3
  <2>h. Len(flag[i]) \in Nat /\ unit[i].flags \in Nat /\ Ending(i) \in {0, 1}
    BY <1>a
  <2>i. Taken(i)' = Taken(i)
    BY <2>a, <2>d DEF Taken
  <2>j. FlagsRead(i)' = FlagsRead(i)
    <3>1. \A f, n \in Nat : \A e \in {0, 1} : (f + 1) + e - (n + 1) = f + e - n
      OBVIOUS
    <3>2. FlagsRead(i)' = (unit[i].flags + 1) + Ending(i) - (Len(flag[i]) + 1)
      BY <2>a, <2>d, <2>e DEF FlagsRead
    <3> QED
      BY <2>h, <3>1, <3>2 DEF FlagsRead
  <2>7. Taken(i)' = Taken(i) /\ FlagsRead(i)' = FlagsRead(i)
    BY <2>i, <2>j
  <2>8. OneAhead(i)'
    BY <1>0, <1>a, <2>1, <2>d, <2>7 DEF LaneInv, OneAhead
  <2> QED
    BY <2>5, <2>6, <2>8 DEF LaneInv
<1>4. CASE UnitEnd(i)
  <2>1. /\ held[i] = <<End>> /\ ~unit[i].ended /\ data' = data /\ held' = held
        /\ flag'[i] = Append(flag[i], TRUE)
    BY <1>4 DEF UnitEnd, TypeOK
  <2>2. /\ unit'[i].flags = unit[i].flags
        /\ unit'[i].elements = unit[i].elements /\ unit'[i].ended
    BY <1>4 DEF UnitEnd, TypeOK
  <2>3. /\ Len(flag'[i]) = Len(flag[i]) + 1 /\ flag'[i][Len(flag[i]) + 1] = TRUE
        /\ \A k \in 1..Len(flag[i]) : flag'[i][k] = flag[i][k]
    BY <1>a, <2>1, AppendFlagPlaces, ZenonT(30)
  <2>4. i \notin mg.ends
    BY <1>a, <2>1 DEF LaneInv, EndFlagLast
  <2>5. UnitInStep(i)'
    BY <1>a, <2>1, <2>2 DEF LaneInv, UnitInStep
  <2>6. EndFlagLast(i)'
    BY <1>0, <1>a, <2>1, <2>2, <2>3, <2>4 DEF LaneInv, EndFlagLast
  <2>7. Taken(i)' = Taken(i) /\ FlagsRead(i)' = FlagsRead(i)
    BY <1>a, <2>1, <2>2, <2>3 DEF Taken, FlagsRead, Ending
  <2>8. OneAhead(i)'
    BY <1>0, <1>a, <2>1, <2>2, <2>7 DEF LaneInv, OneAhead
  <2> QED
    BY <2>5, <2>6, <2>8 DEF LaneInv
<1> QED
  BY <1>1, <1>2, <1>3, <1>4 DEF Unit

(* The flag that is read next is the end flag. *)
EndFlagNext(i) == Head(flag[i])

(* Reading a flag of a lane, where afterwards no more flags are read than  *)
(* elements taken, and one: the end flag then is behind the last element.  *)
LEMMA FlagReadKeepsLane ==
    ASSUME TypeOK, NEW i \in Lanes, LaneInv(i), i \notin mg.ends, flag[i] # << >>,
           held'[i] = held[i], unit'[i] = unit[i], flag'[i] = Tail(flag[i]),
           Len(data'[i]) \in Nat, Len(data'[i]) <= Len(data[i]),
           FlagsRead(i) <= unit[i].elements - Len(data'[i]),
           i \in mg'.ends <=> EndFlagNext(i),
           mg'.pc # "flag", i \in mg'.asked
    PROVE  LaneInv(i)'
<1>1. /\ unit[i].elements \in Nat /\ unit[i].flags \in Nat /\ Ending(i) \in {0, 1}
      /\ Len(data[i]) \in Nat /\ Len(flag[i]) \in Nat
  BY LaneTypes
<1>2. Len(flag[i]) > 0 /\ Len(flag'[i]) = Len(flag[i]) - 1
  BY LaneTypes, TailFacts
<1>3. \A k \in 1..Len(flag'[i]) : flag'[i][k] = flag[i][k + 1]
  BY LaneTypes, TailFacts
<1>4. EndFlagNext(i) <=> (unit[i].ended /\ Len(flag[i]) = 1)
  <2>1. 1 \in 1..Len(flag[i])
    BY <1>1, <1>2
  <2>2. flag[i][1] <=> (unit[i].ended /\ 1 = Len(flag[i]))
    BY <2>1 DEF LaneInv, EndFlagLast
  <2>3. EndFlagNext(i) = flag[i][1]
    BY LaneTypes, TailFacts DEF EndFlagNext
  <2> QED
    BY <2>2, <2>3
<1>5. ASSUME EndFlagNext(i) PROVE unit[i].ended /\ Len(flag'[i]) = 0 /\ Len(data'[i]) = 0
  <2>1. unit[i].ended /\ Len(flag[i]) = 1 /\ unit[i].flags = unit[i].elements
    BY <1>4, <1>5 DEF LaneInv, UnitInStep
  <2>2. Ending(i) = 1
    BY <2>1 DEF Ending
  <2>3. FlagsRead(i) = unit[i].elements
    BY <1>1, <2>1, <2>2 DEF FlagsRead
  <2> QED
    BY <1>1, <1>2, <2>1, <2>3
<1>6. EndFlagLast(i)'
  <2>1. ASSUME NEW k \in 1..Len(flag'[i])
        PROVE  flag'[i][k] <=> (unit[i].ended /\ k = Len(flag'[i]))
    <3>1. k + 1 \in 1..Len(flag[i]) /\ (k + 1 = Len(flag[i]) <=> k = Len(flag'[i]))
      BY <1>1, <1>2
    <3>2. flag[i][k + 1] <=> (unit[i].ended /\ k + 1 = Len(flag[i]))
      BY <3>1 DEF LaneInv, EndFlagLast
    <3> QED
      BY <1>3, <3>1, <3>2
  <2>2. unit[i].ended /\ i \notin mg'.ends => Len(flag'[i]) > 0
    <3>1. unit[i].ended /\ i \notin mg'.ends => Len(flag[i]) # 1
      BY <1>4
    <3>2. Len(flag[i]) # 1 => Len(flag'[i]) > 0
      <4>1. Len(flag[i]) \in Nat /\ Len(flag[i]) > 0 /\ Len(flag'[i]) = Len(flag[i]) - 1
        BY <1>1, <1>2
      <4>2. \A m \in Nat : m > 0 /\ m # 1 => m - 1 > 0
        OBVIOUS
      <4> QED
        BY <4>1, <4>2
    <3> QED
      BY <3>1, <3>2
  <2> QED
    BY <1>5, <2>1, <2>2 DEF EndFlagLast
<1>7. UnitInStep(i)'
  BY DEF LaneInv, UnitInStep
<1>8. OneAhead(i)'
  <2>1. Ending(i)' = Ending(i)
    BY DEF Ending
  <2>2. unit'[i].flags = unit[i].flags /\ unit'[i].elements = unit[i].elements
    OBVIOUS
  <2>3. FlagsRead(i)' = FlagsRead(i) + 1
    BY <1>1, <1>2, <2>1, <2>2, SMTT(30) DEF FlagsRead
  <2>4. Taken(i)' = unit[i].elements - Len(data'[i])
    BY <2>2 DEF Taken
  <2>5. FlagsRead(i) \in Int /\ unit[i].elements - Len(data'[i]) \in Int
    BY <1>1 DEF FlagsRead
  <2>6. FlagsRead(i)' <= Taken(i)' + 1
    BY <2>3, <2>4, <2>5
  <2>7. Len(data'[i]) <= unit'[i].elements
    BY <1>1, <2>2 DEF LaneInv, OneAhead
  <2> QED
    BY <2>6, <2>7 DEF OneAhead
<1> QED
  BY <1>6, <1>7, <1>8 DEF LaneInv

LEMMA OtherLanesEnd ==
    ASSUME NEW i, NEW j, i # j
    PROVE  i \in EndsWith(j) <=> i \in mg.ends
<1>1. EndsWith(j) \in {mg.ends, mg.ends \cup {j}}
  BY DEF EndsWith
<1> QED
  BY <1>1

LEMMA FirstFlagKeeps ==
    ASSUME Inv, NEW j \in Lanes, FirstFlag(j), NEW i \in Lanes
    PROVE  LaneInv(i)'
<1>1. /\ TypeOK /\ LaneInv(i) /\ mg.pc = "first" /\ j \notin mg.asked /\ flag[j] # << >>
      /\ flag' = [flag EXCEPT ![j] = Tail(@)] /\ data' = data /\ held' = held /\ unit' = unit
  BY DEF Inv, FirstFlag
<1>2. mg'.ends = EndsWith(j) /\ mg'.asked = mg.asked \cup {j} /\ mg'.pc # "flag"
  BY DEF FirstFlag, Inv, TypeOK
<1>3. CASE i = j
  <2>1. i \notin mg.ends /\ Len(data[i]) \in Nat /\ unit[i].elements \in Nat
        /\ unit[i].flags \in Nat /\ Ending(i) \in {0, 1} /\ Len(flag[i]) > 0
    <3>1. FlagsRead(i) = 0
      BY <1>1, <1>3 DEF LaneInv, OneAhead
    <3>2. i \in mg.ends => Len(flag[i]) = 0 
      BY <1>1 DEF LaneInv, EndFlagLast
    <3> QED
      BY <1>1, <1>3, <3>1, <3>2, LaneTypes, TailFacts
  <2>2. FlagsRead(i) = 0 /\ Len(data[i]) <= unit[i].elements
    BY <1>1, <1>3 DEF LaneInv, OneAhead
  <2>3. flag'[i] = Tail(flag[i]) /\ (i \in mg'.ends <=> EndFlagNext(i))
    BY <1>1, <1>2, <1>3, <2>1 DEF EndsWith, EndFlagNext, TypeOK
  <2> QED
    BY <1>1, <1>2, <1>3, <2>1, <2>2, <2>3, FlagReadKeepsLane
<1>4. CASE i # j
  <2>1. flag'[i] = flag[i]
    BY <1>1, <1>4 DEF TypeOK
  <2>2. i \in mg'.ends <=> i \in mg.ends
    BY <1>2, <1>4, OtherLanesEnd
  <2> QED
    BY <1>1, <1>2, <2>1, <2>2, LaneKept
<1> QED
  BY <1>3, <1>4

LEMMA TakeFlagKeeps ==
    ASSUME Inv, TakeFlag, NEW i \in Lanes
    PROVE  LaneInv(i)'
<1> DEFINE j == mg.id
<1>1. /\ TypeOK /\ LaneInv(i) /\ mg.pc = "flag" /\ j \notin mg.ends /\ flag[j] # << >>
      /\ flag' = [flag EXCEPT ![j] = Tail(@)] /\ data' = data /\ held' = held /\ unit' = unit
      /\ i \in mg.asked
  BY DEF Inv, TakeFlag, AllAsked
<1>2. mg'.ends = EndsWith(j) /\ mg'.asked = mg.asked /\ mg'.pc = "element" /\ j \in Lanes
  BY DEF TakeFlag, AfterFlag, Inv, TypeOK
<1>3. CASE i = j
  <2>1. Len(data[i]) \in Nat
    BY <1>1, LaneTypes
  <2>2. FlagsRead(i) <= unit[i].elements - Len(data[i])
    BY <1>1, <1>3 DEF LaneInv, OneAhead, Taken
  <2>3. flag'[i] = Tail(flag[i]) /\ (i \in mg'.ends <=> EndFlagNext(i))
    BY <1>1, <1>2, <1>3 DEF EndsWith, EndFlagNext, TypeOK
  <2> QED
    BY <1>1, <1>2, <1>3, <2>1, <2>2, <2>3, FlagReadKeepsLane
<1>4. CASE i # j
  <2>1. flag'[i] = flag[i]
    BY <1>1, <1>4 DEF TypeOK
  <2>2. i \in mg'.ends <=> i \in mg.ends
    BY <1>2, <1>4, OtherLanesEnd
  <2> QED
    BY <1>1, <1>2, <2>1, <2>2, LaneKept
<1> QED
  BY <1>3, <1>4

LEMMA DropKeeps ==
    ASSUME Inv, NEW j \in Lanes, Drop(j), NEW i \in Lanes
    PROVE  LaneInv(i)'
<1>1. /\ TypeOK /\ LaneInv(i) /\ mg.pc = "element" /\ j \notin mg.ends
      /\ flag[j] # << >> /\ data[j] # << >>
      /\ flag' = [flag EXCEPT ![j] = Tail(@)] /\ data' = [data EXCEPT ![j] = Tail(@)]
      /\ held' = held /\ unit' = unit /\ i \in mg.asked
  BY DEF Inv, Drop, AllAsked
<1>2. mg'.ends = EndsWith(j) /\ mg'.asked = mg.asked /\ mg'.pc = "element"
  BY DEF Drop, Inv, TypeOK
<1>3. CASE i = j
  <2>1. /\ Len(data'[i]) = Len(data[i]) - 1 /\ Len(data[i]) > 0 /\ Len(data[i]) \in Nat
        /\ unit[i].elements \in Nat /\ unit[i].flags \in Nat /\ Ending(i) \in {0, 1}
        /\ Len(flag[i]) \in Nat
    BY <1>1, <1>3, LaneTypes, TailFacts DEF TypeOK
  <2>2. FlagsRead(i) <= unit[i].elements - Len(data'[i])
    BY <1>1, <2>1 DEF LaneInv, OneAhead, Taken, FlagsRead
  <2>3. flag'[i] = Tail(flag[i]) /\ (i \in mg'.ends <=> EndFlagNext(i))
    BY <1>1, <1>2, <1>3 DEF EndsWith, EndFlagNext, TypeOK
  <2>4. Len(data'[i]) \in Nat /\ Len(data'[i]) <= Len(data[i])
    BY <2>1
  <2> QED
    BY <1>1, <1>2, <1>3, <2>2, <2>3, <2>4, FlagReadKeepsLane
<1>4. CASE i # j
  <2>1. flag'[i] = flag[i] /\ data'[i] = data[i]
    BY <1>1, <1>4 DEF TypeOK
  <2>2. i \in mg'.ends <=> i \in mg.ends
    BY <1>2, <1>4, OtherLanesEnd
  <2> QED
    BY <1>1, <1>2, <2>1, <2>2, LaneKept
<1> QED
  BY <1>3, <1>4

LEMMA TakeElementKeeps ==
    ASSUME Inv, TakeElement, NEW i \in Lanes
    PROVE  LaneInv(i)'
<1> DEFINE j == Source
<1>1. /\ TypeOK /\ LaneInv(i) /\ mg.pc = "element" /\ j \notin mg.ends /\ data[j] # << >>
      /\ data' = [data EXCEPT ![j] = Tail(@)] /\ flag' = flag /\ held' = held /\ unit' = unit
      /\ i \in mg.asked
  BY DEF Inv, TakeElement, AllAsked
<1>2. mg'.ends = mg.ends /\ mg'.asked = mg.asked /\ mg'.pc = "flag" /\ mg'.id = j
  BY DEF TakeElement, Inv, TypeOK
<1>3. CASE i = j
  <2>1. /\ Len(data'[i]) = Len(data[i]) - 1 /\ Len(data[i]) > 0 /\ Len(data[i]) \in Nat
        /\ unit[i].elements \in Nat /\ unit[i].flags \in Nat /\ Ending(i) \in {0, 1}
        /\ Len(flag[i]) \in Nat
    BY <1>1, <1>3, LaneTypes, TailFacts DEF TypeOK
  <2>2. UnitInStep(i)'
    BY <1>1 DEF LaneInv, UnitInStep
  <2>3. EndFlagLast(i)'
    BY <1>1, <1>2, <1>3 DEF LaneInv, EndFlagLast
  <2>4. FlagsRead(i)' = FlagsRead(i)
    BY <1>1 DEF FlagsRead, Ending
  <2>5. Taken(i)' = Taken(i) + 1
    BY <1>1, <2>1 DEF Taken
  <2>6. Taken(i) \in Int /\ FlagsRead(i) \in Int
    BY <2>1 DEF Taken, FlagsRead
  <2>7. Len(data'[i]) <= unit'[i].elements
    BY <1>1, <2>1 DEF LaneInv, OneAhead
  <2>8. OneAhead(i)'
    BY <1>1, <1>2, <2>4, <2>5, <2>6, <2>7 DEF LaneInv, OneAhead
  <2> QED
    BY <2>2, <2>3, <2>8 DEF LaneInv
<1>4. CASE i # j
  <2>1. data'[i] = data[i]
    BY <1>1, <1>4 DEF TypeOK
  <2> QED
    BY <1>1, <1>2, <1>4, <2>1, LaneKept
<1> QED
  BY <1>3, <1>4

(* Passing a lane over that has no element: all flags it has written may   *)
(* have been read, but not its end flag.                                   *)
LEMMA NoElementKeeps ==
    ASSUME Inv, NoElement, NEW i \in Lanes
    PROVE  LaneInv(i)'
<1>1. /\ TypeOK /\ LaneInv(i)
      /\ mg.id \in mg.ends \/ data[mg.id] = << >>
      /\ data' = data /\ flag' = flag /\ held' = held /\ unit' = unit
  BY DEF Inv, NoElement
<1>2. mg'.ends = mg.ends /\ mg'.asked = mg.asked /\ mg'.pc = "flag" /\ mg'.id = mg.id
  BY DEF NoElement, Inv, TypeOK
<1>3. mg.id = i /\ i \notin mg.ends => FlagsRead(i) <= Taken(i)
  <2> SUFFICES ASSUME mg.id = i, i \notin mg.ends PROVE FlagsRead(i) <= Taken(i)
    OBVIOUS
  <2>1. /\ Len(data[i]) = 0 /\ unit[i].elements \in Nat /\ unit[i].flags \in Nat
        /\ Len(flag[i]) \in Nat
    BY <1>1, LaneTypes DEF Inv, NoElement
  <2>2. unit[i].flags <= unit[i].elements
    BY <1>1 DEF LaneInv, UnitInStep
  <2>3. Ending(i) <= Len(flag[i])
    <3>1. unit[i].ended => Len(flag[i]) > 0
      BY <1>1 DEF LaneInv, EndFlagLast
    <3> QED
      BY <2>1, <3>1 DEF Ending
  <2>4. Ending(i) \in {0, 1}
    BY LaneTypes, <1>1
  <2> QED
    BY <2>1, <2>2, <2>3, <2>4 DEF FlagsRead, Taken
<1> QED
  BY <1>1, <1>2, <1>3, LaneKept DEF Inv, NoElement

(* Everything the merge does keeps the invariant of every lane.            *)
LEMMA MergingKeeps ==
    ASSUME Inv, Merging, NEW i \in Lanes
    PROVE  LaneInv(i)'
<1>1. TypeOK /\ LaneInv(i)
  BY DEF Inv
<1>2. CASE NoFlag
  BY <1>1, <1>2, LaneKept DEF NoFlag, AfterFlag, TypeOK
<1>3. CASE EndMerge
  BY <1>1, <1>3, LaneKept DEF EndMerge, TypeOK
<1> QED
  BY <1>2, <1>3, FirstFlagKeeps, DropKeeps, TakeElementKeeps, TakeFlagKeeps, NoElementKeeps
     DEF Merging

LEMMA AllAskedStep ==
    ASSUME Inv, Next
    PROVE  AllAsked'
<1>1. TypeOK /\ AllAsked
  BY DEF Inv
<1>2. CASE mg' = mg
  BY <1>1, <1>2 DEF AllAsked
<1>3. CASE Merging
  <2>1. ASSUME NEW i \in Lanes, FirstFlag(i) PROVE AllAsked'
    BY <1>1, <2>1 DEF FirstFlag, TypeOK, AllAsked
  <2>2. ASSUME NEW i \in Lanes, Drop(i) PROVE AllAsked'
    BY <1>1, <2>2 DEF Drop, TypeOK, AllAsked
  <2> QED
    BY <1>1, <1>3, <2>1, <2>2
       DEF Merging, TakeElement, NoElement, TakeFlag, NoFlag, EndMerge, AfterFlag, TypeOK, AllAsked
<1> QED
  BY <1>2, <1>3 DEF Next, Finished, vars, Dealing, Deal, PassOver, EndInput, EndLane,
                    Unit, UnitRead, UnitWrite, UnitFlag, UnitEnd

LEMMA InvStep == Inv /\ [Next]_vars => Inv'
<1> SUFFICES ASSUME Inv, [Next]_vars PROVE Inv'
  OBVIOUS
<1>1. TypeOK'
  BY TypeStep DEF Inv
<1>2. CASE UNCHANGED vars
  BY <1>1, <1>2 DEF vars, Inv, AllAsked, LaneInv, UnitInStep, EndFlagLast, OneAhead,
                    FlagsRead, Taken, Ending
<1>3. CASE Dealing
  <2>1. held' = held /\ unit' = unit /\ data' = data /\ flag' = flag /\ mg' = mg
    BY <1>3 DEF Dealing, Deal, PassOver, EndInput, EndLane
  <2>2. ASSUME NEW i \in Lanes PROVE LaneInv(i)'
    BY <2>1, LaneKept DEF Inv, LaneInv, OneAhead
  <2> QED
    BY <1>1, <2>1, <2>2 DEF Inv, AllAsked
<1>4. ASSUME NEW j \in Lanes, Unit(j) PROVE Inv'
  <2>1. ASSUME NEW i \in Lanes PROVE LaneInv(i)'
    <3>1. CASE i = j
      BY <1>4, <3>1, UnitKeepsLane DEF Inv
    <3>2. CASE i # j
      <4>1. /\ held'[i] = held[i] /\ unit'[i] = unit[i]
            /\ data'[i] = data[i] /\ flag'[i] = flag[i] /\ mg' = mg
        BY <1>4, <3>2 DEF Unit, UnitRead, UnitWrite, UnitFlag, UnitEnd, Inv, TypeOK
      <4> QED
        BY <4>1, LaneKept DEF Inv, LaneInv, OneAhead
    <3> QED
      BY <3>1, <3>2
  <2> QED
    BY <1>1, <1>4, <2>1, AllAskedStep DEF Inv, Next
<1>5. CASE Merging
  BY <1>1, <1>5, MergingKeeps, AllAskedStep DEF Inv, Next
<1>6. CASE Finished
  BY <1>2, <1>6 DEF Finished
<1> QED
  BY <1>2, <1>3, <1>4, <1>5, <1>6 DEF Next

THEOREM InvAlways == Spec => []Inv
BY InvInit, InvStep, PTL DEF Spec

(* No end flag overtakes an element, whatever the number of lanes, the     *)
(* depth of the FIFOs, the selector and the speed of the units.            *)
THEOREM NoElementBehindEnd == Spec => []NothingBehindEnd
<1>1. Inv => NothingBehindEnd
  <2> SUFFICES ASSUME Inv, NEW i \in mg.ends PROVE data[i] = << >> /\ unit[i].ended
    BY DEF NothingBehindEnd
  <2>1. i \in Lanes
    BY DEF Inv, TypeOK
  <2>2. unit[i].ended /\ Len(data[i]) = 0 /\ data[i] \in Seq(Nat)
    BY <2>1 DEF Inv, TypeOK, LaneInv, EndFlagLast
  <2> QED
    BY <2>2
<1> QED
  BY <1>1, InvAlways, PTL

-----------------------------------------------------------------------------
(* Each element once, and in the order of the input                        *)

(* What has been dealt to lane i and not been merged, in order.            *)
Trail(i) == (data[i] \o held[i]) \o lane[i]
In(t, e) == \E k \in 1..Len(t) : t[k] = e
Has(i, e) == In(Trail(i), e)
Out(e) == In(out, e)

Dealt == IF sc.pc = "deal" THEN sc.sent ELSE ToDeal
EndDealt(i) == sc.pc = "done" \/ (sc.pc = "end" /\ i < sc.id)

(* A trail holds elements in the order they were dealt, and End behind     *)
(* them once it has been dealt.                                            *)
Rising(t, n) ==
    /\ \A k \in 1..Len(t) : t[k] \in 0..n /\ (t[k] = End => k = Len(t))
    /\ \A k, l \in 1..Len(t) : k < l /\ t[l] # End => t[k] < t[l]
HasEnd(t) == Len(t) > 0 /\ t[Len(t)] = End
Trails == \A i \in Lanes : Rising(Trail(i), Dealt) /\ (EndDealt(i) <=> HasEnd(Trail(i)))

(* A unit holds one entry at most, and gives no End to the merge.          *)
UnitOK(i) == Len(held[i]) <= 1 /\ \A k \in 1..Len(data[i]) : data[i][k] # End

(* No element is in two places. *)
OutOnce ==
    /\ \A k, l \in 1..Len(out) : out[k] = out[l] => k = l
    /\ \A k \in 1..Len(out) : out[k] \in 1..Dealt
TrailsApart ==
    \A i \in Lanes, e \in 1..Dealt :
        Has(i, e) => ~Out(e) /\ \A j \in Lanes : Has(j, e) => i = j

(* Each element is somewhere, until the merging side drops the rest.       *)
Picking == Policy = "tag" => Len(out) < call.picks
Covered == Picking => \A e \in 1..Dealt : Out(e) \/ \E i \in Lanes : Has(i, e)

(* The lane of an element, where the policy says it.                       *)
Home(e) == IF Policy = "tag" THEN call.tags[e] ELSE (e - 1) % NStrm
AtHome == Policy # "balance" => \A i \in Lanes, e \in 1..Dealt : Has(i, e) => Home(e) = i
Turns ==
    Policy = "turn" =>
        /\ sc.pc = "deal" => sc.id = sc.sent % NStrm
        /\ mg.pc \in {"first", "element"} => mg.id = Len(out) % NStrm
        /\ mg.pc = "flag" => Len(out) > 0 /\ mg.id = (Len(out) - 1) % NStrm
Counts ==
    /\ sc.pc = "deal" => sc.sent <= ToDeal
    /\ Policy = "tag" => Len(out) <= call.picks
    /\ mg.pc = "first" => Len(out) = 0
    /\ mg.pc = "done" => mg.ends = Lanes /\ ~MoreToMerge

Placed == Trails /\ OutOnce /\ TrailsApart /\ Covered /\ InputOrder /\ AtHome
Places == Placed /\ (\A i \in Lanes : UnitOK(i)) /\ Turns /\ Counts

-----------------------------------------------------------------------------
(* Trails *)

LEMMA ConcatFacts ==
    ASSUME NEW a \in Seq(Nat), NEW b \in Seq(Nat), NEW c \in Seq(Nat)
    PROVE  /\ (a \o b) \o c \in Seq(Nat)
           /\ \A x \in Nat : (a \o b) \o Append(c, x) = Append((a \o b) \o c, x)
<1>1. (a \o b) \o c \in Seq(Nat) /\ a \o b \in Seq(Nat) /\ b \o c \in Seq(Nat)
  BY ConcatProperties
<1>3. ASSUME NEW x \in Nat
      PROVE  (a \o b) \o Append(c, x) = Append((a \o b) \o c, x)
  <2>1. Append(c, x) = c \o <<x>> /\ Append((a \o b) \o c, x) = ((a \o b) \o c) \o <<x>>
    BY <1>1, AppendIsConcat
  <2>2. <<x>> \in Seq(Nat)
    OBVIOUS
  <2>3. ((a \o b) \o c) \o <<x>> = (a \o b) \o (c \o <<x>>)
    BY <1>1, <2>2, ConcatAssociative, SMTT(30)
  <2> QED
    BY <2>1, <2>3
<1> QED
  BY <1>1, <1>3

LEMMA ConcatTail ==
    ASSUME NEW a \in Seq(Nat), NEW d \in Seq(Nat), a # << >>
    PROVE  Tail(a) \o d = Tail(a \o d) /\ a \o d # << >> /\ (a \o d)[1] = a[1]
<1> DEFINE u == Tail(a) \o d
           v == a \o d
<1>1. Len(a) \in Nat /\ Len(a) > 0 /\ Len(d) \in Nat
  BY EmptySeq, LenProperties
<1>2. Tail(a) \in Seq(Nat) /\ Len(Tail(a)) = Len(a) - 1
      /\ \A k \in 1..Len(Tail(a)) : Tail(a)[k] = a[k + 1]
  BY HeadTailProperties
<1>3. /\ u \in Seq(Nat) /\ Len(u) = Len(a) - 1 + Len(d)
      /\ \A k \in 1..Len(a) - 1 + Len(d) :
            u[k] = IF k <= Len(a) - 1 THEN Tail(a)[k] ELSE d[k - (Len(a) - 1)]
  BY <1>2, ConcatProperties
<1>4. /\ v \in Seq(Nat) /\ Len(v) = Len(a) + Len(d)
      /\ \A k \in 1..Len(a) + Len(d) : v[k] = IF k <= Len(a) THEN a[k] ELSE d[k - Len(a)]
  BY ConcatProperties
<1> HIDE DEF u, v
<1>5. Len(v) > 0 /\ v # << >> /\ v[1] = a[1]
  <2>1. Len(v) > 0
    BY <1>1, <1>4
  <2>2. 1 \in 1..Len(a) + Len(d) /\ 1 <= Len(a)
    BY <1>1
  <2>3. v[1] = a[1]
    BY <1>4, <2>2
  <2>4. v # << >>
    BY <2>1
  <2> QED
    BY <2>1, <2>3, <2>4
<1>6. /\ Tail(v) \in Seq(Nat) /\ Len(Tail(v)) = Len(v) - 1
      /\ \A k \in 1..Len(Tail(v)) : Tail(v)[k] = v[k + 1]
  BY <1>4, <1>5, HeadTailProperties
<1>7. Len(Tail(v)) = Len(u)
  BY <1>1, <1>3, <1>4, <1>6
<1>8. ASSUME NEW k \in 1..Len(u) PROVE u[k] = Tail(v)[k]
  <2>1. /\ k \in 1..Len(a) - 1 + Len(d) /\ k + 1 \in 1..Len(a) + Len(d) /\ k \in 1..Len(Tail(v))
        /\ k <= Len(a) - 1 <=> k + 1 <= Len(a) /\ k - (Len(a) - 1) = (k + 1) - Len(a)
        /\ k <= Len(a) - 1 => k \in 1..Len(Tail(a))
    BY <1>1, <1>2, <1>3, <1>7
  <2>2. Tail(v)[k] = v[k + 1]
    BY <1>6, <2>1
  <2>3. v[k + 1] = IF k + 1 <= Len(a) THEN a[k + 1] ELSE d[(k + 1) - Len(a)]
    BY <1>4, <2>1
  <2>4. u[k] = IF k <= Len(a) - 1 THEN Tail(a)[k] ELSE d[k - (Len(a) - 1)]
    BY <1>3, <2>1
  <2> QED
    BY <1>2, <2>1, <2>2, <2>3, <2>4
<1>9. u = Tail(v)
  BY <1>3, <1>6, <1>7, <1>8, SeqEqual
<1> QED
  BY <1>5, <1>9 DEF u, v

LEMMA ConcatAssoc ==
    ASSUME NEW x \in Seq(Nat), NEW y \in Seq(Nat), NEW z \in Seq(Nat)
    PROVE  (x \o y) \o z = x \o (y \o z)
BY ConcatAssociative, SMTT(30)

LEMMA ConcatTail3 ==
    ASSUME NEW a \in Seq(Nat), NEW b \in Seq(Nat), NEW c \in Seq(Nat), a # << >>
    PROVE  /\ (Tail(a) \o b) \o c = Tail((a \o b) \o c)
           /\ (a \o b) \o c # << >> /\ ((a \o b) \o c)[1] = a[1]
<1>1. b \o c \in Seq(Nat) /\ Tail(a) \in Seq(Nat)
  BY ConcatProperties
<1>2. (a \o b) \o c = a \o (b \o c)
  BY ConcatAssoc
<1>3. (Tail(a) \o b) \o c = Tail(a) \o (b \o c)
  BY <1>1, ConcatAssoc, SMTT(30)
<1>4. /\ Tail(a) \o (b \o c) = Tail(a \o (b \o c)) /\ a \o (b \o c) # << >>
      /\ (a \o (b \o c))[1] = a[1]
  BY <1>1, ConcatTail
<1> QED
  BY <1>2, <1>3, <1>4

LEMMA TrailType ==
    ASSUME TypeOK, NEW i \in Lanes
    PROVE  Trail(i) \in Seq(Nat) /\ Len(Trail(i)) \in Nat
<1>1. data[i] \in Seq(Nat) /\ held[i] \in Seq(Nat) /\ lane[i] \in Seq(Nat)
  BY DEF TypeOK
<1>2. Trail(i) \in Seq(Nat)
  BY <1>1, ConcatFacts DEF Trail
<1> QED
  BY <1>2

(* Whatever the units do leaves the trails alone. *)
LEMMA UnitKeepsTrails ==
    ASSUME TypeOK, NEW j \in Lanes, UnitOK(j), Unit(j), NEW i \in Lanes
    PROVE  Trail(i)' = Trail(i)
<1>1. /\ data[j] \in Seq(Nat) /\ held[j] \in Seq(Nat) /\ lane[j] \in Seq(Nat)
  BY DEF TypeOK
<1>2. CASE i # j
  <2>1. data'[i] = data[i] /\ held'[i] = held[i] /\ lane'[i] = lane[i]
    BY <1>2 DEF Unit, UnitRead, UnitWrite, UnitFlag, UnitEnd, TypeOK
  <2> QED
    BY <2>1 DEF Trail
<1>3. CASE i = j /\ UnitRead(j)
  <2>1. /\ held[j] = << >> /\ held'[j] = <<Head(lane[j])>> /\ lane[j] # << >>
        /\ lane'[j] = Tail(lane[j]) /\ data'[j] = data[j]
    BY <1>3 DEF UnitRead, TypeOK
  <2>2. ASSUME NEW a \in Seq(Nat), NEW c \in Seq(Nat), c # << >>
        PROVE  (a \o <<Head(c)>>) \o Tail(c) = (a \o << >>) \o c
    <3>1. Head(c) \in Nat /\ Tail(c) \in Seq(Nat) /\ <<Head(c)>> \in Seq(Nat) /\ << >> \in Seq(Nat)
      BY <2>2
    <3>2. <<Head(c)>> \o Tail(c) = c /\ << >> \o c = c
      BY <2>2, <3>1
    <3> QED
      BY <3>1, <3>2, ConcatAssociative, SMTT(30)
  <2> QED
    BY <1>1, <1>3, <2>1, <2>2 DEF Trail
<1>4. CASE i = j /\ UnitWrite(j)
  <2>1. /\ held[j] # << >> /\ held'[j] = << >> /\ data'[j] = Append(data[j], held[j][1])
        /\ lane'[j] = lane[j]
    BY <1>4 DEF UnitWrite, TypeOK
  <2>2. Len(held[j]) = 1 /\ held[j][1] \in Nat /\ held[j] = <<held[j][1]>>
    <3>1. Len(held[j]) \in Nat /\ Len(held[j]) # 0 /\ Len(held[j]) <= 1
      BY <1>1, <2>1 DEF UnitOK
    <3>a. \A n \in Nat : n # 0 /\ n <= 1 => n = 1
      OBVIOUS
    <3>2. Len(held[j]) = 1
      BY <3>1, <3>a
    <3> QED
      BY <1>1, <3>2
  <2>3. ASSUME NEW a \in Seq(Nat), NEW x \in Nat
        PROVE  Append(a, x) \o << >> = a \o <<x>>
    OBVIOUS
  <2> QED
    BY <1>1, <1>4, <2>1, <2>2, <2>3 DEF Trail
<1>5. CASE UnitFlag(j) \/ UnitEnd(j)
  BY <1>5 DEF UnitFlag, UnitEnd, Trail
<1> QED
  BY <1>2, <1>3, <1>4, <1>5 DEF Unit

(* An entry is dealt to a lane. *)
LEMMA DealtToTrail ==
    ASSUME TypeOK, NEW j \in Lanes, NEW x \in Nat, NEW i \in Lanes,
           lane' = [lane EXCEPT ![j] = Append(@, x)], data' = data, held' = held
    PROVE  Trail(i)' = IF i = j THEN Append(Trail(i), x) ELSE Trail(i)
<1>1. data[i] \in Seq(Nat) /\ held[i] \in Seq(Nat) /\ lane[i] \in Seq(Nat)
  BY DEF TypeOK
<1>2. lane'[i] = IF i = j THEN Append(lane[i], x) ELSE lane[i]
  BY DEF TypeOK
<1>3. \A a, b, c \in Seq(Nat) : (a \o b) \o Append(c, x) = Append((a \o b) \o c, x)
  BY ConcatFacts
<1>4. (data[i] \o held[i]) \o Append(lane[i], x) = Append(Trail(i), x)
  BY <1>1, <1>3 DEF Trail
<1>5. Trail(i)' = (data[i] \o held[i]) \o lane'[i]
  BY DEF Trail
<1>6. CASE i = j
  BY <1>2, <1>4, <1>5, <1>6
<1>7. CASE i # j
  <2>1. Trail(i) = (data[i] \o held[i]) \o lane[i]
    BY DEF Trail
  <2>2. lane'[i] = lane[i]
    BY <1>2, <1>7
  <2> QED
    BY <1>5, <1>7, <2>1, <2>2
<1> QED
  BY <1>6, <1>7

(* The merge takes an element of a lane. *)
LEMMA TakenFromTrail ==
    ASSUME TypeOK, NEW j \in Lanes, NEW i \in Lanes, data[j] # << >>, UnitOK(j),
           data' = [data EXCEPT ![j] = Tail(@)], lane' = lane, held' = held
    PROVE  /\ Trail(i)' = IF i = j THEN Tail(Trail(i)) ELSE Trail(i)
           /\ Trail(j) # << >> /\ Trail(j)[1] = Head(data[j]) /\ Head(data[j]) # End
<1>1. /\ data[i] \in Seq(Nat) /\ held[i] \in Seq(Nat) /\ lane[i] \in Seq(Nat)
      /\ data[j] \in Seq(Nat) /\ held[j] \in Seq(Nat) /\ lane[j] \in Seq(Nat)
  BY DEF TypeOK
<1>2. data'[i] = IF i = j THEN Tail(data[i]) ELSE data[i]
  BY DEF TypeOK
<1>a. \A a, b, c \in Seq(Nat) :
        a # << >> => /\ (Tail(a) \o b) \o c = Tail((a \o b) \o c)
                     /\ (a \o b) \o c # << >> /\ ((a \o b) \o c)[1] = a[1]
  BY ConcatTail3
<1>3. /\ (Tail(data[j]) \o held[j]) \o lane[j] = Tail(Trail(j))
      /\ Trail(j) # << >> /\ Trail(j)[1] = data[j][1]
  BY <1>1, <1>a, ZenonT(30) DEF Trail
<1>b. Trail(i)' = (data'[i] \o held[i]) \o lane[i]
  BY DEF Trail
<1>c. Trail(i)' = IF i = j THEN Tail(Trail(i)) ELSE Trail(i)
  <2>1. CASE i = j
    BY <1>2, <1>3, <1>b, <2>1
  <2>2. CASE i # j
    <3>1. Trail(i) = (data[i] \o held[i]) \o lane[i]
      BY DEF Trail
    <3>2. data'[i] = data[i]
      BY <1>2, <2>2
    <3> QED
      BY <1>b, <2>2, <3>1, <3>2
  <2> QED
    BY <2>1, <2>2
<1>4. Head(data[j]) = data[j][1] /\ 1 \in 1..Len(data[j])
  BY <1>1
<1>5. Head(data[j]) # End
  BY <1>4 DEF UnitOK
<1> QED
  BY <1>3, <1>4, <1>5, <1>c

-----------------------------------------------------------------------------
(* Rising sequences *)

LEMMA RisingUp ==
    ASSUME NEW t \in Seq(Nat), NEW n \in Nat, NEW m \in Nat, n <= m, Rising(t, n)
    PROVE  Rising(t, m)
BY DEF Rising

LEMMA RisingMore ==
    ASSUME NEW t \in Seq(Nat), NEW n \in Nat, Rising(t, n), ~HasEnd(t)
    PROVE  Rising(Append(t, n + 1), n + 1) /\ ~HasEnd(Append(t, n + 1))
<1> DEFINE u == Append(t, n + 1)
<1>1. /\ u \in Seq(Nat) /\ Len(u) = Len(t) + 1 /\ u[Len(t) + 1] = n + 1
      /\ \A k \in 1..Len(t) : u[k] = t[k]
  BY AppendFacts
<1>2. Len(t) \in Nat
  OBVIOUS
<1> HIDE DEF u
<1>3. ASSUME NEW k \in 1..Len(t) PROVE t[k] # End /\ t[k] \in 0..n
  <2>1. k = Len(t) => t[k] # End
    BY <1>2 DEF HasEnd
  <2> QED
    BY <2>1 DEF Rising
<1>4. ASSUME NEW k \in 1..Len(u)
      PROVE  /\ (k \in 1..Len(t) /\ u[k] = t[k]) \/ (k = Len(t) + 1 /\ u[k] = n + 1)
             /\ u[k] \in 0..n + 1 /\ u[k] # End
  <2>1. CASE k \in 1..Len(t)
    BY <1>1, <1>3, <2>1
  <2>2. CASE k = Len(t) + 1
    BY <1>1, <2>2 DEF End
  <2> QED
    BY <1>1, <1>2, <2>1, <2>2
<1>5. ASSUME NEW k \in 1..Len(u), NEW l \in 1..Len(u), k < l PROVE u[k] < u[l]
  <2>0. k \in 1..Len(t)
    BY <1>1, <1>2, <1>5
  <2>1. k \in 1..Len(t) /\ u[k] = t[k]
    BY <1>1, <2>0
  <2>2. CASE l \in 1..Len(t)
    <3>1. u[l] = t[l] /\ t[l] # End
      BY <1>1, <1>3, <2>2
    <3> QED
      BY <1>5, <2>1, <2>2, <3>1 DEF Rising
  <2>3. CASE l = Len(t) + 1
    <3>1. u[l] = n + 1 /\ t[k] \in 0..n
      BY <1>1, <1>3, <2>1, <2>3
    <3> QED
      BY <2>1, <3>1
  <2> QED
    BY <1>1, <1>2, <2>2, <2>3
<1>6. Rising(u, n + 1)
  BY <1>4, <1>5 DEF Rising
<1>7. ~HasEnd(u)
  <2>1. Len(u) \in 1..Len(u)
    BY <1>1, <1>2
  <2> QED
    BY <1>4, <2>1 DEF HasEnd
<1> QED
  BY <1>6, <1>7 DEF u

LEMMA RisingEnd ==
    ASSUME NEW t \in Seq(Nat), NEW n \in Nat, Rising(t, n), ~HasEnd(t)
    PROVE  Rising(Append(t, End), n) /\ HasEnd(Append(t, End))
<1> DEFINE u == Append(t, End)
<1>1. /\ u \in Seq(Nat) /\ Len(u) = Len(t) + 1 /\ u[Len(t) + 1] = End
      /\ \A k \in 1..Len(t) : u[k] = t[k]
  BY AppendFacts DEF End
<1>2. Len(t) \in Nat
  OBVIOUS
<1> HIDE DEF u
<1>3. ASSUME NEW k \in 1..Len(t) PROVE t[k] # End /\ t[k] \in 0..n
  <2>1. k = Len(t) => t[k] # End
    BY <1>2 DEF HasEnd
  <2> QED
    BY <2>1 DEF Rising
<1>4. ASSUME NEW k \in 1..Len(u)
      PROVE  /\ (k \in 1..Len(t) /\ u[k] = t[k] /\ u[k] # End) \/ (k = Len(u) /\ u[k] = End)
             /\ u[k] \in 0..n
  <2>1. CASE k \in 1..Len(t)
    BY <1>1, <1>3, <2>1
  <2>2. CASE k = Len(t) + 1
    BY <1>1, <2>2 DEF End
  <2> QED
    BY <1>1, <1>2, <2>1, <2>2
<1>5. ASSUME NEW k \in 1..Len(u), NEW l \in 1..Len(u), k < l, u[l] # End PROVE u[k] < u[l]
  <2>0. k \in 1..Len(t)
    BY <1>1, <1>2, <1>5
  <2>2. l \in 1..Len(t)
    BY <1>4, <1>5
  <2>1. l \in 1..Len(t) /\ u[l] = t[l] /\ k \in 1..Len(t) /\ u[k] = t[k] /\ t[l] # End
    BY <1>1, <1>5, <2>0, <2>2
  <2> QED
    BY <1>5, <2>1 DEF Rising
<1>6. Rising(u, n)
  BY <1>4, <1>5 DEF Rising
<1>7. HasEnd(u)
  BY <1>1, <1>2 DEF HasEnd
<1> QED
  BY <1>6, <1>7 DEF u

LEMMA RisingTail ==
    ASSUME NEW t \in Seq(Nat), NEW n \in Nat, Rising(t, n), t # << >>, t[1] # End
    PROVE  /\ Rising(Tail(t), n) /\ (HasEnd(Tail(t)) <=> HasEnd(t))
           /\ t[1] \in 1..n
           /\ \A k \in 1..Len(t) : t[k] # End => t[1] <= t[k]
           /\ \A k \in 1..Len(Tail(t)) : Tail(t)[k] # t[1]
<1> DEFINE u == Tail(t)
<1>1. /\ u \in Seq(Nat) /\ Len(u) = Len(t) - 1 /\ Len(t) > 0 /\ Len(t) \in Nat
      /\ \A k \in 1..Len(u) : u[k] = t[k + 1]
  BY TailFacts
<1>2. 1 \in 1..Len(t)
  BY <1>1
<1>3. t[1] \in 1..n
  BY <1>2 DEF Rising, End
<1> HIDE DEF u
<1>4. ASSUME NEW k \in 1..Len(u)
      PROVE  k + 1 \in 1..Len(t) /\ u[k] = t[k + 1] /\ (k + 1 = Len(t) <=> k = Len(u))
  BY <1>1
<1>5. Rising(u, n)
  <2>1. ASSUME NEW k \in 1..Len(u) PROVE u[k] \in 0..n /\ (u[k] = End => k = Len(u))
    BY <1>4 DEF Rising
  <2>2. ASSUME NEW k \in 1..Len(u), NEW l \in 1..Len(u), k < l, u[l] # End PROVE u[k] < u[l]
    <3>1. k + 1 < l + 1
      BY <2>2
    <3> QED
      BY <1>4, <2>2, <3>1 DEF Rising
  <2> QED
    BY <2>1, <2>2 DEF Rising
<1>6. HasEnd(u) <=> HasEnd(t)
  <2>1. CASE Len(t) = 1
    BY <1>1, <2>1 DEF HasEnd
  <2>2. CASE Len(t) # 1
    <3>1. Len(u) > 0 /\ Len(u) \in 1..Len(u)
      BY <1>1, <2>2
    <3>2. u[Len(u)] = t[Len(t)]
      <4>1. u[Len(u)] = t[Len(u) + 1] /\ Len(u) + 1 = Len(t)
        BY <1>1, <1>4, <3>1
      <4> QED
        BY <4>1
    <3> QED
      BY <1>1, <3>1, <3>2 DEF HasEnd
  <2> QED
    BY <2>1, <2>2
<1>7. ASSUME NEW k \in 1..Len(t), t[k] # End PROVE t[1] <= t[k]
  <2>1. CASE k = 1
    BY <1>3, <2>1
  <2>2. CASE k # 1
    <3>1. 1 < k /\ t[k] \in 0..n
      BY <2>2 DEF Rising
    <3>2. t[1] < t[k]
      BY <1>2, <1>7, <3>1 DEF Rising
    <3> QED
      BY <1>3, <3>1, <3>2
  <2> QED
    BY <2>1, <2>2
<1>8. ASSUME NEW k \in 1..Len(u) PROVE u[k] # t[1]
  <2>1. 1 < k + 1 /\ k + 1 \in 1..Len(t) /\ u[k] = t[k + 1]
    BY <1>4
  <2>2. u[k] # End => t[1] < u[k]
    BY <1>2, <2>1 DEF Rising
  <2> QED
    BY <1>3, <2>2
<1> QED
  BY <1>3, <1>5, <1>6, <1>7, <1>8 DEF u

LEMMA InAppend ==
    ASSUME NEW t \in Seq(Nat), NEW x \in Nat, NEW e
    PROVE  In(Append(t, x), e) <=> In(t, e) \/ e = x
<1> DEFINE u == Append(t, x)
<1>1. /\ Len(u) = Len(t) + 1 /\ u[Len(t) + 1] = x /\ Len(t) \in Nat
      /\ \A k \in 1..Len(t) : u[k] = t[k]
  BY AppendFacts
<1> HIDE DEF u
<1>2. \A k : k \in 1..Len(u) <=> k \in 1..Len(t) \/ k = Len(t) + 1
  BY <1>1
<1>3. In(u, e) <=> In(t, e) \/ e = x
  BY <1>1, <1>2 DEF In
<1> QED
  BY <1>3 DEF u

LEMMA InTail ==
    ASSUME NEW t \in Seq(Nat), t # << >>, NEW e
    PROVE  In(t, e) <=> In(Tail(t), e) \/ e = t[1]
<1> DEFINE u == Tail(t)
<1>1. /\ Len(u) = Len(t) - 1 /\ Len(t) > 0 /\ Len(t) \in Nat
      /\ \A k \in 1..Len(u) : u[k] = t[k + 1]
  BY TailFacts
<1> HIDE DEF u
<1>2. ASSUME In(u, e) PROVE In(t, e)
  <2>1. PICK k \in 1..Len(u) : u[k] = e
    BY <1>2 DEF In
  <2>2. k + 1 \in 1..Len(t) /\ t[k + 1] = e
    BY <1>1, <2>1
  <2> QED
    BY <2>2 DEF In
<1>3. In(t, t[1])
  <2>1. 1 \in 1..Len(t)
    BY <1>1
  <2> QED
    BY <2>1 DEF In
<1>4. ASSUME In(t, e), e # t[1] PROVE In(u, e)
  <2>1. PICK k \in 1..Len(t) : t[k] = e
    BY <1>4 DEF In
  <2>2. k - 1 \in 1..Len(u) /\ (k - 1) + 1 = k
    BY <1>1, <1>4, <2>1
  <2>3. u[k - 1] = e
    BY <1>1, <2>1, <2>2
  <2> QED
    BY <2>2, <2>3 DEF In
<1> QED
  BY <1>2, <1>3, <1>4 DEF u

-----------------------------------------------------------------------------
(* What each step does to the places of the elements *)

LEMMA CallFacts ==
    ASSUME TypeOK
    PROVE  /\ call.n \in Nat /\ call.tags \in Seq(Lanes) /\ call.picks \in Nat
           /\ Policy \in Policies /\ call.picks <= Len(call.tags) /\ Len(call.tags) <= call.n
           /\ ToDeal \in Nat /\ Dealt \in Nat /\ out \in Seq(Nat) /\ Len(out) \in Nat
           /\ sc.sent \in Nat /\ sc.id \in Lanes /\ mg.id \in Lanes
<1>1. call \in Calls
  BY DEF TypeOK
<1>2. /\ call.n \in Nat /\ call.tags \in Seq(Lanes) /\ call.picks \in Nat
      /\ call.policy \in Policies /\ call.picks <= Len(call.tags) /\ Len(call.tags) <= call.n
  BY <1>1, PoolAssumption DEF PoolAssumption
<1>3. ToDeal \in Nat
  BY <1>2 DEF ToDeal
<1>4. sc.sent \in Nat /\ sc.id \in Lanes /\ mg.id \in Lanes /\ out \in Seq(Nat)
  BY DEF TypeOK
<1>5. Dealt \in Nat
  BY <1>3, <1>4 DEF Dealt
<1> QED
  BY <1>2, <1>3, <1>4, <1>5 DEF Policy

LEMMA InitPlaced == Init => Placed
<1> SUFFICES ASSUME Init PROVE Placed
  OBVIOUS
<1>1. \A i \in Lanes : Trail(i) = << >>
  BY DEF Init, Trail
<1>2. out = << >> /\ sc.pc = "deal" /\ sc.sent = 0 /\ Dealt = 0
  BY DEF Init, Dealt
<1>3. \A i \in Lanes : Rising(Trail(i), Dealt) /\ ~HasEnd(Trail(i)) /\ ~EndDealt(i)
  BY <1>1, <1>2 DEF Rising, HasEnd, EndDealt
<1>4. Trails
  BY <1>3 DEF Trails
<1>5. OutOnce /\ TrailsApart /\ Covered /\ InputOrder /\ AtHome
  BY <1>2 DEF OutOnce, TrailsApart, Covered, InputOrder, AtHome
<1> QED
  BY <1>4, <1>5 DEF Placed

(* Steps within a lane *)
LEMMA KeepPlaced ==
    ASSUME Placed, \A i \in Lanes : Trail(i)' = Trail(i),
           \A i \in Lanes : EndDealt(i)' <=> EndDealt(i),
           out' = out, call' = call, Dealt' = Dealt
    PROVE  Placed'
<1>1. Trails'
  BY DEF Placed, Trails
<1>2. Policy' = Policy /\ \A e : Out(e)' <=> Out(e)
  BY DEF Policy, Out
<1>3. \A i \in Lanes, e \in 1..Dealt : Has(i, e)' <=> Has(i, e)
  BY DEF Has
<1>4. OutOnce'
  BY DEF Placed, OutOnce
<1>5. TrailsApart'
  BY <1>2, <1>3 DEF Placed, TrailsApart
<1>6. Covered'
  BY <1>2, <1>3 DEF Placed, Covered, Picking
<1>7. InputOrder' /\ AtHome'
  BY <1>2, <1>3 DEF Placed, InputOrder, AtHome, Home
<1> QED
  BY <1>1, <1>4, <1>5, <1>6, <1>7 DEF Placed

(* An element is not in a trail before it is dealt.                        *)
LEMMA NotYetDealt ==
    ASSUME TypeOK, Trails, NEW i \in Lanes, NEW e \in Nat, Has(i, e)
    PROVE  e <= Dealt
<1>1. Rising(Trail(i), Dealt) /\ Dealt \in Nat
  BY CallFacts DEF Trails
<1> QED
  BY <1>1 DEF Has, In, Rising

LEMMA DealPlaced ==
    ASSUME TypeOK, Placed, Turns, Deal
    PROVE  Placed'
<1> DEFINE j == Target
           x == sc.sent + 1
<1>1. /\ sc.pc = "deal" /\ sc.sent < ToDeal /\ sc'.pc = "deal" /\ sc'.sent = x
      /\ lane' = [lane EXCEPT ![j] = Append(@, x)] /\ data' = data /\ held' = held
      /\ out' = out /\ call' = call
  BY DEF Deal, TypeOK
<1>2. j \in Lanes
  BY <1>1, TargetIsLane DEF Deal
<1>3. Dealt = sc.sent /\ Dealt' = x /\ x \in Nat /\ sc.sent \in Nat
  BY <1>1, CallFacts DEF Dealt
<1> HIDE DEF j, x
<1>4. ASSUME NEW i \in Lanes
      PROVE  Trail(i)' = IF i = j THEN Append(Trail(i), x) ELSE Trail(i)
  BY <1>1, <1>2, <1>3, DealtToTrail
<1>5. ASSUME NEW i \in Lanes
      PROVE  /\ Trail(i) \in Seq(Nat) /\ Rising(Trail(i), Dealt) /\ ~HasEnd(Trail(i))
             /\ ~EndDealt(i) /\ ~EndDealt(i)'
  <2>1. ~EndDealt(i) /\ ~EndDealt(i)'
    BY <1>1 DEF EndDealt
  <2>2. Trail(i) \in Seq(Nat)
    BY TrailType
  <2> QED
    BY <2>1, <2>2 DEF Placed, Trails
<1>6. ASSUME NEW i \in Lanes PROVE Rising(Trail(i)', x) /\ ~HasEnd(Trail(i)')
  <2>1. CASE i = j
    <3>1. Rising(Append(Trail(i), sc.sent + 1), sc.sent + 1) /\ ~HasEnd(Append(Trail(i), sc.sent + 1))
      BY <1>3, <1>5, RisingMore
    <3> QED
      BY <1>4, <2>1, <3>1 DEF x
  <2>2. CASE i # j
    <3>1. sc.sent <= x
      BY <1>3 DEF x
    <3>2. Rising(Trail(i), x)
      BY <1>3, <1>5, <3>1, RisingUp
    <3> QED
      BY <1>4, <1>5, <2>2, <3>2
  <2> QED
    BY <2>1, <2>2
<1>7. Trails'
  <2>1. \A i \in Lanes : Rising(Trail(i)', Dealt') /\ ~HasEnd(Trail(i)') /\ ~EndDealt(i)'
    BY <1>3, <1>5, <1>6
  <2> QED
    BY <2>1 DEF Trails
<1>8. ASSUME NEW i \in Lanes, NEW e
      PROVE  Has(i, e)' <=> Has(i, e) \/ (i = j /\ e = x)
  <2>1. In(Append(Trail(i), x), e) <=> In(Trail(i), e) \/ e = x
    BY <1>3, <1>5, InAppend
  <2> QED
    BY <1>4, <2>1 DEF Has
<1>9. ASSUME NEW i \in Lanes PROVE ~Has(i, x)
  <2>1. ~(x <= Dealt)
    BY <1>3 DEF x
  <2> QED
    BY <1>3, <2>1, NotYetDealt DEF Placed
<1>10. /\ \A e : Out(e)' <=> Out(e)
       /\ ~Out(x) /\ Policy' = Policy
  <2>1. \A k \in 1..Len(out) : out[k] \in 1..sc.sent
    BY <1>3 DEF Placed, OutOnce
  <2>2. ~(x \in 1..sc.sent)
    BY <1>3 DEF x
  <2> QED
    BY <1>1, <2>1, <2>2 DEF Out, In, Policy
<1>11. \A e : e \in 1..x <=> e \in 1..sc.sent \/ e = x
  BY <1>3 DEF x
<1>12. OutOnce'
  BY <1>1, <1>3, <1>11 DEF Placed, OutOnce
<1>13. TrailsApart'
  <2>1. ASSUME NEW i \in Lanes, NEW e \in 1..x, Has(i, e)'
        PROVE  ~Out(e)' /\ \A m \in Lanes : Has(m, e)' => i = m
    <3>1. CASE e = x
      BY <1>8, <1>9, <1>10, <2>1, <3>1
    <3>2. CASE e # x
      <4>1. e \in 1..Dealt /\ Has(i, e) /\ \A m \in Lanes : Has(m, e)' => Has(m, e)
        BY <1>3, <1>8, <1>11, <2>1, <3>2
      <4> QED
        BY <1>10, <4>1 DEF Placed, TrailsApart
    <3> QED
      BY <3>1, <3>2
  <2> QED
    BY <1>3, <2>1 DEF TrailsApart
<1>14. Covered'
  <2>1. ASSUME Picking', NEW e \in 1..x PROVE Out(e)' \/ \E i \in Lanes : Has(i, e)'
    <3>1. Picking
      BY <1>1, <1>10, <2>1 DEF Picking
    <3>2. CASE e = x
      BY <1>2, <1>8, <3>2
    <3>3. CASE e # x
      <4>1. e \in 1..Dealt
        BY <1>3, <1>11, <3>3
      <4>2. Out(e) \/ \E i \in Lanes : Has(i, e)
        BY <3>1, <4>1 DEF Placed, Covered
      <4> QED
        BY <1>8, <1>10, <4>2
    <3> QED
      BY <3>2, <3>3
  <2> QED
    BY <1>3, <2>1 DEF Covered
<1>15. InputOrder'
  BY <1>1, <1>10 DEF Placed, InputOrder
<1>16. AtHome'
  <2>1. Policy # "balance" => Home(x) = j
    <3>1. CASE Policy = "tag"
      BY <3>1 DEF Home, j, x, Target
    <3>2. CASE Policy = "turn"
      <4>1. sc.id = sc.sent % NStrm /\ x - 1 = sc.sent
        BY <1>1, <1>3, <3>2 DEF Turns, x
      <4>2. j = sc.id
        BY <3>2 DEF j, Target
      <4> QED
        BY <3>2, <4>1, <4>2 DEF Home
    <3> QED
      BY <3>1, <3>2, CallFacts DEF Policies
  <2>2. \A e : Home(e)' = Home(e)
    BY <1>1 DEF Home, Policy
  <2>3. ASSUME Policy # "balance", NEW i \in Lanes, NEW e \in 1..x, Has(i, e)'
        PROVE  Home(e) = i
    <3>1. CASE e = x
      BY <1>8, <1>9, <2>1, <2>3, <3>1
    <3>2. CASE e # x
      <4>1. e \in 1..Dealt /\ Has(i, e)
        BY <1>3, <1>8, <1>11, <2>3, <3>2
      <4> QED
        BY <2>3, <4>1 DEF Placed, AtHome
    <3> QED
      BY <3>1, <3>2
  <2> QED
    BY <1>3, <1>10, <2>2, <2>3 DEF AtHome
<1> QED
  BY <1>7, <1>12, <1>13, <1>14, <1>15, <1>16 DEF Placed

LEMMA EndLanePlaced ==
    ASSUME TypeOK, Placed, EndLane
    PROVE  Placed'
<1> DEFINE j == sc.id
<1>1. /\ sc.pc = "end" /\ j \in Lanes
      /\ lane' = [lane EXCEPT ![j] = Append(@, End)] /\ data' = data /\ held' = held
      /\ out' = out /\ call' = call
      /\ sc' = IF j = NStrm - 1 THEN [sc EXCEPT !.pc = "done"] ELSE [sc EXCEPT !.id = @ + 1]
  BY DEF EndLane, TypeOK
<1>2. Dealt' = Dealt /\ Dealt \in Nat
  <2>1. sc'.pc # "deal"
    BY <1>1 DEF TypeOK
  <2>2. ToDeal' = ToDeal
    BY <1>1 DEF ToDeal, Policy
  <2> QED
    BY <1>1, <2>1, <2>2, CallFacts DEF Dealt
<1>3. ASSUME NEW i \in Lanes
      PROVE  (EndDealt(i)' <=> EndDealt(i) \/ i = j) /\ ~EndDealt(j)
  <2>0. j \in Int /\ i \in Int /\ i <= NStrm - 1 /\ NStrm \in Nat
    BY <1>1, PoolAssumption DEF PoolAssumption, Lanes
  <2>1. CASE j = NStrm - 1
    <3>1. sc'.pc = "done"
      BY <1>1, <2>1 DEF TypeOK
    <3>2. i < j \/ i = j
      BY <2>0, <2>1
    <3> QED
      BY <1>1, <2>0, <3>1, <3>2 DEF EndDealt
  <2>2. CASE j # NStrm - 1
    <3>1. sc'.pc = "end" /\ sc'.id = j + 1
      BY <1>1, <2>2 DEF TypeOK
    <3>2. i < j + 1 <=> i < j \/ i = j
      BY <2>0
    <3> QED
      BY <1>1, <2>0, <3>1, <3>2 DEF EndDealt
  <2> QED
    BY <2>1, <2>2
<1> HIDE DEF j
<1>4. ASSUME NEW i \in Lanes
      PROVE  Trail(i)' = IF i = j THEN Append(Trail(i), End) ELSE Trail(i)
  BY <1>1, DealtToTrail DEF End
<1>5. ASSUME NEW i \in Lanes
      PROVE  /\ Trail(i) \in Seq(Nat) /\ Rising(Trail(i), Dealt)
             /\ EndDealt(i) <=> HasEnd(Trail(i))
  BY TrailType DEF Placed, Trails
<1>6. ASSUME NEW i \in Lanes PROVE Rising(Trail(i)', Dealt) /\ (EndDealt(i)' <=> HasEnd(Trail(i)'))
  <2>1. CASE i = j
    <3>1. Rising(Append(Trail(i), End), Dealt) /\ HasEnd(Append(Trail(i), End))
      BY <1>2, <1>3, <1>5, <2>1, RisingEnd
    <3> QED
      BY <1>3, <1>4, <2>1, <3>1
  <2>2. CASE i # j
    BY <1>3, <1>4, <1>5, <2>2
  <2> QED
    BY <2>1, <2>2
<1>7. Trails'
  BY <1>2, <1>6 DEF Trails
<1>8. ASSUME NEW i \in Lanes, NEW e \in 1..Dealt PROVE Has(i, e)' <=> Has(i, e)
  <2>1. In(Append(Trail(i), End), e) <=> In(Trail(i), e) \/ e = End
    BY <1>5, InAppend DEF End
  <2>2. e # End
    BY DEF End
  <2> QED
    BY <1>4, <2>1, <2>2 DEF Has
<1>9. Policy' = Policy /\ \A e : Out(e)' <=> Out(e)
  BY <1>1 DEF Policy, Out
<1>10. OutOnce'
  BY <1>1, <1>2 DEF Placed, OutOnce
<1>11. TrailsApart'
  BY <1>2, <1>8, <1>9 DEF Placed, TrailsApart
<1>12. Covered'
  BY <1>1, <1>2, <1>8, <1>9 DEF Placed, Covered, Picking
<1>13. InputOrder' /\ AtHome'
  BY <1>1, <1>2, <1>8, <1>9 DEF Placed, InputOrder, AtHome, Home
<1> QED
  BY <1>7, <1>10, <1>11, <1>12, <1>13 DEF Placed

(* What taking the first element of a trail leaves of it. *)
LEMMA TakenFacts ==
    ASSUME TypeOK, Placed, NEW j \in Lanes, data[j] # << >>, UnitOK(j),
           data' = [data EXCEPT ![j] = Tail(@)], lane' = lane, held' = held, sc' = sc, call' = call
    PROVE  LET x == Head(data[j])
           IN  /\ x \in 1..Dealt /\ Has(j, x) /\ Trails' /\ Dealt' = Dealt
               /\ \A e \in 1..Dealt : Has(j, e) => x <= e
               /\ \A i \in Lanes, e \in 1..Dealt : Has(i, e)' <=> Has(i, e) /\ ~(i = j /\ e = x)
<1> DEFINE x == Head(data[j])
<1>1. /\ Trail(j) # << >> /\ Trail(j)[1] = x /\ x # End
      /\ \A i \in Lanes : Trail(i)' = IF i = j THEN Tail(Trail(i)) ELSE Trail(i)
  BY TakenFromTrail
<1> HIDE DEF x
<1>2. \A i \in Lanes : /\ Trail(i) \in Seq(Nat) /\ Rising(Trail(i), Dealt)
                       /\ EndDealt(i) <=> HasEnd(Trail(i))
  BY TrailType DEF Placed, Trails
<1>3. Dealt \in Nat /\ Dealt' = Dealt /\ \A i \in Lanes : EndDealt(i)' <=> EndDealt(i)
  BY CallFacts DEF Dealt, ToDeal, Policy, EndDealt
<1>4. /\ Rising(Tail(Trail(j)), Dealt) /\ (HasEnd(Tail(Trail(j))) <=> HasEnd(Trail(j)))
      /\ x \in 1..Dealt
      /\ \A k \in 1..Len(Trail(j)) : Trail(j)[k] # End => x <= Trail(j)[k]
      /\ \A k \in 1..Len(Tail(Trail(j))) : Tail(Trail(j))[k] # x
  BY <1>1, <1>2, <1>3, RisingTail
<1>5. Trails'
  <2>1. \A i \in Lanes : Rising(Trail(i)', Dealt) /\ (HasEnd(Trail(i)') <=> HasEnd(Trail(i)))
    BY <1>1, <1>2, <1>4
  <2> QED
    BY <1>2, <1>3, <2>1 DEF Trails
<1>6. \A e \in 1..Dealt : Has(j, e) => x <= e
  BY <1>4 DEF Has, In, End
<1>7. \A e : In(Trail(j), e) <=> In(Tail(Trail(j)), e) \/ e = x
  BY <1>1, <1>2, InTail
<1>8. Has(j, x) /\ ~In(Tail(Trail(j)), x)
  BY <1>4, <1>7 DEF Has, In
<1>9. \A i \in Lanes, e \in 1..Dealt : Has(i, e)' <=> Has(i, e) /\ ~(i = j /\ e = x)
  BY <1>1, <1>7, <1>8 DEF Has
<1> QED
  BY <1>3, <1>4, <1>5, <1>6, <1>8, <1>9 DEF x

LEMMA DropPlaced ==
    ASSUME TypeOK, Placed, NEW j \in Lanes, UnitOK(j), Drop(j)
    PROVE  Placed'
<1>1. /\ data[j] # << >> /\ data' = [data EXCEPT ![j] = Tail(@)]
      /\ lane' = lane /\ held' = held /\ sc' = sc /\ call' = call /\ out' = out
      /\ Policy = "tag" /\ ~(Merged < call.picks)
  BY DEF Drop, MoreToMerge
<1>2. /\ Trails' /\ Dealt' = Dealt
      /\ \A i \in Lanes, e \in 1..Dealt : Has(i, e)' => Has(i, e)
  BY <1>1, TakenFacts
<1>3. Policy' = Policy /\ \A e : Out(e)' <=> Out(e)
  BY <1>1 DEF Policy, Out
<1>4. OutOnce' /\ InputOrder'
  BY <1>1, <1>2, <1>3 DEF Placed, OutOnce, InputOrder
<1>5. TrailsApart'
  BY <1>2, <1>3 DEF Placed, TrailsApart
<1>6. Covered'
  BY <1>1, <1>3 DEF Covered, Picking, Merged
<1>7. AtHome'
  BY <1>1, <1>2, <1>3 DEF Placed, AtHome, Home
<1> QED
  BY <1>2, <1>4, <1>5, <1>6, <1>7 DEF Placed

(* Where the policy says the lane, the first element in it is the next.    *)
LEMMA NextIsFirst ==
    ASSUME TypeOK, Placed, Turns, NEW x \in 1..Dealt, Has(Source, x),
           \A e \in 1..Dealt : Has(Source, e) => x <= e,
           Policy # "balance", MoreToMerge, mg.pc = "element"
    PROVE  x = Len(out) + 1
<1> DEFINE m == Len(out) + 1
<1>0. Source \in Lanes
  BY SourceIsLane
<1>1. /\ \A k \in 1..Len(out) : out[k] = k
      /\ Len(out) \in Nat /\ x \in Nat /\ Dealt \in Nat
  BY CallFacts DEF Placed, InputOrder
<1>2. x >= m
  <2>1. ~Out(x)
    BY <1>0 DEF Placed, TrailsApart
  <2>2. ~(x \in 1..Len(out))
    BY <1>1, <2>1 DEF Out, In
  <2> QED
    BY <1>1, <2>2
<1>3. m \in 1..Dealt
  BY <1>1, <1>2
<1>4. Home(m) = Source
  <2>1. CASE Policy = "tag"
    BY <2>1 DEF Home, Source, Merged
  <2>2. CASE Policy = "turn"
    <3>1. mg.id = Len(out) % NStrm /\ m - 1 = Len(out)
      BY <1>1, <2>2 DEF Turns
    <3> QED
      BY <2>2, <3>1 DEF Home, Source
  <2> QED
    BY <2>1, <2>2, CallFacts DEF Policies
<1>5. ~Out(m)
  <2>1. ASSUME NEW k \in 1..Len(out) PROVE out[k] # m
    BY <1>1
  <2> QED
    BY <2>1 DEF Out, In
<1>6. Picking
  BY DEF Picking, MoreToMerge, Merged
<1>7. PICK i \in Lanes : Has(i, m)
  BY <1>3, <1>5, <1>6 DEF Placed, Covered
<1>8. Has(Source, m)
  BY <1>3, <1>4, <1>7 DEF Placed, AtHome
<1> HIDE DEF m
<1>9. x <= m
  BY <1>3, <1>8
<1>10. m \in Nat
  BY <1>3
<1> QED
  BY <1>1, <1>2, <1>9, <1>10 DEF m

LEMMA TakeElementPlaced ==
    ASSUME TypeOK, Placed, Turns, UnitOK(Source), TakeElement
    PROVE  Placed'
<1> DEFINE j == Source
           x == Head(data[j])
<1>0. j \in Lanes
  BY SourceIsLane DEF TakeElement
<1>1. /\ data[j] # << >> /\ data' = [data EXCEPT ![j] = Tail(@)] /\ out' = Append(out, x)
      /\ lane' = lane /\ held' = held /\ sc' = sc /\ call' = call
      /\ mg.pc = "element" /\ MoreToMerge
  BY DEF TakeElement
<1>2. /\ x \in 1..Dealt /\ Has(j, x) /\ Trails' /\ Dealt' = Dealt
      /\ \A e \in 1..Dealt : Has(j, e) => x <= e
      /\ \A i \in Lanes, e \in 1..Dealt : Has(i, e)' <=> Has(i, e) /\ ~(i = j /\ e = x)
  BY <1>0, <1>1, TakenFacts
<1>n. Policy # "balance" => x = Len(out) + 1
  BY <1>1, <1>2, NextIsFirst
<1> HIDE DEF j, x
<1>3. Dealt \in Nat /\ x \in Nat /\ out \in Seq(Nat) /\ Len(out) \in Nat
  BY <1>2, CallFacts
<1>4. /\ Len(out') = Len(out) + 1 /\ out'[Len(out) + 1] = x
      /\ \A k \in 1..Len(out) : out'[k] = out[k]
  BY <1>1, <1>3, AppendFacts
<1>5. Policy' = Policy /\ \A e : Out(e)' <=> Out(e) \/ e = x
  <2>1. \A e : In(Append(out, x), e) <=> In(out, e) \/ e = x
    BY <1>3, InAppend
  <2> QED
    BY <1>1, <2>1 DEF Policy, Out
<1>6. ~Out(x) /\ \A i \in Lanes : Has(i, x) => i = j
  BY <1>0, <1>2 DEF Placed, TrailsApart
<1>p. \A k : k \in 1..Len(out') <=> k \in 1..Len(out) \/ k = Len(out) + 1
  BY <1>3, <1>4
<1>7. OutOnce'
  <2>1. \A k \in 1..Len(out) : out[k] # x /\ out[k] \in 1..Dealt
    BY <1>6 DEF Out, In, Placed, OutOnce
  <2>2. \A k, l \in 1..Len(out) : out[k] = out[l] => k = l
    BY DEF Placed, OutOnce
  <2>3. \A k, l \in 1..Len(out') : out'[k] = out'[l] => k = l
    BY <1>4, <1>p, <2>1, <2>2
  <2>4. \A k \in 1..Len(out') : out'[k] \in 1..Dealt
    BY <1>2, <1>4, <1>p, <2>1
  <2> QED
    BY <1>2, <2>3, <2>4 DEF OutOnce
<1>8. TrailsApart'
  <2>1. ASSUME NEW i \in Lanes, NEW e \in 1..Dealt, Has(i, e)'
        PROVE  ~Out(e)' /\ \A m \in Lanes : Has(m, e)' => i = m
    <3>1. Has(i, e) /\ e # x /\ \A m \in Lanes : Has(m, e)' => Has(m, e)
      BY <1>2, <1>6, <2>1
    <3> QED
      BY <1>5, <3>1 DEF Placed, TrailsApart
  <2> QED
    BY <1>2, <2>1 DEF TrailsApart
<1>9. Covered'
  <2>1. Picking
    BY <1>1 DEF Picking, MoreToMerge, Merged
  <2>2. ASSUME NEW e \in 1..Dealt PROVE Out(e)' \/ \E i \in Lanes : Has(i, e)'
    BY <1>2, <1>5, <2>1 DEF Placed, Covered
  <2> QED
    BY <1>2, <2>2 DEF Covered
<1>10. InputOrder'
  <2>1. ASSUME Policy # "balance", NEW k \in 1..Len(out') PROVE out'[k] = k
    <3>1. \A l \in 1..Len(out) : out[l] = l
      BY <2>1 DEF Placed, InputOrder
    <3> QED
      BY <1>4, <1>n, <1>p, <2>1, <3>1
  <2> QED
    BY <1>5, <2>1 DEF InputOrder
<1>11. AtHome'
  <2>1. \A e : Home(e)' = Home(e)
    BY <1>1 DEF Home, Policy
  <2> QED
    BY <1>2, <1>5, <2>1 DEF Placed, AtHome
<1> QED
  BY <1>2, <1>7, <1>8, <1>9, <1>10, <1>11 DEF Placed

LEMMA EndInputPlaced ==
    ASSUME TypeOK, Placed, EndInput
    PROVE  Placed'
<1>1. /\ sc.pc = "deal" /\ sc.sent = ToDeal /\ sc'.pc = "end" /\ sc'.id = 0
      /\ lane' = lane /\ data' = data /\ held' = held /\ out' = out /\ call' = call
  BY DEF EndInput
<1>2. Dealt' = Dealt
  BY <1>1 DEF Dealt, ToDeal, Policy
<1>3. ASSUME NEW i \in Lanes PROVE EndDealt(i)' <=> EndDealt(i)
  <2>1. ~(i < 0)
    BY LanesFacts
  <2> QED
    BY <1>1, <2>1 DEF EndDealt
<1>4. \A i \in Lanes : Trail(i)' = Trail(i)
  BY <1>1 DEF Trail
<1> QED
  BY <1>1, <1>2, <1>3, <1>4, KeepPlaced

LEMMA OthersPlaced ==
    ASSUME Placed, data' = data, held' = held, lane' = lane, out' = out, call' = call, sc'.pc = sc.pc,
           sc'.sent = sc.sent, sc.pc = "end" => sc'.id = sc.id
    PROVE  Placed'
<1>1. Dealt' = Dealt /\ \A i \in Lanes : Trail(i)' = Trail(i)
  BY DEF Dealt, ToDeal, Policy, Trail
<1>2. \A i \in Lanes : EndDealt(i)' <=> EndDealt(i)
  BY DEF EndDealt
<1> QED
  BY <1>1, <1>2, KeepPlaced

LEMMA PlacedStep ==
    ASSUME TypeOK, Places, Next
    PROVE  Placed'
<1>1. Placed /\ Turns /\ \A i \in Lanes : UnitOK(i)
  BY DEF Places
<1>2. CASE Dealing
  <2>1. CASE Deal
    BY <1>1, <2>1, DealPlaced
  <2>2. CASE PassOver
    <3>1. sc'.pc = sc.pc /\ sc'.sent = sc.sent /\ sc.pc = "deal"
      BY <2>2 DEF PassOver, TypeOK
    <3> QED
      BY <1>1, <2>2, <3>1, OthersPlaced DEF PassOver
  <2>3. CASE EndInput
    BY <1>1, <2>3, EndInputPlaced
  <2>4. CASE EndLane
    BY <1>1, <2>4, EndLanePlaced
  <2> QED
    BY <1>2, <2>1, <2>2, <2>3, <2>4 DEF Dealing
<1>3. ASSUME NEW j \in Lanes, Unit(j) PROVE Placed'
  <2>1. \A i \in Lanes : Trail(i)' = Trail(i)
    BY <1>1, <1>3, UnitKeepsTrails
  <2>2. out' = out /\ call' = call /\ sc' = sc
    BY <1>3 DEF Unit, UnitRead, UnitWrite, UnitFlag, UnitEnd
  <2>3. Dealt' = Dealt /\ \A i \in Lanes : EndDealt(i)' <=> EndDealt(i)
    BY <2>2 DEF Dealt, ToDeal, Policy, EndDealt
  <2> QED
    BY <1>1, <2>1, <2>2, <2>3, KeepPlaced
<1>4. CASE Merging
  <2>1. ASSUME NEW j \in Lanes, FirstFlag(j) PROVE Placed'
    BY <1>1, <2>1, OthersPlaced DEF FirstFlag
  <2>2. ASSUME NEW j \in Lanes, Drop(j) PROVE Placed'
    BY <1>1, <2>2, DropPlaced
  <2>3. CASE TakeElement
    <3>1. Source \in Lanes
      BY <2>3, SourceIsLane DEF TakeElement
    <3> QED
      BY <1>1, <2>3, <3>1, TakeElementPlaced
  <2>4. CASE NoElement \/ TakeFlag \/ NoFlag \/ EndMerge
    BY <1>1, <2>4, OthersPlaced DEF NoElement, TakeFlag, NoFlag, EndMerge
  <2> QED
    BY <1>4, <2>1, <2>2, <2>3, <2>4 DEF Merging
<1>5. CASE Finished
  BY <1>1, <1>5, OthersPlaced DEF Finished, vars
<1> QED
  BY <1>2, <1>3, <1>4, <1>5 DEF Next

-----------------------------------------------------------------------------
(* Units, turns and counts *)

LEMMA UnitOKStep ==
    ASSUME TypeOK, \A i \in Lanes : UnitOK(i), Next, NEW i \in Lanes
    PROVE  UnitOK(i)'
<1>1. UnitOK(i) /\ data[i] \in Seq(Nat) /\ held[i] \in Seq(Nat)
  BY DEF TypeOK
<1>2. CASE data'[i] = data[i] /\ held'[i] = held[i]
  BY <1>1, <1>2 DEF UnitOK
<1>3. CASE UnitRead(i)
  <2>1. data'[i] = data[i] /\ held'[i] = <<Head(lane[i])>>
    BY <1>3 DEF UnitRead, TypeOK
  <2>2. Len(<<Head(lane[i])>>) <= 1
    OBVIOUS
  <2> QED
    BY <1>1, <2>1, <2>2 DEF UnitOK
<1>4. CASE UnitWrite(i)
  <2>1. /\ data'[i] = Append(data[i], held[i][1]) /\ held'[i] = << >>
        /\ held[i] # << >> /\ held[i] # <<End>>
    BY <1>4 DEF UnitWrite, TypeOK
  <2>2. Len(held[i]) = 1 /\ held[i][1] \in Nat /\ held[i] = <<held[i][1]>>
    <3>1. Len(held[i]) \in Nat /\ Len(held[i]) # 0 /\ Len(held[i]) <= 1
      BY <1>1, <2>1 DEF UnitOK
    <3>2. \A n \in Nat : n # 0 /\ n <= 1 => n = 1
      OBVIOUS
    <3>3. Len(held[i]) = 1
      BY <3>1, <3>2
    <3> QED
      BY <1>1, <3>3
  <2>3. held[i][1] # End
    BY <2>1, <2>2
  <2> DEFINE x == held[i][1]
             d == data[i]
             e == Append(d, x)
  <2>4. Len(e) = Len(d) + 1 /\ e[Len(d) + 1] = x /\ Len(d) \in Nat /\ \A k \in 1..Len(d) : e[k] = d[k]
    BY <1>1, <2>2, AppendFacts
  <2>5. \A k \in 1..Len(d) : d[k] # End
    BY <1>1 DEF UnitOK
  <2>6. x # End /\ data'[i] = e
    BY <2>1, <2>3
  <2> HIDE DEF e, d, x
  <2>7. \A k \in 1..Len(e) : e[k] # End
    <3>1. \A k \in 1..Len(e) : k \in 1..Len(d) \/ k = Len(d) + 1
      BY <2>4
    <3> QED
      BY <2>4, <2>5, <2>6, <3>1
  <2>8. Len(<< >>) <= 1
    OBVIOUS
  <2> QED
    BY <2>1, <2>6, <2>7, <2>8 DEF UnitOK
<1>5. CASE data[i] # << >> /\ data'[i] = Tail(data[i]) /\ held'[i] = held[i]
  <2>1. /\ Len(Tail(data[i])) = Len(data[i]) - 1 /\ Len(data[i]) \in Nat
        /\ \A k \in 1..Len(Tail(data[i])) : Tail(data[i])[k] = data[i][k + 1]
    BY <1>1, <1>5, TailFacts
  <2>2. \A k \in 1..Len(Tail(data[i])) : k + 1 \in 1..Len(data[i])
    BY <2>1
  <2> QED
    BY <1>1, <1>5, <2>1, <2>2 DEF UnitOK
<1>6. CASE Dealing \/ Finished
  BY <1>2, <1>6 DEF Dealing, Deal, PassOver, EndInput, EndLane, Finished, vars
<1>7. ASSUME NEW j \in Lanes, Unit(j) PROVE UnitOK(i)'
  <2>1. CASE i # j
    <3>1. data'[i] = data[i] /\ held'[i] = held[i]
      BY <1>7, <2>1 DEF Unit, UnitRead, UnitWrite, UnitFlag, UnitEnd, TypeOK
    <3> QED
      BY <1>2, <3>1
  <2>2. CASE UnitFlag(j) \/ UnitEnd(j)
    BY <1>2, <2>2 DEF UnitFlag, UnitEnd
  <2> QED
    BY <1>3, <1>4, <1>7, <2>1, <2>2 DEF Unit
<1>8. CASE Merging
  <2>1. ASSUME NEW j \in Lanes, FirstFlag(j) PROVE UnitOK(i)'
    BY <1>2, <2>1 DEF FirstFlag
  <2>2. ASSUME NEW j \in Lanes, data[j] # << >>, data' = [data EXCEPT ![j] = Tail(@)], held' = held
        PROVE  UnitOK(i)'
    <3>1. data'[i] = IF i = j THEN Tail(data[i]) ELSE data[i]
      BY <2>2 DEF TypeOK
    <3> QED
      BY <1>2, <1>5, <2>2, <3>1
  <2>3. ASSUME NEW j \in Lanes, Drop(j) PROVE UnitOK(i)'
    BY <2>2, <2>3 DEF Drop
  <2>4. CASE TakeElement
    <3>1. Source \in Lanes
      BY <2>4, SourceIsLane DEF TakeElement
    <3> QED
      BY <2>2, <2>4, <3>1 DEF TakeElement
  <2>5. CASE NoElement \/ TakeFlag \/ NoFlag \/ EndMerge
    BY <1>2, <2>5 DEF NoElement, TakeFlag, NoFlag, EndMerge
  <2> QED
    BY <1>8, <2>1, <2>3, <2>4, <2>5 DEF Merging
<1> QED
  BY <1>6, <1>7, <1>8 DEF Next

LEMMA NextTurn ==
    ASSUME NEW k \in Nat
    PROVE  NextLane(k % NStrm) = (k + 1) % NStrm
<1> DEFINE n == NStrm
           r == k % n
           q == k \div n
<1>1. n \in Nat /\ n > 0
  BY LanesFacts
<1>2. k = n * q + r /\ r \in 0..n - 1 /\ q \in Nat
  BY <1>1
<1>3. CASE r + 1 = n
  <2>1. k + 1 = n * (q + 1) + 0
    BY <1>1, <1>2, <1>3
  <2>2. (n * (q + 1) + 0) % n = 0
    BY <1>1, <1>2
  <2> QED
    BY <1>3, <2>1, <2>2 DEF NextLane
<1>4. CASE r + 1 # n
  <2>1. k + 1 = n * q + (r + 1) /\ r + 1 \in 0..n - 1
    BY <1>1, <1>2, <1>4
  <2>2. (n * q + (r + 1)) % n = r + 1
    BY <1>1, <1>2, <2>1
  <2> QED
    BY <1>4, <2>1, <2>2 DEF NextLane
<1> QED
  BY <1>3, <1>4

LEMMA TurnsStep ==
    ASSUME TypeOK, Turns, Counts, Next
    PROVE  Turns'
<1> SUFFICES ASSUME Policy' = "turn" PROVE Turns'
  BY DEF Turns
<1>1. call' = call /\ Policy = "turn"
  BY DEF Next, Dealing, Deal, PassOver, EndInput, EndLane, Unit, UnitRead, UnitWrite, UnitFlag,
         UnitEnd, Merging, FirstFlag, Drop, TakeElement, NoElement, TakeFlag, NoFlag, EndMerge,
         Finished, vars, Policy
<1>2. /\ sc.pc = "deal" => sc.id = sc.sent % NStrm
      /\ mg.pc \in {"first", "element"} => mg.id = Len(out) % NStrm
      /\ mg.pc = "flag" => Len(out) > 0 /\ mg.id = (Len(out) - 1) % NStrm
  BY <1>1 DEF Turns
<1>3. CASE Deal
  <2>1. sc.pc = "deal" /\ sc'.id = NextLane(sc.id) /\ sc'.sent = sc.sent + 1 /\ sc.sent \in Nat
        /\ mg' = mg /\ out' = out
    BY <1>3 DEF Deal, TypeOK
  <2>2. sc'.id = sc'.sent % NStrm
    BY <1>2, <2>1, NextTurn
  <2> QED
    BY <1>2, <2>1, <2>2 DEF Turns
<1>4. CASE EndInput \/ EndLane
  <2>1. sc'.pc # "deal" /\ mg' = mg /\ out' = out
    BY <1>4 DEF EndInput, EndLane, TypeOK
  <2> QED
    BY <1>2, <2>1 DEF Turns
<1>5. CASE sc' = sc /\ mg' = mg /\ out' = out
  BY <1>2, <1>5 DEF Turns
<1>6. ASSUME NEW i \in Lanes, FirstFlag(i) PROVE Turns'
  <2>1. /\ mg.pc = "first" /\ mg'.pc \in {"first", "element"} /\ mg'.id = mg.id
        /\ sc' = sc /\ out' = out
    BY <1>6 DEF FirstFlag, TypeOK
  <2> QED
    BY <1>2, <2>1 DEF Turns
<1>7. CASE TakeElement
  <2>1. mg.pc = "element" /\ mg'.pc = "flag" /\ mg'.id = mg.id /\ sc' = sc
        /\ out' = Append(out, Head(data[Source]))
    BY <1>1, <1>7 DEF TakeElement, TypeOK, Source
  <2>2. Len(out') = Len(out) + 1 /\ Len(out) \in Nat
    BY <2>1, CallFacts
  <2>3. Len(out') - 1 = Len(out) /\ Len(out') > 0
    BY <2>2
  <2> QED
    BY <1>2, <2>1, <2>3 DEF Turns
<1>8. CASE TakeFlag
  <2>1. mg.pc = "flag" /\ mg'.pc = "element" /\ mg'.id = NextLane(mg.id) /\ sc' = sc /\ out' = out
    BY <1>8 DEF TakeFlag, AfterFlag, TypeOK
  <2>2. Len(out) \in Nat /\ Len(out) > 0 /\ mg.id = (Len(out) - 1) % NStrm
    BY <1>2, <2>1, CallFacts
  <2>3. Len(out) - 1 \in Nat /\ (Len(out) - 1) + 1 = Len(out)
    BY <2>2
  <2>4. mg'.id = Len(out) % NStrm
    BY <2>1, <2>2, <2>3, NextTurn
  <2> QED
    BY <1>2, <2>1, <2>4 DEF Turns
<1>9. CASE EndMerge
  <2>1. mg'.pc = "done" /\ sc' = sc /\ out' = out
    BY <1>9 DEF EndMerge, TypeOK
  <2> QED
    BY <1>2, <2>1 DEF Turns
<1> QED
  BY <1>1, <1>3, <1>4, <1>5, <1>6, <1>7, <1>8, <1>9
     DEF Next, Dealing, PassOver, Unit, UnitRead, UnitWrite, UnitFlag, UnitEnd, Merging, Drop,
         NoElement, NoFlag, Finished, vars

LEMMA CountsStep ==
    ASSUME TypeOK, Counts, Next
    PROVE  Counts'
<1>1. call' = call
  BY DEF Next, Dealing, Deal, PassOver, EndInput, EndLane, Unit, UnitRead, UnitWrite, UnitFlag,
         UnitEnd, Merging, FirstFlag, Drop, TakeElement, NoElement, TakeFlag, NoFlag, EndMerge,
         Finished, vars
<1>2. Policy' = Policy /\ ToDeal' = ToDeal
  BY <1>1 DEF Policy, ToDeal
<1>3. /\ sc.pc = "deal" => sc.sent <= ToDeal
      /\ Policy = "tag" => Len(out) <= call.picks
      /\ mg.pc = "first" => Len(out) = 0
      /\ mg.pc = "done" => mg.ends = Lanes /\ ~MoreToMerge
  BY DEF Counts
<1>4. ASSUME mg' = mg, out' = out PROVE MoreToMerge' = MoreToMerge
  BY <1>1, <1>2, <1>4 DEF MoreToMerge, Merged
<1>5. CASE Deal
  <2>1. sc.pc = "deal" /\ sc'.sent = sc.sent + 1 /\ sc.sent < ToDeal /\ mg' = mg /\ out' = out
    BY <1>5 DEF Deal, TypeOK
  <2>2. sc'.sent <= ToDeal
    BY <2>1, CallFacts
  <2> QED
    BY <1>1, <1>2, <1>3, <1>4, <2>1, <2>2 DEF Counts
<1>6. CASE PassOver \/ EndInput \/ EndLane
  <2>1. mg' = mg /\ out' = out /\ (sc'.pc = "deal" => sc.pc = "deal" /\ sc'.sent = sc.sent)
    BY <1>6, SMTT(30) DEF PassOver, EndInput, EndLane, TypeOK
  <2> QED
    BY <1>1, <1>2, <1>3, <1>4, <2>1 DEF Counts
<1>7. CASE sc' = sc /\ mg' = mg /\ out' = out
  BY <1>1, <1>2, <1>3, <1>4, <1>7 DEF Counts
<1>8. CASE sc' = sc /\ out' = out /\ mg'.pc # "done" /\ (mg'.pc = "first" => mg.pc = "first")
  BY <1>1, <1>2, <1>3, <1>8 DEF Counts
<1>9. CASE TakeElement
  <2>1. sc' = sc /\ mg'.pc = "flag" /\ out' = Append(out, Head(data[Source])) /\ MoreToMerge
    BY <1>9 DEF TakeElement, TypeOK
  <2>2. Len(out') = Len(out) + 1 /\ Len(out) \in Nat /\ call.picks \in Nat
    BY <2>1, CallFacts
  <2>3. Policy = "tag" => Len(out') <= call.picks
    BY <2>1, <2>2 DEF MoreToMerge, Merged
  <2> QED
    BY <1>1, <1>2, <1>3, <2>1, <2>3 DEF Counts
<1>10. CASE EndMerge
  <2>1. sc' = sc /\ mg'.pc = "done" /\ mg'.ends = mg.ends /\ mg.ends = Lanes /\ out' = out
        /\ ~MoreToMerge
    BY <1>10 DEF EndMerge, TypeOK
  <2>2. ~MoreToMerge'
    BY <1>1, <1>2, <2>1 DEF MoreToMerge, Merged
  <2> QED
    BY <1>1, <1>2, <1>3, <2>1, <2>2 DEF Counts
<1>11. ASSUME NEW i \in Lanes, FirstFlag(i) \/ Drop(i) PROVE Counts'
  <2>1. sc' = sc /\ out' = out /\ mg'.pc # "done" /\ (mg'.pc = "first" => mg.pc = "first")
    BY <1>11 DEF FirstFlag, Drop, TypeOK
  <2> QED
    BY <1>8, <2>1
<1>12. CASE NoElement \/ TakeFlag \/ NoFlag
  <2>1. sc' = sc /\ out' = out /\ mg'.pc # "done" /\ mg'.pc # "first"
    BY <1>12 DEF NoElement, TakeFlag, NoFlag, AfterFlag, TypeOK
  <2> QED
    BY <1>8, <2>1
<1> QED
  BY <1>5, <1>6, <1>7, <1>9, <1>10, <1>11, <1>12
     DEF Next, Dealing, Unit, UnitRead, UnitWrite, UnitFlag, UnitEnd, Merging, Finished, vars

LEMMA PlacesInit == Init => Places
<1> SUFFICES ASSUME Init PROVE Places
  OBVIOUS
<1>1. Placed
  BY InitPlaced
<1>2. ASSUME NEW i \in Lanes PROVE UnitOK(i)
  BY DEF Init, UnitOK
<1>3. /\ sc.pc = "deal" /\ sc.sent = 0 /\ sc.id = 0 /\ mg.pc = "first" /\ mg.id = 0
      /\ out = << >> /\ Len(out) = 0
  BY DEF Init
<1>4. Turns
  <2>1. 0 % NStrm = 0
    BY LanesFacts
  <2> QED
    BY <1>3, <2>1 DEF Turns
<1>5. Counts
  BY <1>3, TypeInit, CallFacts DEF Counts
<1> QED
  BY <1>1, <1>2, <1>4, <1>5 DEF Places

LEMMA PlacesStep == TypeOK /\ Places /\ [Next]_vars => Places'
<1> SUFFICES ASSUME TypeOK, Places, [Next]_vars PROVE Places'
  OBVIOUS
<1>1. CASE Next
  BY <1>1, PlacedStep, UnitOKStep, TurnsStep, CountsStep DEF Places
<1>2. CASE UNCHANGED vars
  <2>1. Placed'
    BY <1>2, OthersPlaced DEF Places, vars
  <2>2. (\A i \in Lanes : UnitOK(i)') /\ Turns' /\ Counts'
    BY <1>2 DEF vars, Places, UnitOK, Turns, Counts, Policy, ToDeal, MoreToMerge, Merged
  <2> QED
    BY <2>1, <2>2 DEF Places
<1> QED
  BY <1>1, <1>2

(* In every reachable state each element that has been dealt is in exactly *)
(* one place, in the order it was dealt, until the rest is dropped.        *)
THEOREM PlacesAlways == Spec => []Places
BY PlacesInit, PlacesStep, TypeCorrect, PTL DEF Spec

(* Going round or by tags, the merge gives back the order of the input,    *)
(* whatever the speed of the units: the first element of the lane it is    *)
(* about to read is always the next one of the input.                      *)
THEOREM MergedInInputOrder == Spec => []InputOrder
<1>1. Places => InputOrder
  BY DEF Places, Placed
<1> QED
  BY <1>1, PlacesAlways, PTL

-----------------------------------------------------------------------------
(* The end of a call *)

LEMMA LaneIsEmpty ==
    ASSUME Inv, Places, NEW i \in mg.ends
    PROVE  /\ i \in Lanes /\ lane[i] = << >> /\ data[i] = << >> /\ flag[i] = << >>
           /\ sc.pc # "deal" /\ \A e \in 1..Dealt : ~Has(i, e)
<1>1. /\ TypeOK /\ i \in Lanes /\ LaneInv(i)
      /\ lane[i] \in Seq(Nat) /\ data[i] \in Seq(Nat) /\ flag[i] \in Seq(BOOLEAN)
  BY DEF Inv, TypeOK
<1>2. unit[i].ended /\ Len(flag[i]) = 0 /\ Len(data[i]) = 0 /\ held[i] = <<End>>
  BY <1>1 DEF LaneInv, EndFlagLast, UnitInStep
<1>3. data[i] = << >> /\ flag[i] = << >>
  BY <1>1, <1>2
<1>4. Trail(i) = <<End>> \o lane[i]
  BY <1>1, <1>2, <1>3 DEF Trail
<1>5. /\ Len(Trail(i)) = 1 + Len(lane[i]) /\ Trail(i)[1] = End /\ Len(lane[i]) \in Nat
  <2>1. \A s \in Seq(Nat) : /\ Len(<<End>> \o s) = 1 + Len(s) /\ (<<End>> \o s)[1] = End
                            /\ Len(s) \in Nat
    BY DEF End
  <2> QED
    BY <1>1, <1>4, <2>1
<1>6. Rising(Trail(i), Dealt) /\ (EndDealt(i) <=> HasEnd(Trail(i)))
  BY <1>1 DEF Places, Placed, Trails
<1>7. 1 \in 1..Len(Trail(i))
  BY <1>5
<1>8. Len(Trail(i)) = 1
  BY <1>5, <1>6, <1>7 DEF Rising
<1>9. lane[i] = << >>
  <2>0. \A m \in Nat : 1 + m = 1 => m = 0
    OBVIOUS
  <2>1. Len(lane[i]) = 0
    BY <1>5, <1>8, <2>0
  <2> QED
    BY <1>1, <2>1
<1>10. sc.pc # "deal"
  BY <1>5, <1>6, <1>8 DEF HasEnd, EndDealt
<1>11. ASSUME NEW e \in 1..Dealt PROVE ~Has(i, e)
  BY <1>5, <1>8 DEF Has, In, End
<1> QED
  BY <1>1, <1>3, <1>9, <1>10, <1>11

(* A sequence that holds each of n numbers once has n of them. *)
LEMMA OnceEach ==
    ASSUME NEW n \in Nat, NEW s \in Seq(Nat),
           \A k \in 1..Len(s) : s[k] \in 1..n,
           \A k, l \in 1..Len(s) : s[k] = s[l] => k = l,
           \A e \in 1..n : In(s, e)
    PROVE  Len(s) = n /\ {s[k] : k \in 1..n} = 1..n
<1>1. Len(s) \in Nat
  OBVIOUS
<1>2. s \in [1..Len(s) -> 1..n]
  BY LenProperties
<1>3. s \in Bijection(1..Len(s), 1..n)
  <2>1. s \in Injection(1..Len(s), 1..n)
    BY <1>2 DEF Injection, IsInjective
  <2>2. s \in Surjection(1..Len(s), 1..n)
    BY <1>2 DEF Surjection, In
  <2> QED
    BY <2>1, <2>2 DEF Bijection
<1>4. Cardinality(1..n) = Len(s)
  BY <1>1, <1>3, FS_CountingElements DEF ExistsBijection
<1>5. Cardinality(1..n) = n
  <2>1. Cardinality(1..n) = IF 1 > n THEN 0 ELSE n - 1 + 1
    BY FS_Interval
  <2> QED
    BY <2>1
<1>6. Len(s) = n
  BY <1>4, <1>5
<1> QED
  BY <1>6 DEF In

LEMMA AllMergedHolds == Inv /\ Places => AllMerged
<1> SUFFICES ASSUME Inv, Places, mg.pc = "done" PROVE AllMerged
  BY DEF AllMerged
<1>1. mg.ends = Lanes /\ ~MoreToMerge /\ TypeOK
  BY DEF Places, Counts, Inv
<1>2. \A i \in Lanes : lane[i] = << >> /\ data[i] = << >> /\ flag[i] = << >>
  BY <1>1, LaneIsEmpty
<1>3. sc.pc # "deal" /\ \A i \in Lanes, e \in 1..Dealt : ~Has(i, e)
  BY <1>1, LaneIsEmpty, LanesFacts
<1>4. CASE Policy = "tag"
  <2>1. Len(out) = call.picks
    BY <1>1, <1>4, CallFacts DEF Places, Counts, MoreToMerge, Merged
  <2>2. \A k \in 1..call.picks : out[k] = k
    BY <1>4, <2>1 DEF Places, Placed, InputOrder
  <2>3. {out[k] : k \in 1..call.picks} = 1..call.picks
    BY <2>2
  <2> QED
    BY <1>2, <1>4, <2>1, <2>3 DEF AllMerged
<1>5. CASE Policy # "tag"
  <2>1. Dealt = call.n /\ call.n \in Nat /\ out \in Seq(Nat)
    BY <1>1, <1>3, <1>5, CallFacts DEF Dealt, ToDeal
  <2>2. \A e \in 1..call.n : In(out, e)
    BY <1>3, <1>5, <2>1 DEF Places, Placed, Covered, Picking, Out
  <2>3. /\ \A k, l \in 1..Len(out) : out[k] = out[l] => k = l
        /\ \A k \in 1..Len(out) : out[k] \in 1..call.n
    BY <2>1 DEF Places, Placed, OutOnce
  <2>4. Len(out) = call.n /\ {out[k] : k \in 1..call.n} = 1..call.n
    BY <2>1, <2>2, <2>3, OnceEach
  <2> QED
    BY <1>2, <1>5, <2>4 DEF AllMerged
<1> QED
  BY <1>4, <1>5

(* A merge that ends has merged every element it was to merge, once, and   *)
(* has left none in a FIFO; for every number of lanes, every depth, all    *)
(* selectors and every tagging.                                            *)
THEOREM EverythingMerged == Spec => []AllMerged
BY AllMergedHolds, InvAlways, PlacesAlways, PTL
=============================================================================
