----------------------------- MODULE StreamPool -----------------------------
(***************************************************************************)
(* A pool of processing units: streamOneToN deals the elements of one      *)
(* stream to the lanes of the units, streamNToOne merges what the units    *)
(* give. These are the overloads for an element type, under the three      *)
(* selectors: LoadBalanceT, RoundRobinT and TagSelectT.                    *)
(*                                                                         *)
(*             |--lane[0]--> unit 0 --data[0], flag[0]--|                  *)
(*   1..n -->--|                                        |--> out           *)
(*             |--lane[1]--> unit 1 --data[1], flag[1]--|                  *)
(*                                                                         *)
(* An element is its number in the input. A unit reads its lane blocking,  *)
(* an entry of a lane is an element with its flag, or End; behind the      *)
(* units elements and flags are FIFOs of their own.                        *)
(***************************************************************************)
EXTENDS Integers, Sequences, FiniteSets

CONSTANTS
    NStrm,    \* _NStrm, or 2 to the power of _WTagStrm
    Depth,    \* depth of each FIFO
    Calls     \* [policy, n, tags, picks]: the selector, the elements, the tags
              \* of the dealing side, how many of these the merging side gets

Lanes == 0..NStrm - 1
End == 0
Policies == {"balance", "turn", "tag"}

ASSUME PoolAssumption ==
    /\ NStrm \in Nat \ {0} /\ Depth \in Nat \ {0}
    /\ Calls \subseteq [policy : Policies, n : Nat, tags : Seq(Lanes), picks : Nat]
    /\ \A c \in Calls : c.picks <= Len(c.tags) /\ Len(c.tags) <= c.n

VARIABLES
    call,   \* the input
    sc,     \* the dealing process: sent, the elements read; id; pc
    lane,   \* data_inner_strms
    held,   \* what a unit has read and not written yet
    unit,   \* elements and flags a unit has written; whether it has ended
    data,   \* new_data_strms
    flag,   \* e_new_data_strms
    mg,     \* the merging process: ends, the lanes not asked yet, id, pc
    out     \* the elements written to ostrm

Policy == call.policy

vars == <<call, sc, lane, held, unit, data, flag, mg, out>>

Init ==
    /\ call \in Calls
    /\ sc = [pc |-> "deal", sent |-> 0, id |-> 0]
    /\ lane = [i \in Lanes |-> << >>]
    /\ held = [i \in Lanes |-> << >>]
    /\ unit = [i \in Lanes |-> [elements |-> 0, flags |-> 0, ended |-> FALSE]]
    /\ data = [i \in Lanes |-> << >>]
    /\ flag = [i \in Lanes |-> << >>]
    /\ mg = [pc |-> "first", ends |-> {}, asked |-> {}, id |-> 0]
    /\ out = << >>

NextLaneLate(i) == IF i = NStrm THEN 0 ELSE i + 1
NextLane(i) == IF i + 1 = NStrm THEN 0 ELSE i + 1

-----------------------------------------------------------------------------
(* Dealing *)

(* The lane of the next element, which a full lane makes wait.             *)
TargetInTurn == sc.id
Target == IF Policy = "tag" THEN call.tags[sc.sent + 1] ELSE sc.id

ToDeal == IF Policy = "tag" THEN Len(call.tags) ELSE call.n

Deal ==
    /\ sc.pc = "deal"
    /\ sc.sent < ToDeal
    /\ Len(lane[Target]) < Depth
    /\ lane' = [lane EXCEPT ![Target] = Append(@, sc.sent + 1)]
    /\ sc' = [sc EXCEPT !.sent = @ + 1, !.id = NextLane(@)]
    /\ UNCHANGED <<call, held, unit, data, flag, mg, out>>

(* Only load balancing passes a full lane over. *)
PassOver ==
    /\ Policy = "balance"
    /\ sc.pc = "deal"
    /\ sc.sent < ToDeal
    /\ Len(lane[sc.id]) = Depth
    /\ sc' = [sc EXCEPT !.id = NextLane(@)]
    /\ UNCHANGED <<call, lane, held, unit, data, flag, mg, out>>

(* Elements without a tag are read and dropped; the end flags follow, in   *)
(* turn, id counting them.                                                 *)
EndInput ==
    /\ sc.pc = "deal"
    /\ sc.sent = ToDeal
    /\ sc' = [pc |-> "end", sent |-> call.n, id |-> 0]
    /\ UNCHANGED <<call, lane, held, unit, data, flag, mg, out>>

EndLane ==
    /\ sc.pc = "end"
    /\ Len(lane[sc.id]) < Depth
    /\ lane' = [lane EXCEPT ![sc.id] = Append(@, End)]
    /\ sc' = IF sc.id = NStrm - 1 THEN [sc EXCEPT !.pc = "done"] ELSE [sc EXCEPT !.id = @ + 1]
    /\ UNCHANGED <<call, held, unit, data, flag, mg, out>>

Dealing == Deal \/ PassOver \/ EndInput \/ EndLane

-----------------------------------------------------------------------------
(* A unit, process_core: it writes an element, then the flag of it.        *)

UnitRead(i) ==
    /\ held[i] = << >>
    /\ unit[i].flags = unit[i].elements
    /\ lane[i] # << >>
    /\ held' = [held EXCEPT ![i] = <<Head(lane[i])>>]
    /\ lane' = [lane EXCEPT ![i] = Tail(@)]
    /\ UNCHANGED <<call, sc, unit, data, flag, mg, out>>

FlagDueEarly(i) == held[i] # << >> /\ held[i] # <<End>> /\ unit[i].flags = unit[i].elements
FlagDue(i) == unit[i].flags < unit[i].elements

UnitWrite(i) ==
    /\ held[i] \notin {<< >>, <<End>>}
    /\ ~FlagDue(i)
    /\ Len(data[i]) < Depth
    /\ data' = [data EXCEPT ![i] = Append(@, held[i][1])]
    /\ held' = [held EXCEPT ![i] = << >>]
    /\ unit' = [unit EXCEPT ![i].elements = @ + 1]
    /\ UNCHANGED <<call, sc, lane, flag, mg, out>>

UnitFlag(i) ==
    /\ FlagDue(i)
    /\ Len(flag[i]) < Depth
    /\ flag' = [flag EXCEPT ![i] = Append(@, FALSE)]
    /\ unit' = [unit EXCEPT ![i].flags = @ + 1]
    /\ UNCHANGED <<call, sc, lane, held, data, mg, out>>

UnitEnd(i) ==
    /\ held[i] = <<End>>
    /\ ~unit[i].ended
    /\ Len(flag[i]) < Depth
    /\ flag' = [flag EXCEPT ![i] = Append(@, TRUE)]
    /\ unit' = [unit EXCEPT ![i].ended = TRUE]
    /\ UNCHANGED <<call, sc, lane, held, data, mg, out>>

Unit(i) == UnitRead(i) \/ UnitWrite(i) \/ UnitFlag(i) \/ UnitEnd(i)

-----------------------------------------------------------------------------
(* Merging *)

EndsWithAll(i) == IF Head(flag[i]) THEN Lanes ELSE mg.ends
EndsWith(i) == IF Head(flag[i]) THEN mg.ends \cup {i} ELSE mg.ends

(* Before anything is merged, one flag of every lane is waited for.        *)
FirstFlag(i) ==
    /\ mg.pc = "first"
    /\ i \notin mg.asked
    /\ flag[i] # << >>
    /\ flag' = [flag EXCEPT ![i] = Tail(@)]
    /\ mg' = [mg EXCEPT !.ends = EndsWith(i), !.asked = @ \cup {i},
                        !.pc = IF mg.asked \cup {i} = Lanes THEN "element" ELSE "first"]
    /\ UNCHANGED <<call, sc, lane, held, unit, data, out>>

(* The lane to take from: tags say it, the others go round.                *)
Merged == Len(out)
Source == IF Policy = "tag" THEN call.tags[Merged + 1] ELSE mg.id
MoreToMerge == IF Policy = "tag" THEN Merged < call.picks ELSE mg.ends # Lanes

TakeElement ==
    /\ mg.pc = "element"
    /\ MoreToMerge
    /\ Source \notin mg.ends
    /\ data[Source] # << >>
    /\ out' = Append(out, Head(data[Source]))
    /\ data' = [data EXCEPT ![Source] = Tail(@)]
    /\ mg' = [mg EXCEPT !.pc = "flag", !.id = Source]
    /\ UNCHANGED <<call, sc, lane, held, unit, flag>>

(* Only load balancing goes on without an element, to the flag and to the  *)
(* next lane.                                                              *)
NoElement ==
    /\ Policy = "balance"
    /\ mg.pc = "element"
    /\ MoreToMerge
    /\ mg.id \in mg.ends \/ data[mg.id] = << >>
    /\ mg' = [mg EXCEPT !.pc = "flag"]
    /\ UNCHANGED <<call, sc, lane, held, unit, data, flag, out>>

AfterFlagStay(ends) == [mg EXCEPT !.pc = "element", !.ends = ends,
                                  !.id = IF @ \in ends THEN @ ELSE NextLane(@)]
AfterFlag(ends) == [mg EXCEPT !.pc = "element", !.ends = ends, !.id = NextLane(@)]

TakeFlag ==
    /\ mg.pc = "flag"
    /\ mg.id \notin mg.ends
    /\ flag[mg.id] # << >>
    /\ flag' = [flag EXCEPT ![mg.id] = Tail(@)]
    /\ mg' = AfterFlag(EndsWith(mg.id))
    /\ UNCHANGED <<call, sc, lane, held, unit, data, out>>

NoFlag ==
    /\ Policy = "balance"
    /\ mg.pc = "flag"
    /\ mg.id \in mg.ends \/ flag[mg.id] = << >>
    /\ mg' = AfterFlag(mg.ends)
    /\ UNCHANGED <<call, sc, lane, held, unit, data, flag, out>>

(* When the tags have run out, what the lanes still carry is dropped: a    *)
(* flag and the element before it.                                         *)
Drop(i) ==
    /\ Policy = "tag"
    /\ mg.pc = "element"
    /\ ~MoreToMerge
    /\ i \notin mg.ends
    /\ \A j \in 0..i - 1 : j \in mg.ends
    /\ flag[i] # << >> /\ data[i] # << >>
    /\ flag' = [flag EXCEPT ![i] = Tail(@)]
    /\ data' = [data EXCEPT ![i] = Tail(@)]
    /\ mg' = [mg EXCEPT !.ends = EndsWith(i)]
    /\ UNCHANGED <<call, sc, lane, held, unit, out>>

EndMerge ==
    /\ mg.pc = "element"
    /\ ~MoreToMerge
    /\ mg.ends = Lanes
    /\ mg' = [mg EXCEPT !.pc = "done"]
    /\ UNCHANGED <<call, sc, lane, held, unit, data, flag, out>>

Merging ==
    \/ \E i \in Lanes : FirstFlag(i) \/ Drop(i)
    \/ TakeElement \/ NoElement \/ TakeFlag \/ NoFlag \/ EndMerge

-----------------------------------------------------------------------------
Finished == mg.pc = "done" /\ UNCHANGED vars

Next == Dealing \/ (\E i \in Lanes : Unit(i)) \/ Merging \/ Finished

Spec == Init /\ [][Next]_vars

(* Every process is a loop that never rests; the environment only gives    *)
(* the input and always takes the output.                                  *)
FairSpec ==
    /\ Spec
    /\ WF_vars(Dealing)
    /\ \A i \in Lanes : WF_vars(Unit(i))
    /\ WF_vars(Merging)

-----------------------------------------------------------------------------
(* Correctness *)

TypeOK ==
    /\ call \in Calls
    /\ sc \in [pc : {"deal", "end", "done"}, sent : Nat, id : Lanes]
    /\ lane \in [Lanes -> Seq(Nat)]
    /\ held \in [Lanes -> Seq(Nat)]
    /\ unit \in [Lanes -> [elements : Nat, flags : Nat, ended : BOOLEAN]]
    /\ data \in [Lanes -> Seq(Nat)]
    /\ flag \in [Lanes -> Seq(BOOLEAN)]
    /\ mg \in [pc : {"first", "element", "flag", "done"}, ends : SUBSET Lanes,
               asked : SUBSET Lanes, id : Lanes]
    /\ out \in Seq(Nat)

(* An end flag is never read while an element of its lane is still to      *)
(* come, though the merge reads flags one ahead of elements and, balancing,*)
(* tests the two FIFOs of a lane at different moments.                     *)
NothingBehindEnd ==
    \A i \in mg.ends : data[i] = << >> /\ unit[i].ended

(* Going round or by tags, the merge gives back the order of the input.    *)
InputOrder == Policy # "balance" => \A k \in 1..Len(out) : out[k] = k

(* A merge that ends has merged, once each, all elements that it was to    *)
(* merge, and left nothing in a FIFO that the next call would find.        *)
AllMerged ==
    mg.pc = "done" =>
        /\ LET n == IF Policy = "tag" THEN call.picks ELSE call.n
           IN  Len(out) = n /\ {out[k] : k \in 1..n} = 1..n
        /\ \A i \in Lanes : lane[i] = << >> /\ data[i] = << >> /\ flag[i] = << >>

(* By tags the merge waits for one lane at a time.  What is dealt to       *)
(* another lane meanwhile has to fit there, in the lane, the unit and the  *)
(* FIFO behind it.  The entries dealt are the elements, then the ends.     *)
LaneRoom == Depth + 1 + Depth
Entries == call.tags \o [k \in 1..NStrm |-> k - 1]

(* Done with the elements up to k, the merge waits for entry m: the next   *)
(* one of the lane it took k from, before that the first one of each lane; *)
(* in the end, dropping lane by lane, the end of each.                     *)
AwaitsNext(k, m) ==
    /\ k = 0 \/ Entries[k] = Entries[m]
    /\ \A p \in k + 1..m - 1 : Entries[p] # Entries[m]
AwaitsEnd(k, m) == k = call.picks /\ m > Len(call.tags)

RunsFit ==
    \A k \in 0..call.picks : \A m \in k + 1..Len(Entries) : \A j \in Lanes \ {Entries[m]} :
        \/ AwaitsNext(k, m)
        \/ AwaitsEnd(k, m) /\ j > Entries[m]
        => Cardinality({p \in k + 1..m - 1 : Entries[p] = j}) <= LaneRoom

(* Dealt by load or in turn, the elements always come through.  By tags    *)
(* they do exactly when no lane is given more than fits between two        *)
(* entries the merge waits for: otherwise the pool stops, at all speeds of *)
(* its units.  (The FIFOs have two places or more.)                        *)
Ends ==
    IF Policy = "tag" /\ ~RunsFit THEN [](mg.pc # "done") ELSE <>(mg.pc = "done")
=============================================================================
