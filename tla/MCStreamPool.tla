---------------------------- MODULE MCStreamPool ----------------------------
(***************************************************************************)
(* Instances of StreamPool for TLC.                                        *)
(***************************************************************************)
EXTENDS StreamPool

CONSTANTS
    MaxUntagged,   \* elements of a call without tags
    MaxTagged,     \* elements with a tag in a call with tags
    MaxRun         \* and more of one lane in a row, or in every second place

Untagged == [policy : {"balance", "turn"}, n : 0..MaxUntagged, tags : {<< >>}, picks : {0}]

(* Every tagging, tags for all the elements or for all but one of them.    *)
TagSeqs == UNION {[1..n -> Lanes] : n \in 0..MaxTagged}
Tagged ==
    {c \in [policy : {"tag"}, n : 0..MaxTagged + 1, tags : TagSeqs, picks : 0..MaxTagged] :
        /\ c.n \in Len(c.tags)..Len(c.tags) + 1
        /\ c.picks \in Len(c.tags) - 1..Len(c.tags)}


(* Runs of one lane around the length at which the pool by tags stops: in  *)
(* front of an element of each lane, behind none or one of the last lane;  *)
(* and two lanes that take turns, of which nothing is picked.              *)
Runs ==
    {lead \o [p \in 1..k + 1 |-> IF p <= k THEN i ELSE j] :
        lead \in {<< >>, <<NStrm - 1>>}, k \in MaxRun - 2..MaxRun, i \in Lanes, j \in Lanes}
Mixed == {[p \in 1..2 * k |-> IF p % 2 = 0 THEN i ELSE 0] : k \in MaxRun - 1..MaxRun, i \in Lanes}

TaggedRuns ==
    {c \in [policy : {"tag"}, n : 0..2 * MaxRun, tags : Runs \cup Mixed, picks : 0..2 * MaxRun] :
        /\ c.n = Len(c.tags)
        /\ c.picks \in IF c.tags \in Runs THEN c.n - 1..c.n ELSE {0}}

AllCalls == Untagged \cup Tagged \cup TaggedRuns
=============================================================================
