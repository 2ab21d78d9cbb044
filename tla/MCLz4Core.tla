----------------------------- MODULE MCLz4Core -----------------------------
(***************************************************************************)
(* Instances of Lz4Core for TLC.                                           *)
(***************************************************************************)
EXTENDS Lz4Core

FirstByte(w) == w[1]

Plain(bytes) ==
    [size |-> Len(bytes), recs |-> [k \in 1..Len(bytes) |-> Literal(bytes[k])]]

(* A block that compresses, one in which no two bytes repeat and the       *)
(* literal limit is hit before a match, one with matches that still does   *)
(* not shrink, and the empty one.                                          *)
Periodic == <<0, 1, 0, 1, 0, 1, 0, 1, 0, 1, 0, 1>>
Distinct == <<0, 1, 2, 3, 0, 2, 1, 2, 3, 1>>
Short == <<1, 1, 1, 1, 2>>
Mixed == <<0, 1, 2, 0, 1, 2, 3>>

(* Two calls of one engine. *)
TwoBlocks ==
    {<<Plain(a), Plain(b)>> : a \in {Distinct, Short, << >>}, b \in {Periodic, Mixed}}
=============================================================================
