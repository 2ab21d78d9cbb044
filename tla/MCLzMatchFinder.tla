-------------------------- MODULE MCLzMatchFinder --------------------------
(***************************************************************************)
(* Instances of LzMatchFinder for TLC.                                     *)
(***************************************************************************)
EXTENDS LzMatchFinder

CONSTANT MaxText

(* A coarse hash: windows that share their first byte share a bucket. *)
FirstByte(w) == w[1]

(* All blocks of the sizes the caller may use, and the empty one, up to a  *)
(* renaming of the bytes: the first byte of a block is 0.                  *)
AllTexts ==
    {<< >>} \cup UNION {{<<0>> \o t : t \in [1..k - 1 -> Byte]}
                          : k \in LeftBytes + MatchLen..MaxText}
=============================================================================
